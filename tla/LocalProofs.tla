----------------------------- MODULE LocalProofs -----------------------------
(***************************************************************************)
(* Proofs about what runs on a person's machine, as MCLocal puts it side   *)
(* by side, for any values of the constants: signing in, the drafts, links *)
(* and the previews, for any number of servers, keys, viewers, tabs,       *)
(* revisions, imports, kept previews and faults; finding sessions          *)
(* (SessionSearch, HermesSessions), for any directories, any number of     *)
(* sessions, rows and rollouts opened and any depth of nesting.            *)
(*                                                                         *)
(* Finding comes first, and for any set of constants x.  What an operator  *)
(* gives is stated once, by what it selects (LatestIs, RecentIs,           *)
(* LoadedIs), and the properties from that.  A limit is by counting, so    *)
(* the first part is about the first of an order; what is recursive is     *)
(* shown to have a solution by the induction it allows.                    *)
(***************************************************************************)
EXTENDS MCLocal, FiniteSetTheorems, WellFoundedInduction, TLAPS

-----------------------------------------------------------------------------
(* Numbers, and the first of an order.                                     *)

\* A set of numbers that is not empty has a least one.
LEMMA Least == ASSUME NEW T \in SUBSET Nat, T # {} PROVE \E n \in T : \A m \in T : n <= m
<1> DEFINE Below == {0 .. n : n \in T}
<1>1. \A n \in T : IsFiniteSet(0 .. n)
  BY FS_Interval
<1>2. Below \subseteq FiniteSubsetsOf(Nat) /\ Below # {}
  <2>1. \A n \in T : 0 .. n \in SUBSET Nat
    OBVIOUS
  <2> QED
    BY <1>1, <2>1 DEF FiniteSubsetsOf
<1>3. PICK X \in Below : \A Y \in Below : <<Y, X>> \notin StrictSubsetOrdering(Nat)
  BY <1>2, FS_StrictSubsetOrderingWellFounded, WFMin
<1>4. PICK n \in T : X = 0 .. n
  BY <1>3
<1>5. ASSUME NEW m \in T, m < n PROVE FALSE
  <2>1. /\ 0 .. m \in Below /\ 0 .. m \subseteq 0 .. n
        /\ n \in 0 .. n /\ n \notin 0 .. m /\ 0 .. n \subseteq Nat
    BY <1>5
  <2>2. <<0 .. m, 0 .. n>> \in StrictSubsetOrdering(Nat)
    BY <2>1 DEF StrictSubsetOrdering
  <2> QED
    BY <1>3, <1>4, <2>1, <2>2
<1> QED
  BY <1>5

\* So what holds of 0, and of n + 1 when it does of n, holds of every number.
LEMMA Induction == ASSUME NEW T \in SUBSET Nat, 0 \in T, \A n \in T : n + 1 \in T PROVE T = Nat
<1>1. SUFFICES ASSUME Nat \ T # {} PROVE FALSE
  OBVIOUS
<1>2. PICK n \in Nat \ T : \A m \in Nat \ T : n <= m
  BY <1>1, Least
<1>3. n - 1 \in Nat \ T
  BY <1>2
<1> QED
  BY <1>2, <1>3

\* Recursion on a step function.
StepsOn(S) == [Nat -> [S -> S]]
Iterated(S, base, step) == {f \in [Nat -> S] : f[0] = base /\ \A n \in Nat : f[n + 1] = step[n][f[n]]}
LEMMA Iterates == ASSUME NEW S, NEW base \in S, NEW step \in StepsOn(S) PROVE Iterated(S, base, step) # {}
<1> DEFINE Up(n) == {g \in [Nat -> S] : g[0] = base /\ \A i \in Nat : i < n => g[i + 1] = step[i][g[i]]}
           There == {n \in Nat : Up(n) # {}}
<1>0. \A n \in Nat, x \in S : step[n][x] \in S
  BY DEF StepsOn
<1>1. 0 \in There
  <2>1. [i \in Nat |-> base] \in Up(0)
    OBVIOUS
  <2> QED
    BY <2>1
<1>2. ASSUME NEW n \in There PROVE n + 1 \in There
  <2>1. PICK g : g \in Up(n)
    BY <1>2
  <2>2. g \in [Nat -> S] /\ g[0] = base /\ \A i \in Nat : i < n => g[i + 1] = step[i][g[i]]
    BY <2>1
  <2> DEFINE h == [g EXCEPT ![n + 1] = step[n][g[n]]]
  <2>3. n \in Nat /\ g[n] \in S /\ step[n][g[n]] \in S
    BY <1>0, <2>2
  <2>4. h \in [Nat -> S] /\ h[n + 1] = step[n][g[n]] /\ \A i \in Nat : i # n + 1 => h[i] = g[i]
    BY <2>2, <2>3
  <2> HIDE DEF h
  <2>5. h[0] = base /\ \A i \in Nat : i < n + 1 => h[i + 1] = step[i][h[i]]
    <3>1. h[0] = base
      BY <2>2, <2>4
    <3>2. ASSUME NEW i \in Nat, i < n + 1 PROVE h[i + 1] = step[i][h[i]]
      <4>1. CASE i = n
        BY <2>4, <4>1
      <4>2. CASE i < n
        <5>1. i + 1 # n + 1 /\ i # n + 1 /\ i + 1 \in Nat
          BY <2>2, <4>2
        <5>2. h[i + 1] = g[i + 1] /\ h[i] = g[i]
          BY <2>4, <5>1
        <5> QED
          BY <2>2, <4>2, <5>2
      <4> QED
        BY <2>2, <3>2, <4>1, <4>2
    <3> QED
      BY <3>1, <3>2
  <2>6. h \in Up(n + 1)
    BY <2>4, <2>5
  <2> QED
    BY <2>3, <2>6
<1>3. There = Nat
  <2> HIDE DEF There
  <2>1. There \in SUBSET Nat
    BY DEF There
  <2> QED
    BY <1>1, <1>2, <2>1, Induction
<1> DEFINE G == [n \in Nat |-> CHOOSE g : g \in Up(n)]
<1>4. \A n \in Nat : G[n] \in Up(n)
  BY <1>3
<1> HIDE DEF G
<1>5. \A n \in Nat : /\ G[n] \in [Nat -> S] /\ G[n][0] = base
                     /\ \A i \in Nat : i < n => G[n][i + 1] = step[i][G[n][i]]
  BY <1>4
<1>6. \A n \in Nat : G[n][n] = G[n + 1][n]
  <2> SUFFICES ASSUME NEW n \in Nat PROVE G[n][n] = G[n + 1][n]
    OBVIOUS
  <2> DEFINE Same == {i \in Nat : i <= n => G[n][i] = G[n + 1][i]}
  <2>1. 0 \in Same
    BY <1>5
  <2>2. ASSUME NEW i \in Same PROVE i + 1 \in Same
    <3>1. i \in Nat /\ (i + 1 <= n => /\ G[n][i + 1] = step[i][G[n][i]]
                                      /\ G[n + 1][i + 1] = step[i][G[n + 1][i]]
                                      /\ G[n][i] = G[n + 1][i])
      BY <1>5, <2>2
    <3> QED
      BY <3>1
  <2>3. Same = Nat
    <3> HIDE DEF Same
    <3>1. Same \in SUBSET Nat
      BY DEF Same
    <3> QED
      BY <2>1, <2>2, <3>1, Induction
  <2> QED
    BY <2>3
<1> DEFINE f == [n \in Nat |-> G[n][n]]
<1>7. f \in [Nat -> S] /\ f[0] = base
  BY <1>5
<1>8. ASSUME NEW n \in Nat PROVE f[n + 1] = step[n][f[n]]
  <2>1. G[n + 1][n + 1] = step[n][G[n + 1][n]]
    BY <1>5
  <2> QED
    BY <1>6, <2>1
<1> QED
  BY <1>7, <1>8 DEF Iterated

\* A set of numbers that has a bound and is not empty has a greatest one.
LEMMA Greatest ==
  ASSUME NEW T \in SUBSET Nat, T # {}, NEW n \in Nat, \A m \in T : m <= n
  PROVE  \E m \in T : \A k \in T : k <= m
<1> DEFINE Gaps == {n - m : m \in T}
<1>1. Gaps \in SUBSET Nat /\ Gaps # {}
  <2>1. \A m \in T : n - m \in Nat
    OBVIOUS
  <2> QED
    BY <2>1
<1>2. PICK g \in Gaps : \A h \in Gaps : g <= h
  BY <1>1, Least
<1>3. PICK m \in T : g = n - m
  BY <1>2
<1>4. \A k \in T : n - k \in Gaps
  OBVIOUS
<1> HIDE DEF Gaps
<1>5. \A k \in T : k <= m
  BY <1>2, <1>3, <1>4
<1> QED
  BY <1>5

\* What is ahead of r in an order of A.
Ahead(A, R, r) == {s \in A : <<s, r>> \in R}
StrictOrder(A, R) ==
  /\ \A r \in A : <<r, r>> \notin R
  /\ \A r, s, t \in A : <<r, s>> \in R /\ <<s, t>> \in R => <<r, t>> \in R
  /\ \A r, s \in A : r = s \/ <<r, s>> \in R \/ <<s, r>> \in R
FirstOf(A, R, n) == {r \in A : Cardinality(Ahead(A, R, r)) < n}

\* What is ahead of another has fewer ahead of it.
LEMMA AheadHasFewer ==
  ASSUME NEW A, NEW R, IsFiniteSet(A), StrictOrder(A, R), NEW r \in A
  PROVE  /\ Cardinality(Ahead(A, R, r)) \in Nat /\ Cardinality(Ahead(A, R, r)) < Cardinality(A)
         /\ \A s \in Ahead(A, R, r) : Cardinality(Ahead(A, R, s)) < Cardinality(Ahead(A, R, r))
<1>0. Cardinality(A) \in Nat
  BY FS_CardinalityType
<1>1. \A q \in A : /\ IsFiniteSet(Ahead(A, R, q)) /\ Cardinality(Ahead(A, R, q)) \in Nat
                   /\ Cardinality(Ahead(A, R, q)) <= Cardinality(A)
                   /\ Cardinality(Ahead(A, R, q)) = Cardinality(A) => A = Ahead(A, R, q)
  <2> TAKE q \in A
  <2>1. Ahead(A, R, q) \in SUBSET A
    BY DEF Ahead
  <2> QED
    BY <2>1, FS_Subset, FS_CardinalityType
<1>2. r \notin Ahead(A, R, r)
  BY DEF Ahead, StrictOrder
<1>3. ASSUME NEW s \in Ahead(A, R, r)
      PROVE  Cardinality(Ahead(A, R, s)) < Cardinality(Ahead(A, R, r))
  <2>1. s \in A /\ s \in Ahead(A, R, r) /\ s \notin Ahead(A, R, s)
    BY <1>3 DEF Ahead, StrictOrder
  <2>2. Ahead(A, R, s) \in SUBSET Ahead(A, R, r)
    BY <2>1 DEF Ahead, StrictOrder
  <2>3. /\ Cardinality(Ahead(A, R, s)) <= Cardinality(Ahead(A, R, r))
        /\ Cardinality(Ahead(A, R, r)) = Cardinality(Ahead(A, R, s)) => Ahead(A, R, r) = Ahead(A, R, s)
    BY <1>1, <2>1, <2>2, FS_Subset
  <2> QED
    BY <1>1, <2>1, <2>3
<1> QED
  BY <1>0, <1>1, <1>2, <1>3

\* Of more than n, exactly n have fewer than n ahead of them.
LEMMA FirstOfAre ==
  ASSUME NEW A, NEW R, IsFiniteSet(A), StrictOrder(A, R), NEW n \in Nat, n <= Cardinality(A)
  PROVE  IsFiniteSet(FirstOf(A, R, n)) /\ Cardinality(FirstOf(A, R, n)) = n
<1> DEFINE rank == [r \in A |-> Cardinality(Ahead(A, R, r)) + 1]
           size == Cardinality(A)
<1>0. size \in Nat /\ IsFiniteSet(1 .. size) /\ Cardinality(1 .. size) = size
  BY FS_CardinalityType, FS_Interval
<1>1. \A r \in A : rank[r] \in 1 .. size
  BY <1>0, AheadHasFewer
<1>2. \A r, s \in A : rank[r] = rank[s] => r = s
  <2> TAKE r, s \in A
  <2>1. r = s \/ r \in Ahead(A, R, s) \/ s \in Ahead(A, R, r)
    BY DEF StrictOrder, Ahead
  <2>2. /\ Cardinality(Ahead(A, R, r)) \in Nat /\ Cardinality(Ahead(A, R, s)) \in Nat
        /\ r \in Ahead(A, R, s) => Cardinality(Ahead(A, R, r)) < Cardinality(Ahead(A, R, s))
        /\ s \in Ahead(A, R, r) => Cardinality(Ahead(A, R, s)) < Cardinality(Ahead(A, R, r))
    BY AheadHasFewer
  <2> QED
    BY <2>1, <2>2
<1> HIDE DEF rank
<1>3. rank \in Injection(A, 1 .. size)
  BY <1>1, <1>2 DEF Injection, IsInjective, rank
<1>4. rank \in Surjection(A, 1 .. size)
  BY <1>0, <1>3, FS_Injection
<1> DEFINE firsts == [r \in FirstOf(A, R, n) |-> rank[r]]
<1>5. \A r \in A : r \in FirstOf(A, R, n) <=> rank[r] \in 1 .. n
  BY AheadHasFewer DEF FirstOf, rank
<1>6. firsts \in Bijection(FirstOf(A, R, n), 1 .. n)
  <2>1. firsts \in [FirstOf(A, R, n) -> 1 .. n]
    BY <1>5 DEF FirstOf
  <2>2. \A r, s \in FirstOf(A, R, n) : firsts[r] = firsts[s] => r = s
    BY <1>2 DEF FirstOf
  <2>3. \A k \in 1 .. n : \E r \in FirstOf(A, R, n) : firsts[r] = k
    <3> TAKE k \in 1 .. n
    <3>1. PICK r \in A : rank[r] = k
      BY <1>0, <1>4 DEF Surjection
    <3> QED
      BY <1>5, <3>1
  <2> QED
    BY <2>1, <2>2, <2>3 DEF Bijection, Injection, Surjection, IsInjective
<1>7. IsFiniteSet(FirstOf(A, R, n))
  <2>1. FirstOf(A, R, n) \in SUBSET A
    BY DEF FirstOf
  <2> QED
    BY <2>1, FS_Subset
<1>8. Cardinality(1 .. n) = n
  BY FS_Interval
<1> QED
  BY <1>6, <1>7, <1>8, FS_Bijection DEF ExistsBijection

-----------------------------------------------------------------------------
(* Finding sessions, in any stores: the sessions, and what agents do.      *)

Kinds == {"aider", "claude-code", "codex", "dsh", "opencode", "pi"}
Session(x) == [harness : x.harnesses, dir : x.dirs, parent : Nat, began : Nat, wrote : Nat]

\* Sessions are numbered as they begin, a sub-agent's after that which spawned it, and are
\* written to when they begin and later.
SessionsShape(x) ==
  /\ clock \in 1 .. x.time
  /\ sessions \in Seq(Session(x))
  /\ \A i \in DOMAIN sessions :
       /\ sessions[i].parent < i
       /\ sessions[i].began <= sessions[i].wrote /\ sessions[i].wrote <= clock
       /\ sessions[i].harness \in {"aider", "pi"} => sessions[i].parent = 0
  /\ \A i, j \in DOMAIN sessions : i < j => sessions[i].began <= sessions[j].began

SameStore(i, j) == sessions[i].harness = sessions[j].harness /\ sessions[i].dir = sessions[j].dir

\* A sub-agent works where the person's own session that it is of was begun; and of a history
\* file the last run alone is written to, each begun after the one before was over.
SessionsKept(x) ==
  /\ \A i \in DOMAIN sessions : \E j \in DOMAIN sessions : sessions[j].parent = 0 /\ SameStore(i, j)
  /\ \A i, j \in DOMAIN sessions :
       i < j /\ sessions[i].harness = "aider" /\ SameStore(i, j) =>
         sessions[i].began < sessions[j].began /\ sessions[i].wrote <= sessions[j].began

AgentsInv(x) == SessionsShape(x) /\ SessionsKept(x)

\* What agents do to the sessions: one begins, or is written to.
Adds(x, s) ==
  /\ sessions' = Append(sessions, s) /\ s \in Session(x) /\ s.began = clock' /\ s.wrote = clock'
  /\ s.parent \in 0 .. Len(sessions)
  /\ s.parent # 0 => /\ s.harness \notin {"aider", "pi"}
                     /\ sessions[s.parent].harness = s.harness /\ sessions[s.parent].dir = s.dir
  /\ s.harness = "aider" =>
       \A i \in DOMAIN sessions :
         sessions[i].harness = "aider" /\ sessions[i].dir = s.dir => sessions[i].began < clock'
Writes(i) ==
  /\ i \in DOMAIN sessions /\ sessions' = [sessions EXCEPT ![i].wrote = clock']
  /\ sessions[i].harness = "aider" =>
       \A j \in DOMAIN sessions : SameStore(i, j) => j <= i

\* Every step of an agent is one of the two.
LEMMA AgentsEffect ==
  ASSUME NEW x, Search(x)!SearchAssumption, SessionsShape(x), Search(x)!Agents
  PROVE  /\ clock' \in {clock, clock + 1} /\ clock' <= x.time /\ UNCHANGED cmd
         /\ (\E s : Adds(x, s)) \/ \E i : Writes(i)
<1> USE DEF Search!NextTime
<1>1. ASSUME NEW h \in x.harnesses, NEW dir \in x.dirs, Search(x)!Start(h, dir)
      PROVE  /\ clock' \in {clock, clock + 1} /\ clock' <= x.time /\ UNCHANGED cmd
             /\ \E s : Adds(x, s)
  <2>1. PICK t \in Search(x)!NextTime :
          /\ h = "aider" => \A i \in Search(x)!AiderRuns(dir) : sessions[i].began < t
          /\ Search(x)!Add(t, h, dir, 0) /\ UNCHANGED cmd
    BY <1>1 DEF Search!Start
  <2> DEFINE s == [harness |-> h, dir |-> dir, parent |-> 0, began |-> t, wrote |-> t]
  <2>2. clock' = t /\ sessions' = Append(sessions, s) /\ t \in Nat
    BY <2>1 DEF Search!Add, SessionsShape
  <2>3. h = "aider" => \A i \in DOMAIN sessions :
          sessions[i].harness = "aider" /\ sessions[i].dir = dir => sessions[i].began < t
    BY <2>1 DEF Search!AiderRuns, Search!Of, Search!All
  <2>4. Len(sessions) \in Nat
    BY DEF SessionsShape
  <2>5. Adds(x, s)
    BY <2>2, <2>3, <2>4 DEF Adds, Session
  <2> QED
    BY <2>1, <2>2, <2>5
<1>2. ASSUME NEW i \in DOMAIN sessions, Search(x)!Spawn(i)
      PROVE  /\ clock' \in {clock, clock + 1} /\ clock' <= x.time /\ UNCHANGED cmd
             /\ \E s : Adds(x, s)
  <2>1. PICK t \in Search(x)!NextTime :
          Search(x)!Add(t, sessions[i].harness, sessions[i].dir, i) /\ UNCHANGED cmd
    BY <1>2 DEF Search!Spawn
  <2> DEFINE s == [harness |-> sessions[i].harness, dir |-> sessions[i].dir, parent |-> i,
                   began |-> t, wrote |-> t]
  <2>2. clock' = t /\ sessions' = Append(sessions, s) /\ t \in Nat
    BY <2>1 DEF Search!Add, SessionsShape
  <2>3. sessions[i] \in Session(x) /\ i \in 0 .. Len(sessions) /\ i \in Nat
    BY DEF SessionsShape
  <2>4. sessions[i].harness \notin {"aider", "pi"}
    BY <1>2 DEF Search!Spawn
  <2>5. Adds(x, s)
    BY <2>2, <2>3, <2>4 DEF Adds, Session
  <2> QED
    BY <2>1, <2>2, <2>5
<1>3. ASSUME NEW i \in DOMAIN sessions, Search(x)!Write(i)
      PROVE  /\ clock' \in {clock, clock + 1} /\ clock' <= x.time /\ UNCHANGED cmd
             /\ Writes(i)
  <2>1. /\ \E t \in Search(x)!NextTime : clock' = t /\ sessions' = [sessions EXCEPT ![i].wrote = t]
        /\ UNCHANGED cmd
        /\ sessions[i].harness = "aider" =>
             i \in Search(x)!LastOf(Search(x)!AiderRuns(sessions[i].dir))
    BY <1>3 DEF Search!Write
  <2>2. sessions[i].harness = "aider" => \A j \in DOMAIN sessions : SameStore(i, j) => j <= i
    BY <2>1 DEF Search!LastOf, Search!AiderRuns, Search!Of, Search!All, SameStore
  <2> QED
    BY <2>1, <2>2 DEF Writes
<1> QED
  BY <1>1, <1>2, <1>3 DEF Search!Agents, Search!All

\* What a step of an agent leaves as it was.
Onward ==
  /\ Len(sessions) <= Len(sessions') /\ DOMAIN sessions \subseteq DOMAIN sessions'
  /\ \A i \in DOMAIN sessions :
       /\ sessions'[i].harness = sessions[i].harness /\ sessions'[i].dir = sessions[i].dir
       /\ sessions'[i].parent = sessions[i].parent /\ sessions'[i].began = sessions[i].began
       /\ sessions'[i].wrote = sessions[i].wrote \/ sessions'[i].wrote = clock'
  /\ \A i \in DOMAIN sessions' \ DOMAIN sessions :
       sessions'[i].began = clock' /\ sessions'[i].wrote = clock' /\ i > Len(sessions)
  /\ clock <= clock'

\* When one begins it is the last; a write changes one time alone.
LEMMA AddsEffect ==
  ASSUME NEW x, SessionsShape(x), NEW s, Adds(x, s)
  PROVE  /\ Len(sessions) \in Nat /\ DOMAIN sessions = 1 .. Len(sessions)
         /\ Len(sessions') = Len(sessions) + 1 /\ DOMAIN sessions' = 1 .. Len(sessions) + 1
         /\ sessions' \in Seq(Session(x))
         /\ sessions'[Len(sessions) + 1] = s /\ \A i \in DOMAIN sessions : sessions'[i] = sessions[i]
<1>1. sessions \in Seq(Session(x)) /\ s \in Session(x)
  BY DEF SessionsShape, Adds
<1> QED
  BY <1>1 DEF Adds

LEMMA WritesEffect ==
  ASSUME NEW x, SessionsShape(x), clock' \in Nat, NEW i, Writes(i)
  PROVE  /\ Len(sessions) \in Nat /\ DOMAIN sessions = 1 .. Len(sessions)
         /\ Len(sessions') = Len(sessions) /\ DOMAIN sessions' = DOMAIN sessions
         /\ sessions' \in Seq(Session(x))
         /\ sessions'[i] = [sessions[i] EXCEPT !.wrote = clock']
         /\ \A j \in DOMAIN sessions : j # i => sessions'[j] = sessions[j]
<1>1. sessions \in Seq(Session(x)) /\ i \in DOMAIN sessions
  BY DEF SessionsShape, Writes
<1>2. sessions[i] \in Session(x)
  BY <1>1
<1>3. [sessions[i] EXCEPT !.wrote = clock'] \in Session(x)
  BY <1>2 DEF Session
<1>4. sessions' = [sessions EXCEPT ![i] = [sessions[i] EXCEPT !.wrote = clock']]
  BY DEF Writes
<1> QED
  BY <1>1, <1>3, <1>4

LEMMA AgentsOnward ==
  ASSUME NEW x, SessionsShape(x), clock' \in {clock, clock + 1}, (\E s : Adds(x, s)) \/ \E i : Writes(i)
  PROVE  Onward
<1>0. clock \in Nat /\ clock' \in Nat
  BY DEF SessionsShape
<1>1. ASSUME NEW s, Adds(x, s) PROVE Onward
  BY <1>0, <1>1, AddsEffect DEF Onward, Adds
<1>2. ASSUME NEW i, Writes(i) PROVE Onward
  <2>1. sessions[i] \in Session(x) /\ i \in DOMAIN sessions
    BY <1>2 DEF SessionsShape, Writes
  <2>2. \A f \in {"harness", "dir", "parent", "began"} : sessions'[i][f] = sessions[i][f]
    BY <1>0, <1>2, <2>1, WritesEffect DEF Session
  <2>3. sessions'[i].wrote = clock'
    BY <1>0, <1>2, <2>1, WritesEffect DEF Session
  <2>4. /\ Len(sessions') = Len(sessions) /\ DOMAIN sessions' = DOMAIN sessions
        /\ \A j \in DOMAIN sessions : j # i => sessions'[j] = sessions[j]
        /\ Len(sessions) \in Nat
    BY <1>0, <1>2, WritesEffect
  <2>5. \A j \in DOMAIN sessions :
          /\ sessions'[j].harness = sessions[j].harness /\ sessions'[j].dir = sessions[j].dir
          /\ sessions'[j].parent = sessions[j].parent /\ sessions'[j].began = sessions[j].began
          /\ sessions'[j].wrote = sessions[j].wrote \/ sessions'[j].wrote = clock'
    BY <2>2, <2>3, <2>4
  <2> QED
    BY <1>0, <2>4, <2>5 DEF Onward
<1> QED
  BY <1>1, <1>2

\* What agents do keeps the sessions as they are told of above.
LEMMA AgentsInvNext ==
  ASSUME NEW x, x.time \in Nat, AgentsInv(x), clock' \in {clock, clock + 1}, clock' <= x.time,
         (\E s : Adds(x, s)) \/ \E i : Writes(i)
  PROVE  AgentsInv(x)'
<1>0. clock \in Nat /\ clock' \in 1 .. x.time /\ SessionsShape(x)
  BY DEF SessionsShape, AgentsInv
<1>1. \A i \in DOMAIN sessions : sessions[i] \in Session(x) /\ i \in Nat
  BY DEF SessionsShape, AgentsInv
<1>2. ASSUME NEW s, Adds(x, s) PROVE AgentsInv(x)'
  <2> DEFINE n == Len(sessions) + 1
  <2>1. /\ DOMAIN sessions' = DOMAIN sessions \union {n} /\ n \notin DOMAIN sessions /\ n \in Nat
        /\ \A i \in DOMAIN sessions : i < n
        /\ sessions'[n] = s /\ \A i \in DOMAIN sessions : sessions'[i] = sessions[i]
        /\ sessions' \in Seq(Session(x)) /\ DOMAIN sessions = 1 .. Len(sessions)
    <3>1. /\ Len(sessions) \in Nat /\ DOMAIN sessions = 1 .. Len(sessions)
          /\ Len(sessions') = Len(sessions) + 1 /\ DOMAIN sessions' = 1 .. Len(sessions) + 1
          /\ sessions' \in Seq(Session(x))
          /\ sessions'[Len(sessions) + 1] = s /\ \A i \in DOMAIN sessions : sessions'[i] = sessions[i]
      BY <1>0, <1>2, AddsEffect
    <3> QED
      BY <3>1
  <2> HIDE DEF n
  <2>2. SessionsShape(x)'
    <3>1. /\ s.parent < n /\ s.began = clock' /\ s.wrote = clock'
          /\ s.harness \in {"aider", "pi"} => s.parent = 0
      BY <1>2, <2>1 DEF Adds, n
    <3>2. \A i \in DOMAIN sessions : /\ sessions[i].began \in Nat /\ sessions[i].wrote \in Nat
                                      /\ sessions[i].began <= clock' /\ sessions[i].wrote <= clock'
      BY <1>0, <1>1 DEF SessionsShape, Session
    <3>3. \A i \in DOMAIN sessions' :
            /\ sessions'[i].parent < i
            /\ sessions'[i].began <= sessions'[i].wrote /\ sessions'[i].wrote <= clock'
            /\ sessions'[i].harness \in {"aider", "pi"} => sessions'[i].parent = 0
      BY <1>0, <2>1, <3>1, <3>2 DEF SessionsShape
    <3>4. ASSUME NEW i \in DOMAIN sessions', NEW j \in DOMAIN sessions', i < j
          PROVE  sessions'[i].began <= sessions'[j].began
      <4>1. i \in DOMAIN sessions
        BY <1>1, <2>1, <3>4
      <4> QED
        BY <1>0, <2>1, <3>1, <3>2, <3>4, <4>1 DEF SessionsShape
    <3> QED
      BY <1>0, <2>1, <3>3, <3>4 DEF SessionsShape
  <2>3. \A i \in DOMAIN sessions' : \E j \in DOMAIN sessions' : sessions'[j].parent = 0 /\ SameStore(i, j)'
    <3>1. CASE s.parent = 0
      BY <2>1, <3>1 DEF AgentsInv, SessionsKept, SameStore
    <3>2. CASE s.parent # 0
      <4>1. s.parent \in DOMAIN sessions
        BY <1>2, <2>1, <3>2 DEF Adds
      <4>2. sessions[s.parent].harness = s.harness /\ sessions[s.parent].dir = s.dir
        BY <1>2, <3>2 DEF Adds
      <4>3. PICK k \in DOMAIN sessions : sessions[k].parent = 0 /\ SameStore(s.parent, k)
        BY <4>1 DEF AgentsInv, SessionsKept
      <4>4. \A i \in DOMAIN sessions : \E j \in DOMAIN sessions :
              sessions[j].parent = 0 /\ SameStore(i, j)
        BY DEF AgentsInv, SessionsKept
      <4>5. sessions[k].parent = 0 /\ s.harness = sessions[k].harness /\ s.dir = sessions[k].dir
        BY <4>2, <4>3 DEF SameStore
      <4>6. ASSUME NEW i \in DOMAIN sessions'
            PROVE  \E j \in DOMAIN sessions' : /\ sessions'[j].parent = 0
                                               /\ sessions'[i].harness = sessions'[j].harness
                                               /\ sessions'[i].dir = sessions'[j].dir
        <5>1. CASE i = n
          BY <2>1, <4>3, <4>5, <5>1
        <5>2. CASE i # n
          <6>1. PICK j \in DOMAIN sessions : /\ sessions[j].parent = 0
                                             /\ sessions[i].harness = sessions[j].harness
                                             /\ sessions[i].dir = sessions[j].dir
            BY <2>1, <4>4, <5>2 DEF SameStore
          <6> QED
            BY <2>1, <5>2, <6>1
        <5> QED
          BY <5>1, <5>2
      <4> QED
        BY <4>6 DEF SameStore
    <3> QED
      BY <3>1, <3>2
  <2>4. \A i \in DOMAIN sessions : sessions[i].wrote <= clock'
    BY <1>0, <1>1 DEF SessionsShape, Session
  <2>5. ASSUME NEW i \in DOMAIN sessions', NEW j \in DOMAIN sessions',
               i < j, sessions'[i].harness = "aider", SameStore(i, j)'
        PROVE  sessions'[i].began < sessions'[j].began /\ sessions'[i].wrote <= sessions'[j].began
    <3>1. i \in DOMAIN sessions
      BY <1>1, <2>1, <2>5
    <3>2. CASE j = n
      BY <1>2, <2>1, <2>4, <2>5, <3>1, <3>2 DEF Adds, SameStore
    <3>3. CASE j # n
      BY <2>1, <2>5, <3>1, <3>3 DEF SameStore, AgentsInv, SessionsKept
    <3> QED
      BY <3>2, <3>3
  <2> QED
    BY <2>2, <2>3, <2>5 DEF AgentsInv, SessionsKept
<1>3. ASSUME NEW i, Writes(i) PROVE AgentsInv(x)'
  <2>1. Onward
    BY <1>0, <1>3, AgentsOnward
  <2>2. /\ DOMAIN sessions' = DOMAIN sessions /\ sessions' \in Seq(Session(x))
        /\ sessions'[i] = [sessions[i] EXCEPT !.wrote = clock']
        /\ \A j \in DOMAIN sessions : j # i => sessions'[j] = sessions[j]
    BY <1>0, <1>3, WritesEffect
  <2>3. i \in DOMAIN sessions /\ sessions'[i].wrote = clock'
    BY <1>1, <1>3, <2>2 DEF Session, Writes
  <2>4. \A j \in DOMAIN sessions :
          /\ sessions[j].began \in Nat /\ sessions[j].wrote \in Nat
          /\ sessions[j].began <= sessions[j].wrote /\ sessions[j].wrote <= clock /\ clock <= clock'
    BY <1>0, <1>1 DEF SessionsShape, Session
  <2>5. \A j \in DOMAIN sessions :
          /\ sessions'[j].harness = sessions[j].harness /\ sessions'[j].dir = sessions[j].dir
          /\ sessions'[j].parent = sessions[j].parent /\ sessions'[j].began = sessions[j].began
    BY <2>1 DEF Onward
  <2>6. SessionsShape(x)'
    <3>1. \A j \in DOMAIN sessions : sessions'[j].began <= sessions'[j].wrote /\ sessions'[j].wrote <= clock'
      <4> TAKE j \in DOMAIN sessions
      <4>1. CASE j = i
        BY <1>0, <2>3, <2>4, <2>5, <4>1
      <4>2. CASE j # i
        BY <1>0, <2>2, <2>4, <2>5, <4>2
      <4> QED
        BY <4>1, <4>2
    <3> QED
      BY <1>0, <2>2, <2>5, <3>1 DEF SessionsShape
  <2>7. SessionsKept(x)'
    <3>1. \A j, k \in DOMAIN sessions : SameStore(j, k)' <=> SameStore(j, k)
      BY <2>5 DEF SameStore
    <3>2. \A j \in DOMAIN sessions : \E k \in DOMAIN sessions : sessions'[k].parent = 0 /\ SameStore(j, k)'
      BY <2>5, <3>1 DEF AgentsInv, SessionsKept
    <3>3. ASSUME NEW j \in DOMAIN sessions, NEW k \in DOMAIN sessions,
                 j < k, sessions[j].harness = "aider", SameStore(j, k)
          PROVE  sessions'[j].began < sessions'[k].began /\ sessions'[j].wrote <= sessions'[k].began
      <4>1. j # i
        BY <1>1, <1>3, <3>3 DEF Writes
      <4> QED
        BY <2>2, <2>5, <3>3, <4>1 DEF AgentsInv, SessionsKept
    <3> QED
      BY <2>2, <2>5, <3>1, <3>2, <3>3 DEF SessionsKept
  <2> QED
    BY <2>6, <2>7 DEF AgentsInv
<1> QED
  BY <1>2, <1>3

-----------------------------------------------------------------------------
(* The newest sessions of a store.                                         *)

LEMMA SearchCounts == \A x, S : Search(x)!Cardinality(S) = Cardinality(S)
  BY DEF Search!Cardinality, Cardinality

NewerPairs(x, among) == {p \in among \X among : Search(x)!Newer(p[1], p[2])}

\* Which session is newer is an order of any of them.
LEMMA NewerIsAnOrder ==
  ASSUME NEW x, SessionsShape(x), NEW among \in SUBSET DOMAIN sessions
  PROVE  /\ IsFiniteSet(among) /\ Cardinality(among) \in Nat /\ StrictOrder(among, NewerPairs(x, among))
         /\ \A i \in among : Ahead(among, NewerPairs(x, among), i) = {j \in among : Search(x)!Newer(j, i)}
         /\ \A n : Search(x)!Newest(among, n) = FirstOf(among, NewerPairs(x, among), n)
<1>1. sessions \in Seq(Session(x)) /\ DOMAIN sessions = 1 .. Len(sessions) /\ Len(sessions) \in Nat
  BY DEF SessionsShape
<1>2. IsFiniteSet(among) /\ Cardinality(among) \in Nat
  <2>1. IsFiniteSet(1 .. Len(sessions))
    BY <1>1, FS_Interval
  <2> QED
    BY <1>1, <2>1, FS_Subset, FS_CardinalityType
<1>3. \A i \in among : i \in Nat /\ sessions[i].wrote \in Nat
  <2>1. \A i \in DOMAIN sessions : i \in Nat /\ sessions[i] \in Session(x)
    BY <1>1
  <2> QED
    BY <2>1 DEF Session
<1>4. \A i, j \in among : <<i, j>> \in NewerPairs(x, among) <=> Search(x)!Newer(i, j)
  BY DEF NewerPairs
<1>5. StrictOrder(among, NewerPairs(x, among))
  BY <1>3, <1>4 DEF StrictOrder, Search!Newer
<1>6. \A i \in among : Ahead(among, NewerPairs(x, among), i) = {j \in among : Search(x)!Newer(j, i)}
  BY <1>4 DEF Ahead
<1>7. \A n : Search(x)!Newest(among, n) = FirstOf(among, NewerPairs(x, among), n)
  BY <1>6, SearchCounts DEF Search!Newest, FirstOf
<1> QED
  BY <1>2, <1>5, <1>6, <1>7

\* The first of an order are of its set; with one go all that are ahead of it; and there is
\* one unless the set is empty.
LEMMA FirstOfFacts ==
  ASSUME NEW A, NEW R, IsFiniteSet(A), StrictOrder(A, R), NEW n \in Nat \ {0}
  PROVE  /\ FirstOf(A, R, n) \subseteq A
         /\ \A r \in FirstOf(A, R, n), s \in A : <<s, r>> \in R => s \in FirstOf(A, R, n)
         /\ A # {} => \E r \in FirstOf(A, R, n) : \A s \in A : s = r \/ <<r, s>> \in R
         /\ Cardinality(A) <= n => FirstOf(A, R, n) = A
         /\ \A r \in FirstOf(A, R, 1), s \in A : s = r \/ <<r, s>> \in R
<1>1. FirstOf(A, R, n) \subseteq A /\ Cardinality(A) \in Nat
  BY FS_CardinalityType DEF FirstOf
<1>2. \A r \in A : /\ Cardinality(Ahead(A, R, r)) \in Nat /\ Cardinality(Ahead(A, R, r)) < Cardinality(A)
                   /\ \A s \in Ahead(A, R, r) : Cardinality(Ahead(A, R, s)) < Cardinality(Ahead(A, R, r))
  BY AheadHasFewer
<1>3. ASSUME NEW r \in FirstOf(A, R, n), NEW s \in A, <<s, r>> \in R PROVE s \in FirstOf(A, R, n)
  <2>1. s \in Ahead(A, R, r) /\ r \in A
    BY <1>3 DEF Ahead, FirstOf
  <2> QED
    BY <1>2, <2>1 DEF FirstOf
<1>4. Cardinality(A) <= n => FirstOf(A, R, n) = A
  BY <1>1, <1>2 DEF FirstOf
<1>5. ASSUME NEW r \in FirstOf(A, R, 1), NEW s \in A PROVE s = r \/ <<r, s>> \in R
  <2>1. r \in A /\ Cardinality(Ahead(A, R, r)) = 0
    BY <1>2 DEF FirstOf
  <2>2. Ahead(A, R, r) \in SUBSET A
    BY DEF Ahead
  <2>3. Ahead(A, R, r) = {}
    BY <2>1, <2>2, FS_Subset, FS_EmptySet
  <2> QED
    BY <2>1, <2>3 DEF Ahead, StrictOrder
<1>6. ASSUME A # {} PROVE \E r \in FirstOf(A, R, n) : \A s \in A : s = r \/ <<r, s>> \in R
  <2>1. 1 <= Cardinality(A)
    BY <1>1, <1>6, FS_EmptySet
  <2>2. IsFiniteSet(FirstOf(A, R, 1)) /\ Cardinality(FirstOf(A, R, 1)) = 1
    BY <2>1, FirstOfAre
  <2>3. PICK r : r \in FirstOf(A, R, 1)
    BY <2>2, FS_EmptySet
  <2>4. r \in FirstOf(A, R, n)
    BY <1>2, <2>3 DEF FirstOf
  <2> QED
    BY <1>5, <2>3, <2>4
<1> QED
  BY <1>1, <1>3, <1>4, <1>5, <1>6

LEMMA NewestFacts ==
  ASSUME NEW x, SessionsShape(x), NEW among \in SUBSET DOMAIN sessions, NEW n \in Nat \ {0}
  PROVE  /\ Search(x)!Newest(among, n) \subseteq among
         /\ \A i \in Search(x)!Newest(among, n), j \in among :
              Search(x)!Newer(j, i) => j \in Search(x)!Newest(among, n)
         /\ among # {} => \E i \in Search(x)!Newest(among, n) : \A j \in among : j = i \/ Search(x)!Newer(i, j)
         /\ Cardinality(among) <= n => Search(x)!Newest(among, n) = among
         /\ \A i \in Search(x)!Newest(among, 1), j \in among : j = i \/ Search(x)!Newer(i, j)
         /\ n <= Cardinality(among) => Cardinality(Search(x)!Newest(among, n)) = n
<1>1. \A i, j \in among : <<i, j>> \in NewerPairs(x, among) <=> Search(x)!Newer(i, j)
  BY DEF NewerPairs
<1>2. /\ IsFiniteSet(among) /\ StrictOrder(among, NewerPairs(x, among))
      /\ Search(x)!Newest(among, n) = FirstOf(among, NewerPairs(x, among), n)
      /\ Search(x)!Newest(among, 1) = FirstOf(among, NewerPairs(x, among), 1)
  BY NewerIsAnOrder
<1>3. /\ FirstOf(among, NewerPairs(x, among), n) \subseteq among
      /\ FirstOf(among, NewerPairs(x, among), 1) \subseteq among
  BY DEF FirstOf
<1>4. n <= Cardinality(among) => Cardinality(FirstOf(among, NewerPairs(x, among), n)) = n
  BY <1>2, FirstOfAre
<1>5. /\ \A r \in FirstOf(among, NewerPairs(x, among), n), s \in among :
           <<s, r>> \in NewerPairs(x, among) => s \in FirstOf(among, NewerPairs(x, among), n)
      /\ among # {} => \E r \in FirstOf(among, NewerPairs(x, among), n) :
                         \A s \in among : s = r \/ <<r, s>> \in NewerPairs(x, among)
      /\ Cardinality(among) <= n => FirstOf(among, NewerPairs(x, among), n) = among
      /\ \A r \in FirstOf(among, NewerPairs(x, among), 1), s \in among :
           s = r \/ <<r, s>> \in NewerPairs(x, among)
  BY <1>2, FirstOfFacts
<1>6. \A i \in Search(x)!Newest(among, n), j \in among :
        Search(x)!Newer(j, i) => j \in Search(x)!Newest(among, n)
  <2> TAKE i \in Search(x)!Newest(among, n), j \in among
  <2>1. i \in FirstOf(among, NewerPairs(x, among), n) /\ i \in among
    BY <1>2, <1>3
  <2>2. <<j, i>> \in NewerPairs(x, among) => j \in FirstOf(among, NewerPairs(x, among), n)
    BY <1>5, <2>1
  <2> QED
    BY <1>1, <1>2, <2>1, <2>2
<1>7. \A i \in Search(x)!Newest(among, 1), j \in among : j = i \/ Search(x)!Newer(i, j)
  BY <1>1, <1>2, <1>3, <1>5
<1>8. among # {} => \E i \in Search(x)!Newest(among, n) : \A j \in among : j = i \/ Search(x)!Newer(i, j)
  <2> SUFFICES ASSUME among # {}
               PROVE  \E i \in Search(x)!Newest(among, n) : \A j \in among : j = i \/ Search(x)!Newer(i, j)
    OBVIOUS
  <2>1. PICK i \in FirstOf(among, NewerPairs(x, among), n) :
          \A s \in among : s = i \/ <<i, s>> \in NewerPairs(x, among)
    BY <1>5
  <2> QED
    BY <1>1, <1>2, <1>3, <2>1
<1> QED
  BY <1>2, <1>3, <1>4, <1>5, <1>6, <1>7, <1>8

-----------------------------------------------------------------------------
(* What each search finds.                                                 *)

\* The person's own sessions that a harness has for a directory, and those of its sessions
\* that its search looks at.
StoreOf(x, h, dir) ==
  CASE h = "claude-code" -> Search(x)!ClaudeTranscripts(dir)
    [] h = "pi" -> Search(x)!PiTranscripts(dir)
    [] h = "codex" -> {i \in Search(x)!Of("codex") : Search(x)!CodexOwn(i, dir)}
    [] h = "opencode" -> {i \in Search(x)!Of("opencode") : sessions[i].dir = dir /\ Search(x)!Own(i)}
    [] h = "dsh" -> Search(x)!DshSessions(dir, FALSE)
    [] OTHER -> Search(x)!AiderRuns(dir)
Window(x, h) == IF h = "codex" THEN Search(x)!Newest(Search(x)!Of("codex"), x.opened) ELSE DOMAIN sessions
Seen(x, h, dir) == StoreOf(x, h, dir) \cap Window(x, h)

\* A session of a history file comes after those above it there; others go by their times.
Leads(x, i, j) == IF sessions[i].harness = "aider" THEN j < i ELSE Search(x)!Newer(i, j)

LEMMA SessionsAre ==
  ASSUME NEW x, SessionsShape(x)
  PROVE  /\ DOMAIN sessions = 1 .. Len(sessions) /\ Len(sessions) \in Nat
         /\ \A i \in DOMAIN sessions :
              /\ i \in Nat /\ sessions[i] \in Session(x)
              /\ sessions[i].began \in Nat /\ sessions[i].wrote \in Nat
              /\ sessions[i].harness \in x.harnesses /\ sessions[i].dir \in x.dirs
              /\ sessions[i].began <= sessions[i].wrote /\ sessions[i].wrote <= clock
         /\ clock \in Nat
<1>1. sessions \in Seq(Session(x))
  BY DEF SessionsShape
<1>2. DOMAIN sessions = 1 .. Len(sessions) /\ Len(sessions) \in Nat
  BY <1>1
<1>3. \A i \in DOMAIN sessions : sessions[i] \in Session(x) /\ i \in Nat
  BY <1>1, <1>2
<1> QED
  BY <1>2, <1>3 DEF SessionsShape, Session

LEMMA StoresAre ==
  ASSUME NEW x, SessionsShape(x), NEW h \in Kinds, NEW dir
  PROVE  /\ StoreOf(x, h, dir) \in SUBSET DOMAIN sessions
         /\ Seen(x, h, dir) \in SUBSET DOMAIN sessions
         /\ \A i \in StoreOf(x, h, dir) : sessions[i].harness = h /\ sessions[i].parent = 0
<1>1. \A i \in DOMAIN sessions : sessions[i].harness \in {"aider", "pi"} => sessions[i].parent = 0
  BY DEF SessionsShape
<1> USE DEF StoreOf, Search!Of, Search!All, Search!Own
<1>2. CASE h = "claude-code"
  BY <1>2 DEF Search!ClaudeTranscripts, Seen
<1>3. CASE h = "pi"
  BY <1>1, <1>3 DEF Search!PiTranscripts, Seen
<1>4. CASE h = "codex"
  BY <1>4 DEF Search!CodexOwn, Seen
<1>5. CASE h = "opencode"
  BY <1>5 DEF Seen
<1>6. CASE h = "dsh"
  BY <1>6 DEF Search!DshSessions, Seen
<1>7. CASE h = "aider"
  BY <1>1, <1>7 DEF Search!AiderRuns, Seen
<1> QED
  BY <1>2, <1>3, <1>4, <1>5, <1>6, <1>7 DEF Kinds

\* A session that was found, and the last run of a history file, to be loaded as such.
FoundAs(x, h, f) ==
  /\ f.session \in DOMAIN sessions /\ sessions[f.session].harness = h
  /\ f.dir = sessions[f.session].dir /\ f.recency = sessions[f.session].wrote
  /\ h = "aider" => f.id = Search(x)!NoId

\* What a harness wrote last for a directory is that of those it looks at which leads the
\* others, and there is one when there is any.
LEMMA LatestOfIs ==
  ASSUME NEW x, SessionsShape(x), x.opened \in Nat \ {0}, NEW h \in Kinds, NEW dir
  PROVE  /\ \A f \in Search(x)!LatestOf(h, dir) :
              /\ FoundAs(x, h, f) /\ f.session \in Seen(x, h, dir)
              /\ \A j \in Seen(x, h, dir) : j = f.session \/ Leads(x, f.session, j)
         /\ Seen(x, h, dir) # {} => Search(x)!LatestOf(h, dir) # {}
         /\ \A f, g \in Search(x)!LatestOf(h, dir) : f = g
<1> DEFINE among == Seen(x, h, dir)
<1>1. among \in SUBSET DOMAIN sessions /\ \A i \in among : sessions[i].harness = h
  BY StoresAre DEF Seen
<1>2. CASE h # "aider"
  <2>1. Search(x)!LatestOf(h, dir) = {Search(x)!Found(i) : i \in Search(x)!Newest(among, 1)}
    <3>1. CASE h \in {"claude-code", "pi", "dsh"}
      <4>1. StoreOf(x, h, dir) \cap DOMAIN sessions = StoreOf(x, h, dir)
        BY StoresAre
      <4> QED
        BY <3>1, <4>1 DEF Search!LatestOf, Seen, StoreOf, Window
    <3>2. CASE h = "opencode"
      <4>1. Search(x)!OpencodeSessions(dir, Search(x)!NoId, 1) = Search(x)!Newest(StoreOf(x, h, dir), 1)
        BY <3>2 DEF Search!OpencodeSessions, StoreOf
      <4>2. StoreOf(x, h, dir) \cap DOMAIN sessions = StoreOf(x, h, dir)
        BY StoresAre
      <4> QED
        BY <3>2, <4>1, <4>2 DEF Search!LatestOf, Seen, Window
    <3>3. CASE h = "codex"
      <4>1. Search(x)!Of("codex") \in SUBSET DOMAIN sessions
        BY DEF Search!Of, Search!All
      <4>2. Search(x)!Newest(Search(x)!Of("codex"), x.opened) \subseteq Search(x)!Of("codex")
        BY <4>1, NewestFacts
      <4>3. among = {i \in Search(x)!Newest(Search(x)!Of("codex"), x.opened) : Search(x)!CodexOwn(i, dir)}
        BY <3>3, <4>2 DEF Seen, StoreOf, Window
      <4> QED
        BY <3>3, <4>3 DEF Search!LatestOf, Search!CodexLatest
    <3> QED
      BY <1>2, <3>1, <3>2, <3>3 DEF Kinds
  <2>2. /\ Search(x)!Newest(among, 1) \subseteq among
        /\ among # {} => Search(x)!Newest(among, 1) # {}
        /\ \A i \in Search(x)!Newest(among, 1), j \in among : j = i \/ Search(x)!Newer(i, j)
    BY <1>1, NewestFacts
  <2>3. \A i \in DOMAIN sessions : i \in Nat /\ sessions[i].wrote \in Nat
    BY SessionsAre
  <2>4. \A i, j \in Search(x)!Newest(among, 1) : i = j
    BY <1>1, <2>2, <2>3 DEF Search!Newer
  <2>5. \A i : /\ Search(x)!Found(i).session = i /\ Search(x)!Found(i).dir = sessions[i].dir
               /\ Search(x)!Found(i).recency = sessions[i].wrote
    BY DEF Search!Found
  <2> HIDE DEF among
  <2>6. ASSUME NEW f \in Search(x)!LatestOf(h, dir)
        PROVE  /\ FoundAs(x, h, f) /\ f.session \in among
               /\ \A j \in among : j = f.session \/ Leads(x, f.session, j)
    <3>1. PICK i \in Search(x)!Newest(among, 1) : f = Search(x)!Found(i)
      BY <2>1
    <3>2. f.session = i /\ i \in among /\ sessions[i].harness = h
      BY <1>1, <2>2, <2>5, <3>1
    <3> QED
      BY <1>1, <1>2, <2>2, <2>5, <3>1, <3>2 DEF FoundAs, Leads
  <2> QED
    BY <2>1, <2>2, <2>4, <2>6 DEF among
<1>3. CASE h = "aider"
  <2>1. among = Search(x)!AiderRuns(dir)
    <3>1. StoreOf(x, h, dir) = Search(x)!AiderRuns(dir)
      BY <1>3 DEF StoreOf
    <3>2. StoreOf(x, h, dir) \cap DOMAIN sessions = StoreOf(x, h, dir)
      BY StoresAre
    <3> QED
      BY <1>3, <3>1, <3>2 DEF Seen, Window
  <2>2. Search(x)!LatestOf(h, dir) = Search(x)!LatestRun(dir)
    BY <1>3 DEF Search!LatestOf
  <2>3. \A i \in DOMAIN sessions : i \in 1 .. Len(sessions) /\ Len(sessions) \in Nat
    BY SessionsAre
  <2>4. \A i : LET f == [Search(x)!Found(i) EXCEPT !.id = Search(x)!NoId]
               IN  /\ f.session = i /\ f.dir = sessions[i].dir /\ f.recency = sessions[i].wrote
                   /\ f.id = Search(x)!NoId
    BY DEF Search!Found
  <2>5. Search(x)!LatestOf(h, dir) =
          {[Search(x)!Found(i) EXCEPT !.id = Search(x)!NoId] : i \in Search(x)!LastOf(among)}
    BY <2>1, <2>2 DEF Search!LatestRun
  <2>6. among # {} => Search(x)!LastOf(among) # {}
    <3> SUFFICES ASSUME among # {} PROVE \E i \in among : \A j \in among : j <= i
      BY DEF Search!LastOf
    <3>1. among \in SUBSET Nat /\ \A j \in among : j <= Len(sessions)
      BY <1>1, <2>3
    <3>2. Len(sessions) \in Nat
      BY SessionsAre
    <3> QED
      BY <3>1, <3>2, Greatest
  <2>7. \A i \in Search(x)!LastOf(among) : i \in among /\ \A j \in among : j = i \/ j < i
    BY <1>1, <2>3 DEF Search!LastOf
  <2> HIDE DEF among
  <2>8. ASSUME NEW f \in Search(x)!LatestOf(h, dir)
        PROVE  /\ FoundAs(x, h, f) /\ f.session \in among
               /\ \A j \in among : j = f.session \/ Leads(x, f.session, j)
    <3>1. PICK i \in Search(x)!LastOf(among) : f = [Search(x)!Found(i) EXCEPT !.id = Search(x)!NoId]
      BY <2>5
    <3>2. f.session = i /\ i \in among /\ sessions[i].harness = h
      BY <1>1, <2>4, <2>7, <3>1
    <3> QED
      BY <1>1, <1>3, <2>4, <2>7, <3>1, <3>2 DEF FoundAs, Leads
  <2>9. \A i, j \in Search(x)!LastOf(among) : i = j
    BY <1>1, <2>3, <2>7
  <2> QED
    BY <2>5, <2>6, <2>8, <2>9 DEF among
<1> QED
  BY <1>2, <1>3

\* A command names a harness, or none.
NoName == ""
Names == {NoName} \union Kinds
IsRun(i) == sessions[i].harness = "aider"

\* Every harness is asked, each in its turn.
LEMMA OrderIs ==
  \A x : /\ DOMAIN Search(x)!Order = 1 .. 6
         /\ \A k \in 1 .. 6 : Search(x)!Order[k] \in Kinds
         /\ \A h \in Kinds : \E k \in 1 .. 6 : Search(x)!Order[k] = h
<1> SUFFICES ASSUME NEW x
             PROVE  /\ DOMAIN Search(x)!Order = 1 .. 6
                    /\ \A k \in 1 .. 6 : Search(x)!Order[k] \in Kinds
                    /\ \A h \in Kinds : \E k \in 1 .. 6 : Search(x)!Order[k] = h
  OBVIOUS
<1> DEFINE order == Search(x)!Order
<1>1. order = <<"claude-code", "pi", "codex", "opencode", "dsh", "aider">>
  BY DEF Search!Order
<1> HIDE DEF order
<1>2. DOMAIN order = 1 .. 6
  BY <1>1
<1>3. /\ order[1] = "claude-code" /\ order[2] = "pi" /\ order[3] = "codex"
      /\ order[4] = "opencode" /\ order[5] = "dsh" /\ order[6] = "aider"
  BY <1>1
<1>4. \A k \in 1 .. 6 : k = 1 \/ k = 2 \/ k = 3 \/ k = 4 \/ k = 5 \/ k = 6
  OBVIOUS
<1>5. 1 \in 1 .. 6 /\ 2 \in 1 .. 6 /\ 3 \in 1 .. 6 /\ 4 \in 1 .. 6 /\ 5 \in 1 .. 6 /\ 6 \in 1 .. 6
  OBVIOUS
<1>6. \A k \in 1 .. 6 : order[k] \in Kinds
  BY <1>3, <1>4 DEF Kinds
<1>7. \A h \in Kinds : \E k \in 1 .. 6 : order[k] = h
  BY <1>3, <1>5 DEF Kinds
<1> QED
  BY <1>2, <1>6, <1>7 DEF order

\* Across the harnesses, the latest is the latest of one of those asked, and there is one when
\* any of them has one.
LEMMA LatestIs ==
  ASSUME NEW x, SessionsShape(x), x.opened \in Nat \ {0}, NEW from \in Names, NEW dir
  PROVE  /\ \A f \in Search(x)!Latest(from, dir) :
              \E h \in Kinds : /\ from \in {"", h} /\ FoundAs(x, h, f) /\ f.session \in Seen(x, h, dir)
                               /\ \A j \in Seen(x, h, dir) : j = f.session \/ Leads(x, f.session, j)
         /\ \A h \in Kinds : from \in {"", h} /\ Seen(x, h, dir) # {} => Search(x)!Latest(from, dir) # {}
         /\ \A f, g \in Search(x)!Latest(from, dir) : f = g
<1> DEFINE found == [k \in 1 .. 6 |-> Search(x)!LatestOf(Search(x)!Order[k], dir)]
           Best(k, f) == \A j \in 1 .. 6 : \A g \in found[j] :
                           g.recency < f.recency \/ (g.recency = f.recency /\ k <= j)
<1>1. from = "" => \A f : f \in Search(x)!Latest(from, dir) <=> \E k \in 1 .. 6 : f \in found[k] /\ Best(k, f)
  <2> SUFFICES ASSUME from = "", NEW f
               PROVE  f \in Search(x)!Latest(from, dir) <=> \E k \in 1 .. 6 : f \in found[k] /\ Best(k, f)
    OBVIOUS
  <2> DEFINE of(k) == Search(x)!LatestOf(Search(x)!Order[k], dir)
  <2>1. f \in Search(x)!Latest(from, dir) <=>
          \E k \in DOMAIN Search(x)!Order :
            /\ f \in of(k)
            /\ \A j \in DOMAIN Search(x)!Order : \A g \in of(j) :
                 g.recency < f.recency \/ (g.recency = f.recency /\ k <= j)
    <3> DEFINE best(k) ==
          {e \in of(k) : \A j \in DOMAIN Search(x)!Order : \A g \in of(j) :
             g.recency < e.recency \/ (g.recency = e.recency /\ k <= j)}
    <3>1. Search(x)!Latest(from, dir) = UNION {best(k) : k \in DOMAIN Search(x)!Order}
      BY DEF Search!Latest
    <3>2. \A k : f \in best(k) <=>
             /\ f \in of(k)
             /\ \A j \in DOMAIN Search(x)!Order : \A g \in of(j) :
                  g.recency < f.recency \/ (g.recency = f.recency /\ k <= j)
      OBVIOUS
    <3> HIDE DEF best, of
    <3>3. f \in Search(x)!Latest(from, dir) <=> \E k \in DOMAIN Search(x)!Order : f \in best(k)
      BY <3>1
    <3> QED
      BY <3>2, <3>3
  <2>2. DOMAIN Search(x)!Order = 1 .. 6 /\ \A k \in 1 .. 6 : found[k] = of(k)
    BY OrderIs
  <2> HIDE DEF of, found
  <2>3. f \in Search(x)!Latest(from, dir) <=>
          \E k \in 1 .. 6 :
            /\ f \in of(k)
            /\ \A j \in 1 .. 6 : \A g \in of(j) :
                 g.recency < f.recency \/ (g.recency = f.recency /\ k <= j)
    BY <2>1, <2>2
  <2> QED
    BY <2>2, <2>3
<1>2. from # "" => Search(x)!Latest(from, dir) = Search(x)!LatestOf(from, dir)
  BY DEF Search!Latest
<1>3. \A h \in Kinds : \A f \in Search(x)!LatestOf(h, dir) :
        /\ FoundAs(x, h, f) /\ f.session \in Seen(x, h, dir)
        /\ \A j \in Seen(x, h, dir) : j = f.session \/ Leads(x, f.session, j)
  BY LatestOfIs
<1>4. \A h \in Kinds : Seen(x, h, dir) # {} => Search(x)!LatestOf(h, dir) # {}
  BY LatestOfIs
<1>5. \A h \in Kinds : \A f, g \in Search(x)!LatestOf(h, dir) : f = g
  BY LatestOfIs
<1>6. \A k \in 1 .. 6 : \E h \in Kinds : h = Search(x)!Order[k] /\ found[k] = Search(x)!LatestOf(h, dir)
  BY OrderIs
<1>7. \A h \in Kinds : \E k \in 1 .. 6 : found[k] = Search(x)!LatestOf(h, dir)
  BY OrderIs
<1> HIDE DEF found
<1>8. \A k \in 1 .. 6 : \A f \in found[k] : f.recency \in Nat /\ f.recency <= clock
  <2> TAKE k \in 1 .. 6
  <2> TAKE f \in found[k]
  <2>1. PICK h \in Kinds : FoundAs(x, h, f)
    BY <1>3, <1>6
  <2> QED
    BY <2>1, SessionsAre DEF FoundAs
<1> HIDE DEF Best
<1>9. CASE from # ""
  BY <1>2, <1>3, <1>4, <1>5, <1>9 DEF Names, NoName
<1>10. CASE from = ""
  <2>1. ASSUME NEW f \in Search(x)!Latest(from, dir)
        PROVE  \E h \in Kinds : /\ FoundAs(x, h, f) /\ f.session \in Seen(x, h, dir)
                                /\ \A j \in Seen(x, h, dir) : j = f.session \/ Leads(x, f.session, j)
    <3>1. PICK k \in 1 .. 6 : f \in found[k]
      BY <1>1, <1>10
    <3>2. PICK h \in Kinds : found[k] = Search(x)!LatestOf(h, dir)
      BY <1>6
    <3> QED
      BY <1>3, <3>1, <3>2
  <2>2. ASSUME NEW f \in Search(x)!Latest(from, dir), NEW g \in Search(x)!Latest(from, dir)
        PROVE  f = g
    <3>1. PICK k \in 1 .. 6 : f \in found[k] /\ Best(k, f)
      BY <1>1, <1>10
    <3>2. PICK j \in 1 .. 6 : g \in found[j] /\ Best(j, g)
      BY <1>1, <1>10
    <3>3. f.recency \in Nat /\ g.recency \in Nat
      BY <1>8, <3>1, <3>2
    <3>4. g.recency < f.recency \/ (g.recency = f.recency /\ k <= j)
      BY <3>1, <3>2 DEF Best
    <3>5. f.recency < g.recency \/ (f.recency = g.recency /\ j <= k)
      BY <3>1, <3>2 DEF Best
    <3>6. k = j
      BY <3>3, <3>4, <3>5
    <3> QED
      BY <1>5, <1>6, <3>1, <3>2, <3>6
  <2>3. ASSUME NEW h \in Kinds, Seen(x, h, dir) # {} PROVE Search(x)!Latest(from, dir) # {}
    <3> DEFINE Times == {t \in Nat : \E k \in 1 .. 6 : \E f \in found[k] : f.recency = t}
               Firsts(t) == {k \in 1 .. 6 : \E f \in found[k] : f.recency = t}
    <3>1. PICK k0 \in 1 .. 6 : found[k0] # {}
      BY <1>4, <1>7, <2>3
    <3>2. PICK f0 : f0 \in found[k0]
      BY <3>1
    <3>3. f0.recency \in Times
      BY <1>8, <3>2
    <3>4. clock \in Nat /\ \A t \in Times : t <= clock
      BY <1>8, SessionsAre
    <3>5. Times \in SUBSET Nat /\ \A k \in 1 .. 6 : \A f \in found[k] : f.recency \in Times
      BY <1>8
    <3>6. \A t \in Times : Firsts(t) \in SUBSET Nat /\ Firsts(t) # {}
      <4> TAKE t \in Times
      <4>1. PICK k \in 1 .. 6 : \E f \in found[k] : f.recency = t
        OBVIOUS
      <4>2. k \in Firsts(t)
        BY <4>1
      <4>3. Firsts(t) \subseteq 1 .. 6 /\ 1 .. 6 \subseteq Nat
        OBVIOUS
      <4> QED
        BY <4>2, <4>3
    <3>7. \A t, k : k \in Firsts(t) => k \in 1 .. 6 /\ \E f \in found[k] : f.recency = t
      OBVIOUS
    <3>8. \A t, k, f : k \in 1 .. 6 /\ f \in found[k] /\ f.recency = t => k \in Firsts(t)
      OBVIOUS
    <3> HIDE DEF Times, Firsts
    <3>9. PICK t \in Times : \A u \in Times : u <= t
      BY <3>3, <3>4, <3>5, Greatest
    <3>10. PICK k \in Firsts(t) : \A j \in Firsts(t) : k <= j
      BY <3>6, Least
    <3>11. PICK f \in found[k] : k \in 1 .. 6 /\ f.recency = t
      BY <3>7
    <3>12. Best(k, f)
      <4> SUFFICES ASSUME NEW j \in 1 .. 6, NEW g \in found[j]
                   PROVE  g.recency < f.recency \/ (g.recency = f.recency /\ k <= j)
        BY DEF Best
      <4>1. g.recency \in Nat /\ t \in Nat /\ g.recency <= t
        BY <1>8, <3>5, <3>9
      <4>2. g.recency = t => k <= j
        BY <3>8, <3>10
      <4> QED
        BY <3>11, <4>1, <4>2
    <3> QED
      BY <1>1, <1>10, <3>11, <3>12
  <2> QED
    BY <1>10, <2>1, <2>2, <2>3
<1> QED
  BY <1>9, <1>10

-----------------------------------------------------------------------------
(* What a listing offers.                                                  *)

\* A session as a row; a run of a history file was last active before the next began.
Later(x, i) == {j \in Search(x)!AiderRuns(sessions[i].dir) : j > i}
Active(x, i) ==
  IF Later(x, i) = {} THEN sessions[i].wrote
  ELSE sessions[CHOOSE j \in Later(x, i) : \A k \in Later(x, i) : j <= k].began
RowOf(x, i) ==
  IF sessions[i].harness = "aider" THEN [Search(x)!Found(i) EXCEPT !.recency = Active(x, i)]
  ELSE Search(x)!Found(i)

\* The sessions an id may name, a sub-agent's too where it is kept with the others; and the
\* sessions a harness offers, OpenCode no more than a listing holds.
NamedOf(x, h, dir) ==
  CASE h = "codex" -> {i \in Search(x)!Of("codex") : sessions[i].dir = dir}
    [] h = "opencode" -> {i \in Search(x)!Of("opencode") : sessions[i].dir = dir}
    [] h = "dsh" -> Search(x)!DshSessions(dir, TRUE)
    [] OTHER -> StoreOf(x, h, dir)
Offering(x, h, dir, id) ==
  IF id = Search(x)!NoId THEN StoreOf(x, h, dir) ELSE {i \in NamedOf(x, h, dir) : Search(x)!Id(i) = id}
Offered(x, h, dir, id) ==
  IF h = "opencode" THEN Search(x)!Newest(Offering(x, h, dir, id), x.limit) ELSE Offering(x, h, dir, id)

\* An id names one session of a harness, or the runs of histories that began at once.
LEMMA IdsAre ==
  ASSUME NEW x
  PROVE  \A i, j : /\ Search(x)!Id(i) # Search(x)!NoId
                   /\ sessions[i].harness = sessions[j].harness /\ Search(x)!Id(i) = Search(x)!Id(j) =>
                        IF sessions[i].harness = "aider" THEN sessions[i].began = sessions[j].began
                        ELSE i = j
<1> TAKE i, j
<1>1. Search(x)!Id(i) # Search(x)!NoId
  BY DEF Search!Id, Search!NoId
<1>2. CASE sessions[i].harness = "aider"
  BY <1>1, <1>2 DEF Search!Id
<1>3. CASE sessions[i].harness # "aider"
  BY <1>1, <1>3 DEF Search!Id
<1> QED
  BY <1>2, <1>3

LEMMA RowsAre ==
  ASSUME NEW x, SessionsShape(x), NEW i \in DOMAIN sessions
  PROVE  /\ RowOf(x, i).session = i /\ RowOf(x, i).dir = sessions[i].dir
         /\ RowOf(x, i).id = Search(x)!Id(i) /\ RowOf(x, i).recency \in Nat
         /\ sessions[i].harness # "aider" => RowOf(x, i).recency = sessions[i].wrote
         /\ sessions[i].harness = "aider" =>
              /\ Later(x, i) = {} => RowOf(x, i).recency = sessions[i].wrote
              /\ \A j \in Later(x, i) : RowOf(x, i).recency <= sessions[j].wrote
<1>1. /\ \A f \in {"session", "dir", "id"} : RowOf(x, i)[f] = Search(x)!Found(i)[f]
      /\ RowOf(x, i).recency = IF sessions[i].harness = "aider" THEN Active(x, i) ELSE sessions[i].wrote
  BY DEF RowOf, Search!Found
<1>2. /\ Search(x)!Found(i).session = i /\ Search(x)!Found(i).dir = sessions[i].dir
      /\ Search(x)!Found(i).id = Search(x)!Id(i)
  BY DEF Search!Found
<1>3. \A j \in DOMAIN sessions :
        j \in Nat /\ sessions[j].wrote \in Nat /\ sessions[j].began \in Nat
        /\ sessions[j].began <= sessions[j].wrote
  BY SessionsAre
<1>4. Later(x, i) \in SUBSET DOMAIN sessions
  BY DEF Later, Search!AiderRuns, Search!Of, Search!All
<1>5. Later(x, i) = {} => Active(x, i) = sessions[i].wrote
  BY DEF Active
<1>6. ASSUME Later(x, i) # {}
      PROVE  /\ Active(x, i) \in Nat
             /\ \A j \in Later(x, i) : Active(x, i) <= sessions[j].wrote
  <2> DEFINE next == CHOOSE j \in Later(x, i) : \A k \in Later(x, i) : j <= k
  <2>1. \E j \in Later(x, i) : \A k \in Later(x, i) : j <= k
    <3>1. Later(x, i) \in SUBSET Nat
      BY <1>3, <1>4
    <3> QED
      BY <1>6, <3>1, Least
  <2>2. next \in Later(x, i) /\ \A k \in Later(x, i) : next <= k
    BY <2>1
  <2>3. Active(x, i) = sessions[next].began
    BY <1>6 DEF Active
  <2> HIDE DEF next
  <2>4. next \in DOMAIN sessions
    BY <1>4, <2>2
  <2> SUFFICES ASSUME NEW j \in Later(x, i)
               PROVE  sessions[next].began \in Nat /\ sessions[next].began <= sessions[j].wrote
    BY <1>6, <2>3
  <2>5. j \in DOMAIN sessions /\ next <= j
    BY <1>4, <2>2
  <2>6. sessions[next].began <= sessions[j].began
    <3>1. CASE next = j
      BY <1>3, <2>4, <3>1
    <3>2. CASE next < j
      BY <2>4, <2>5, <3>2 DEF SessionsShape
    <3> QED
      BY <1>3, <2>4, <2>5, <3>1, <3>2
  <2> QED
    BY <1>3, <2>4, <2>5, <2>6
<1> QED
  BY <1>1, <1>2, <1>3, <1>5, <1>6

\* The sessions offered are those that the harness has for the directory, or has of that id.
LEMMA OfferedAre ==
  ASSUME NEW x, SessionsShape(x), x.limit \in Nat \ {0}, NEW h \in Kinds, NEW dir, NEW id
  PROVE  /\ Offering(x, h, dir, id) \in SUBSET DOMAIN sessions
         /\ Offered(x, h, dir, id) \subseteq Offering(x, h, dir, id)
         /\ \A i \in Offering(x, h, dir, id) :
              /\ sessions[i].harness = h
              /\ id = Search(x)!NoId => i \in StoreOf(x, h, dir)
              /\ id # Search(x)!NoId => Search(x)!Id(i) = id
         /\ \A i \in Offering(x, h, dir, id) :
              i \notin Offered(x, h, dir, id) => h = "opencode"
<1>1. NamedOf(x, h, dir) \in SUBSET DOMAIN sessions /\ \A i \in NamedOf(x, h, dir) : sessions[i].harness = h
  <2>1. CASE h \in {"codex", "opencode", "dsh"}
    BY <2>1 DEF NamedOf, Search!DshSessions, Search!Of, Search!All
  <2>2. CASE h \notin {"codex", "opencode", "dsh"}
    <3>1. NamedOf(x, h, dir) = StoreOf(x, h, dir)
      BY <2>2 DEF NamedOf
    <3> QED
      BY <3>1, StoresAre
  <2> QED
    BY <2>1, <2>2
<1>2. Offering(x, h, dir, id) \in SUBSET DOMAIN sessions
  BY <1>1, StoresAre DEF Offering
<1>3. \A i \in Offering(x, h, dir, id) :
        /\ sessions[i].harness = h
        /\ id = Search(x)!NoId => i \in StoreOf(x, h, dir)
        /\ id # Search(x)!NoId => Search(x)!Id(i) = id
  BY <1>1, StoresAre DEF Offering
<1>4. Search(x)!Newest(Offering(x, h, dir, id), x.limit) \subseteq Offering(x, h, dir, id)
  BY <1>2, NewestFacts
<1> QED
  BY <1>2, <1>3, <1>4 DEF Offered

\* A listing's rows are those of the sessions offered.
LEMMA CandidatesAre ==
  ASSUME NEW x, SessionsShape(x), NEW h \in Kinds, NEW dir, NEW id
  PROVE  Search(x)!Candidates(h, dir, id) = {RowOf(x, i) : i \in Offered(x, h, dir, id)}
<1> DEFINE wanted(i) == id \in {Search(x)!NoId, Search(x)!Id(i)}
<1>1. \A S : /\ id = Search(x)!NoId => {i \in S : wanted(i)} = S
             /\ id # Search(x)!NoId => {i \in S : wanted(i)} = {i \in S : Search(x)!Id(i) = id}
  OBVIOUS
<1>2. \A i : sessions[i].harness # "aider" => RowOf(x, i) = Search(x)!Found(i)
  BY DEF RowOf
<1>3. CASE h \in {"claude-code", "pi"}
  <2>1. /\ Search(x)!Candidates(h, dir, id) =
             {Search(x)!Found(i) : i \in {j \in StoreOf(x, h, dir) : wanted(j)}}
        /\ NamedOf(x, h, dir) = StoreOf(x, h, dir)
    BY <1>3 DEF Search!Candidates, Search!ClaudeCandidates, Search!PiCandidates, StoreOf, NamedOf
  <2>2. {j \in StoreOf(x, h, dir) : wanted(j)} = Offered(x, h, dir, id)
    BY <1>1, <1>3, <2>1 DEF Offered, Offering
  <2>3. \A i \in Offered(x, h, dir, id) : sessions[i].harness # "aider"
    BY <1>3, <2>2, StoresAre
  <2> QED
    BY <1>2, <2>1, <2>2, <2>3
<1>4. CASE h = "codex"
  <2>1. Search(x)!Candidates(h, dir, id) = {Search(x)!Found(i) : i \in Offered(x, h, dir, id)}
    <3>1. {i \in Search(x)!Of("codex") : /\ sessions[i].dir = dir
                                         /\ IF id = Search(x)!NoId THEN Search(x)!Own(i)
                                            ELSE id = Search(x)!Id(i)}
            = Offered(x, h, dir, id)
      BY <1>4 DEF Offered, Offering, NamedOf, StoreOf, Search!CodexOwn
    <3> QED
      BY <1>4, <3>1 DEF Search!Candidates, Search!CodexCandidates
  <2>2. \A i \in Offered(x, h, dir, id) : sessions[i].harness # "aider"
    BY <1>4 DEF Offered, Offering, NamedOf, StoreOf, Search!Of
  <2> QED
    BY <1>2, <2>1, <2>2
<1>5. CASE h = "opencode"
  <2>1. Search(x)!OpencodeSessions(dir, id, x.limit) = Offered(x, h, dir, id)
    <3>1. {i \in Search(x)!Of("opencode") : /\ sessions[i].dir = dir
                                            /\ IF id = Search(x)!NoId THEN Search(x)!Own(i)
                                               ELSE Search(x)!Id(i) = id}
            = Offering(x, h, dir, id)
      BY <1>5 DEF Offering, NamedOf, StoreOf
    <3> QED
      BY <1>5, <3>1 DEF Search!OpencodeSessions, Offered
  <2>2. Search(x)!Candidates(h, dir, id) = {Search(x)!Found(i) : i \in Offered(x, h, dir, id)}
    BY <1>5, <2>1 DEF Search!Candidates, Search!OpencodeCandidates
  <2>3. \A i \in Offered(x, h, dir, id) : sessions[i].harness # "aider"
    BY <1>5 DEF Offered, Offering, NamedOf, StoreOf, Search!Of, Search!Newest
  <2> QED
    BY <1>2, <2>2, <2>3
<1>6. CASE h = "dsh"
  <2>1. {i \in Search(x)!DshSessions(dir, id # Search(x)!NoId) : wanted(i)} = Offered(x, h, dir, id)
    BY <1>1, <1>6 DEF Offered, Offering, NamedOf, StoreOf
  <2>2. Search(x)!Candidates(h, dir, id) = {Search(x)!Found(i) : i \in Offered(x, h, dir, id)}
    BY <1>6, <2>1 DEF Search!Candidates, Search!DshCandidates
  <2>3. \A i \in Offered(x, h, dir, id) : sessions[i].harness # "aider"
    BY <1>6, <2>1 DEF Search!DshSessions, Search!Of
  <2> QED
    BY <1>2, <2>2, <2>3
<1>7. CASE h = "aider"
  <2>1. {i \in Search(x)!AiderRuns(dir) : wanted(i)} = Offered(x, h, dir, id)
    BY <1>1, <1>7 DEF Offered, Offering, NamedOf, StoreOf
  <2>2. \A i \in Search(x)!AiderRuns(dir) : sessions[i].harness = "aider" /\ sessions[i].dir = dir
    BY DEF Search!AiderRuns, Search!Of
  <2> DEFINE after(i) == {j \in Search(x)!AiderRuns(dir) : j > i}
             active(i) == IF after(i) = {} THEN sessions[i].wrote
                          ELSE sessions[CHOOSE j \in after(i) : \A k \in after(i) : j <= k].began
  <2>3. Search(x)!Candidates(h, dir, id) =
          {[Search(x)!Found(i) EXCEPT !.recency = active(i)] : i \in {j \in Search(x)!AiderRuns(dir) : wanted(j)}}
    BY <1>7 DEF Search!Candidates, Search!AiderCandidates
  <2>4. \A i \in Search(x)!AiderRuns(dir) : active(i) = Active(x, i)
    <3> TAKE i \in Search(x)!AiderRuns(dir)
    <3>1. after(i) = Later(x, i)
      BY <2>2 DEF Later
    <3> HIDE DEF after
    <3> QED
      BY <3>1 DEF Active
  <2> HIDE DEF after, active
  <2>5. \A i \in Offered(x, h, dir, id) :
          RowOf(x, i) = [Search(x)!Found(i) EXCEPT !.recency = active(i)]
    BY <2>1, <2>2, <2>4 DEF RowOf
  <2> QED
    BY <2>1, <2>3, <2>5
<1> QED
  BY <1>3, <1>4, <1>5, <1>6, <1>7 DEF Kinds

\* The sessions a listing is chosen from, and which of their rows go first.
Reached(x, from, cwd, id) ==
  {i \in DOMAIN sessions : /\ from \in {"", sessions[i].harness}
                           /\ \E dir \in Search(x)!ProjectDirs(cwd) : i \in Offered(x, sessions[i].harness, dir, id)}
Rows(x, from, cwd, id) == {RowOf(x, i) : i \in Reached(x, from, cwd, id)}
RowPairs(x, rows) == {p \in rows \X rows : Search(x)!RowBefore(p[1], p[2])}

LEMMA RecentIs ==
  ASSUME NEW x, SessionsShape(x), x.harnesses \subseteq Kinds, x.limit \in Nat \ {0},
         NEW from \in Names, NEW cwd, NEW id
  PROVE  /\ Search(x)!Recent(from, cwd, id) \subseteq Rows(x, from, cwd, id)
         /\ id # Search(x)!NoId => Search(x)!Recent(from, cwd, id) = Rows(x, from, cwd, id)
         /\ id = Search(x)!NoId =>
              Search(x)!Recent(from, cwd, id) =
                {r \in Rows(x, from, cwd, id) :
                   Cardinality({s \in Rows(x, from, cwd, id) : Search(x)!RowBefore(s, r)}) < x.limit}
<1> DEFINE asked == Search(x)!Asked(from)
           every == Search(x)!Offers(from, cwd, id)
<1>1. /\ id # Search(x)!NoId => Search(x)!Recent(from, cwd, id) = every
      /\ id = Search(x)!NoId =>
           Search(x)!Recent(from, cwd, id) =
             {r \in every : Cardinality({s \in every : Search(x)!RowBefore(s, r)}) < x.limit}
  BY SearchCounts DEF Search!Recent
<1> HIDE DEF asked
<1>2. \A r : r \in every <=> \E h \in asked, dir \in Search(x)!ProjectDirs(cwd) :
                              r \in Search(x)!Candidates(h, dir, id)
  BY DEF Search!Offers, asked
<1>3. asked \subseteq Kinds
  BY DEF asked, Search!Asked
<1>4. \A i \in DOMAIN sessions : sessions[i].harness \in x.harnesses
  BY SessionsAre
<1>5. \A h \in asked : from \in {"", h}
  BY DEF asked, Search!Asked
<1>6. \A h \in x.harnesses : from \in {"", h} => h \in asked
  BY DEF asked, Search!Asked
<1> HIDE DEF every
<1>7. ASSUME NEW r \in every PROVE r \in Rows(x, from, cwd, id)
  <2>1. PICK h \in asked, dir \in Search(x)!ProjectDirs(cwd) : r \in Search(x)!Candidates(h, dir, id)
    BY <1>2
  <2>2. PICK i \in Offered(x, h, dir, id) : r = RowOf(x, i)
    BY <1>3, <2>1, CandidatesAre
  <2>3. i \in DOMAIN sessions /\ sessions[i].harness = h
    BY <1>3, <2>1, <2>2, OfferedAre
  <2> QED
    BY <1>5, <2>1, <2>2, <2>3 DEF Rows, Reached
<1>8. ASSUME NEW r \in Rows(x, from, cwd, id) PROVE r \in every
  <2>1. PICK i \in Reached(x, from, cwd, id) : r = RowOf(x, i)
    BY DEF Rows
  <2>2. PICK dir \in Search(x)!ProjectDirs(cwd) : i \in Offered(x, sessions[i].harness, dir, id)
    BY <2>1 DEF Reached
  <2>3. sessions[i].harness \in asked
    BY <1>4, <1>6, <2>1 DEF Reached
  <2>4. r \in Search(x)!Candidates(sessions[i].harness, dir, id)
    BY <1>3, <2>1, <2>2, <2>3, CandidatesAre
  <2> QED
    BY <1>2, <2>2, <2>3, <2>4
<1>9. every = Rows(x, from, cwd, id)
  BY <1>7, <1>8
<1> QED
  BY <1>1, <1>9

\* Which row goes first is an order of them.
LEMMA RowsInOrder ==
  ASSUME NEW x, SessionsShape(x), x.harnesses \subseteq Kinds, NEW from, NEW cwd, NEW id
  PROVE  LET rows == Rows(x, from, cwd, id)
         IN  /\ IsFiniteSet(rows) /\ StrictOrder(rows, RowPairs(x, rows))
             /\ \A r \in rows :
                  Ahead(rows, RowPairs(x, rows), r) = {s \in rows : Search(x)!RowBefore(s, r)}
<1> DEFINE among == Reached(x, from, cwd, id)
           rows == Rows(x, from, cwd, id)
<1>0. among \in SUBSET DOMAIN sessions /\ rows = {RowOf(x, i) : i \in among}
  BY DEF Rows, Reached
<1> HIDE DEF among, rows
<1>1. IsFiniteSet(among)
  BY <1>0, NewerIsAnOrder
<1>2. IsFiniteSet(rows)
  <2> DEFINE asRow == [i \in among |-> RowOf(x, i)]
  <2>1. asRow \in Surjection(among, rows)
    BY <1>0 DEF Surjection
  <2> QED
    BY <1>1, <2>1, FS_Surjection
<1>3. \A r \in rows : /\ r.session \in among /\ r = RowOf(x, r.session)
                      /\ r.session \in Nat /\ r.recency \in Nat
                      /\ sessions[r.session].harness \in Kinds
  <2> TAKE r \in rows
  <2>1. PICK i \in among : r = RowOf(x, i)
    BY <1>0
  <2>2. i \in DOMAIN sessions
    BY <1>0, <2>1
  <2>3. r.session = i /\ r.recency \in Nat
    BY <2>1, <2>2, RowsAre
  <2>4. i \in Nat /\ sessions[i].harness \in x.harnesses
    BY <2>2, SessionsAre
  <2> QED
    BY <2>1, <2>3, <2>4
<1>4. \A r \in rows : Search(x)!RowKey(r)[1] \in Nat /\ Search(x)!RowKey(r)[2] = r.session
  <2> TAKE r \in rows
  <2> DEFINE order == Search(x)!KeyOrder
             h == sessions[r.session].harness
  <2>1. order = <<"aider", "claude-code", "codex", "dsh", "opencode", "pi">>
    BY DEF Search!KeyOrder
  <2>2. Search(x)!RowKey(r) = <<CHOOSE i \in DOMAIN order : order[i] = h, r.session>>
    BY DEF Search!RowKey
  <2>3. h \in Kinds
    BY <1>3
  <2> HIDE DEF order, h
  <2>4. DOMAIN order = 1 .. 6
    BY <2>1
  <2>5. /\ order[1] = "aider" /\ order[2] = "claude-code" /\ order[3] = "codex"
        /\ order[4] = "dsh" /\ order[5] = "opencode" /\ order[6] = "pi"
    BY <2>1
  <2>6. \E i \in 1 .. 6 : order[i] = h
    BY <2>3, <2>5 DEF Kinds
  <2>7. (CHOOSE i \in DOMAIN order : order[i] = h) \in 1 .. 6
    BY <2>4, <2>6
  <2>8. \A i \in 1 .. 6 : i \in Nat
    OBVIOUS
  <2> DEFINE k == CHOOSE i \in DOMAIN order : order[i] = h
  <2>9. k \in Nat
    BY <2>7, <2>8
  <2> HIDE DEF k
  <2>10. Search(x)!RowKey(r) = <<k, r.session>>
    BY <2>2 DEF k
  <2> QED
    BY <2>9, <2>10
<1>5. \A r, s \in rows : <<r, s>> \in RowPairs(x, rows) <=> Search(x)!RowBefore(r, s)
  BY DEF RowPairs
<1>6. \A r, s \in rows : r.session = s.session => r = s
  BY <1>3
<1> HIDE DEF RowPairs
<1>7. \A r \in rows : ~Search(x)!RowBefore(r, r)
  BY <1>3, <1>4 DEF Search!RowBefore
<1>8. \A r, s, t \in rows : Search(x)!RowBefore(r, s) /\ Search(x)!RowBefore(s, t) => Search(x)!RowBefore(r, t)
  <2> TAKE r, s, t \in rows
  <2>1. /\ r.recency \in Nat /\ s.recency \in Nat /\ t.recency \in Nat
        /\ r.session \in Nat /\ s.session \in Nat /\ t.session \in Nat
    BY <1>3
  <2> QED
    BY <1>4, <2>1 DEF Search!RowBefore
<1>9. \A r, s \in rows : r = s \/ Search(x)!RowBefore(r, s) \/ Search(x)!RowBefore(s, r)
  <2> TAKE r, s \in rows
  <2>1. r.recency \in Nat /\ s.recency \in Nat /\ r.session \in Nat /\ s.session \in Nat
    BY <1>3
  <2> QED
    BY <1>4, <1>6, <2>1 DEF Search!RowBefore
<1>10. StrictOrder(rows, RowPairs(x, rows))
  BY <1>5, <1>7, <1>8, <1>9 DEF StrictOrder
<1>11. \A r \in rows : Ahead(rows, RowPairs(x, rows), r) = {s \in rows : Search(x)!RowBefore(s, r)}
  BY <1>5 DEF Ahead
<1> QED
  BY <1>2, <1>10, <1>11 DEF rows

-----------------------------------------------------------------------------
(* What any search promises.                                               *)

LEMMA SearchConstants ==
  ASSUME NEW x, Search(x)!SearchAssumption
  PROVE  /\ x.harnesses \subseteq Kinds /\ Search(x)!Froms \subseteq Names
         /\ x.opened \in Nat \ {0} /\ x.limit \in Nat \ {0} /\ x.time \in Nat
  BY DEF Search!SearchAssumption, Search!Froms, Kinds, Names, NoName

\* discover.rs and each harness's search: a sub-agent's session is never the latest, and is in
\* no listing.
LEMMA OnlyThePersonsHolds ==
  ASSUME NEW x, Search(x)!SearchAssumption, SessionsShape(x) PROVE Search(x)!OnlyThePersons
<1> SUFFICES ASSUME NEW from \in Search(x)!Froms, NEW cwd \in x.dirs,
                    NEW f \in Search(x)!Latest(from, cwd) \union Search(x)!Recent(from, cwd, Search(x)!NoId)
             PROVE  sessions[f.session].parent = 0
  BY DEF Search!OnlyThePersons, Search!Own
<1>1. from \in Names /\ x.harnesses \subseteq Kinds /\ x.opened \in Nat \ {0} /\ x.limit \in Nat \ {0}
  BY SearchConstants
<1>2. CASE f \in Search(x)!Latest(from, cwd)
  <2>1. PICK h \in Kinds : f.session \in Seen(x, h, cwd)
    BY <1>1, <1>2, LatestIs
  <2> QED
    BY <2>1, StoresAre DEF Seen
<1>3. CASE f \in Search(x)!Recent(from, cwd, Search(x)!NoId)
  <2>1. f \in Rows(x, from, cwd, Search(x)!NoId)
    <3>1. Search(x)!Recent(from, cwd, Search(x)!NoId) \subseteq Rows(x, from, cwd, Search(x)!NoId)
      BY <1>1, RecentIs
    <3> QED
      BY <1>3, <3>1
  <2>2. PICK i \in Reached(x, from, cwd, Search(x)!NoId) : f = RowOf(x, i)
    BY <2>1 DEF Rows
  <2>3. i \in DOMAIN sessions /\ sessions[i].harness \in Kinds
    BY <1>1, <2>2, SessionsAre DEF Reached
  <2>4. PICK dir : i \in Offered(x, sessions[i].harness, dir, Search(x)!NoId)
    BY <2>2 DEF Reached
  <2>5. i \in StoreOf(x, sessions[i].harness, dir)
    BY <1>1, <2>3, <2>4, OfferedAre
  <2> QED
    BY <2>2, <2>3, <2>5, RowsAre, StoresAre
<1> QED
  BY <1>2, <1>3

\* The latest of a harness heads its listing, unless Codex has more rollouts than are opened.
LEMMA LatestLeadsItsListHolds ==
  ASSUME NEW x, Search(x)!SearchAssumption, AgentsInv(x) PROVE Search(x)!LatestLeadsItsList
<1>0. SessionsShape(x) /\ x.harnesses \subseteq Kinds /\ x.opened \in Nat \ {0} /\ x.limit \in Nat \ {0}
  BY SearchConstants DEF AgentsInv
<1> SUFFICES ASSUME NEW h \in x.harnesses, NEW dir \in x.dirs
             PROVE  LET rows == Search(x)!Candidates(h, dir, Search(x)!NoId)
                        latest == Search(x)!Latest(h, dir)
                    IN  /\ rows = {} => latest = {}
                        /\ (rows # {} /\ (h = "codex" => Cardinality(Search(x)!Of(h)) <= x.opened)) =>
                             \E f \in latest :
                               /\ \A r \in rows : r.recency <= f.recency
                               /\ \E r \in rows : r.session = f.session /\ r.recency = f.recency
  BY SearchCounts DEF Search!LatestLeadsItsList
<1> DEFINE rows == Search(x)!Candidates(h, dir, Search(x)!NoId)
           latest == Search(x)!Latest(h, dir)
           store == StoreOf(x, h, dir)
           offered == Offered(x, h, dir, Search(x)!NoId)
<1>1. h \in Kinds
  BY <1>0
<1>2. rows = {RowOf(x, i) : i \in offered}
  BY <1>0, <1>1, CandidatesAre
<1>3. offered = IF h = "opencode" THEN Search(x)!Newest(store, x.limit) ELSE store
  BY DEF Offered, Offering
<1>4. store \in SUBSET DOMAIN sessions /\ \A i \in store : sessions[i].harness = h
  BY <1>0, <1>1, StoresAre
<1>5. offered \subseteq store /\ (store # {} => offered # {})
  <2> HIDE DEF store, offered
  <2>1. Search(x)!Newest(store, x.limit) \subseteq store
    BY <1>0, <1>4, NewestFacts
  <2>2. store # {} => \E i \in Search(x)!Newest(store, x.limit) : \A j \in store : j = i \/ Search(x)!Newer(i, j)
    BY <1>0, <1>4, NewestFacts
  <2> QED
    BY <1>3, <2>1, <2>2
<1>6. /\ \A f \in latest : /\ FoundAs(x, h, f) /\ f.session \in Seen(x, h, dir)
                           /\ \A j \in Seen(x, h, dir) : j = f.session \/ Leads(x, f.session, j)
      /\ Seen(x, h, dir) # {} => latest # {}
  <2>1. latest = Search(x)!LatestOf(h, dir)
    <3>1. h # ""
      BY <1>1 DEF Kinds
    <3> QED
      BY <3>1 DEF Search!Latest
  <2> QED
    BY <1>0, <1>1, <2>1, LatestOfIs
<1>7. Seen(x, h, dir) \subseteq store
  BY DEF Seen
<1> HIDE DEF rows, latest, store, offered
<1>8. rows = {} => latest = {}
  BY <1>2, <1>5, <1>6, <1>7
<1>9. ASSUME rows # {}, h = "codex" => Cardinality(Search(x)!Of(h)) <= x.opened
      PROVE  \E f \in latest : /\ \A r \in rows : r.recency <= f.recency
                               /\ \E r \in rows : r.session = f.session /\ r.recency = f.recency
  <2>1. Seen(x, h, dir) = store
    <3>1. CASE h = "codex"
      <4>1. Search(x)!Of(h) \in SUBSET DOMAIN sessions
        BY DEF Search!Of, Search!All
      <4>2. Window(x, h) = Search(x)!Of(h)
        BY <1>0, <1>9, <3>1, <4>1, NewestFacts DEF Window
      <4>3. store \subseteq Search(x)!Of(h)
        BY <1>4 DEF Search!Of, Search!All
      <4> QED
        BY <4>2, <4>3 DEF Seen, store
    <3>2. CASE h # "codex"
      BY <1>4, <3>2 DEF Seen, Window, store
    <3> QED
      BY <3>1, <3>2
  <2>2. PICK f \in latest : TRUE
    BY <1>2, <1>5, <1>6, <1>9, <2>1
  <2> DEFINE i == f.session
  <2>3. i \in store /\ f.recency = sessions[i].wrote /\ \A j \in store : j = i \/ Leads(x, i, j)
    BY <1>6, <2>1, <2>2 DEF FoundAs
  <2> HIDE DEF i
  <2>4. \A j \in DOMAIN sessions : j \in Nat /\ sessions[j].wrote \in Nat
    BY <1>0, SessionsAre
  <2>5. CASE h # "aider"
    <3>1. \A j \in store : sessions[j].wrote <= sessions[i].wrote /\ ~Search(x)!Newer(j, i)
      BY <1>4, <2>3, <2>4, <2>5 DEF Leads, Search!Newer
    <3>2. i \in offered
      <4>1. CASE h = "opencode"
        <5>1. PICK k \in offered : \A j \in store : j = k \/ Search(x)!Newer(k, j)
          BY <1>0, <1>2, <1>3, <1>4, <1>5, <1>9, <4>1, NewestFacts
        <5> QED
          BY <1>5, <2>3, <3>1, <5>1
      <4> QED
        BY <1>3, <2>3, <4>1
    <3>3. \A j \in offered : RowOf(x, j).session = j /\ RowOf(x, j).recency = sessions[j].wrote
      BY <1>0, <1>4, <1>5, <2>5, RowsAre
    <3> QED
      BY <1>2, <1>5, <2>3, <3>1, <3>2, <3>3 DEF i
  <2>6. CASE h = "aider"
    <3>1. offered = store
      BY <1>3, <2>6
    <3>2. store = Search(x)!AiderRuns(dir)
      BY <2>6 DEF store, StoreOf
    <3>3. \A j \in store : sessions[j].dir = dir
      BY <3>2 DEF Search!AiderRuns
    <3>4. \A j \in store : Later(x, j) = {k \in store : k > j}
      BY <3>2, <3>3 DEF Later
    <3>5. \A j \in store : j = i \/ j < i
      BY <1>4, <2>3, <2>6 DEF Leads
    <3>6. Later(x, i) = {}
      BY <1>4, <2>3, <2>4, <3>4, <3>5
    <3>7. RowOf(x, i).session = i /\ RowOf(x, i).recency = sessions[i].wrote
      BY <1>0, <1>4, <2>3, <2>6, <3>6, RowsAre
    <3>8. \A j \in store : RowOf(x, j).recency <= sessions[i].wrote
      <4> TAKE j \in store
      <4>1. CASE j = i
        BY <1>4, <2>3, <2>4, <3>7, <4>1
      <4>2. CASE j # i
        <5>1. i \in Later(x, j)
          BY <1>4, <2>3, <2>4, <3>4, <3>5, <4>2
        <5> QED
          BY <1>0, <1>4, <2>6, <5>1, RowsAre
      <4> QED
        BY <4>1, <4>2
    <3> QED
      BY <1>2, <2>2, <2>3, <3>1, <3>7, <3>8 DEF i
  <2> QED
    BY <2>5, <2>6
<1> QED
  BY <1>8, <1>9 DEF rows, latest

\* What is offered, or found walking up, is of the project, where every harness looks by path.
LEMMA OfThisProjectHolds ==
  ASSUME NEW x, Search(x)!SearchAssumption, SessionsShape(x),
         "claude-code" \notin x.harnesses, "pi" \in x.harnesses => x.shared
  PROVE  Search(x)!OfThisProject
<1>0. x.harnesses \subseteq Kinds /\ x.opened \in Nat \ {0} /\ x.limit \in Nat \ {0}
  BY SearchConstants
<1>1. \A h \in Kinds : \A dir : \A i \in StoreOf(x, h, dir) : sessions[i].dir = dir
  <2> TAKE h \in Kinds
  <2> TAKE dir
  <2> TAKE i \in StoreOf(x, h, dir)
  <2>1. sessions[i].harness = h /\ i \in DOMAIN sessions
    BY StoresAre
  <2>2. h \in x.harnesses
    BY <2>1, SessionsAre
  <2>3. CASE h = "pi"
    BY <2>2, <2>3 DEF StoreOf, Search!PiTranscripts
  <2>4. CASE h \in {"codex", "opencode", "dsh", "aider"}
    BY <2>4 DEF StoreOf, Search!CodexOwn, Search!DshSessions, Search!AiderRuns
  <2> QED
    BY <2>2, <2>3, <2>4 DEF Kinds
<1> SUFFICES ASSUME NEW from \in Search(x)!Froms, NEW cwd \in x.dirs,
                    NEW f \in Search(x)!Recent(from, cwd, Search(x)!NoId) \union Search(x)!WalkUp(from, cwd)
             PROVE  sessions[f.session].dir \in Search(x)!ProjectDirs(cwd)
  BY DEF Search!OfThisProject
<1>2. from \in Names
  BY SearchConstants
<1>3. CASE f \in Search(x)!Recent(from, cwd, Search(x)!NoId)
  <2>1. f \in Rows(x, from, cwd, Search(x)!NoId)
    <3>1. Search(x)!Recent(from, cwd, Search(x)!NoId) \subseteq Rows(x, from, cwd, Search(x)!NoId)
      BY <1>0, <1>2, RecentIs
    <3> QED
      BY <1>3, <3>1
  <2>2. PICK i \in Reached(x, from, cwd, Search(x)!NoId) : f = RowOf(x, i)
    BY <2>1 DEF Rows
  <2>3. i \in DOMAIN sessions /\ sessions[i].harness \in Kinds
    BY <1>0, <2>2, SessionsAre DEF Reached
  <2>4. PICK dir \in Search(x)!ProjectDirs(cwd) : i \in Offered(x, sessions[i].harness, dir, Search(x)!NoId)
    BY <2>2 DEF Reached
  <2>5. i \in StoreOf(x, sessions[i].harness, dir)
    BY <1>0, <2>3, <2>4, OfferedAre
  <2> QED
    BY <1>1, <2>2, <2>3, <2>4, <2>5, RowsAre
<1>4. CASE f \in Search(x)!WalkUp(from, cwd)
  <2>1. PICK dir \in Search(x)!ProjectDirs(cwd) : f \in Search(x)!Latest(from, dir)
    BY <1>4 DEF Search!WalkUp
  <2>2. PICK h \in Kinds : f.session \in Seen(x, h, dir)
    BY <1>0, <1>2, <2>1, LatestIs
  <2> QED
    BY <1>1, <2>1, <2>2 DEF Seen
<1> QED
  BY <1>3, <1>4

\* A loader gives the session that was found: of a history, the run with the id, or the last.
LEMMA LoadIs ==
  ASSUME NEW x, AgentsInv(x), NEW f, f.session \in DOMAIN sessions, f.dir = sessions[f.session].dir,
         sessions[f.session].harness = "aider" =>
           \/ f.id = Search(x)!Id(f.session)
           \/ f.id = Search(x)!NoId /\ \A j \in Search(x)!AiderRuns(f.dir) : j <= f.session
  PROVE  Search(x)!Load(f) = f.session
<1> DEFINE i == f.session
           runs == {y \in Search(x)!AiderRuns(f.dir) : f.id \in {Search(x)!NoId, Search(x)!Id(y)}}
<1>1. CASE sessions[i].harness # "aider"
  BY <1>1 DEF Search!Load
<1>2. CASE sessions[i].harness = "aider"
  <2>1. i \in Search(x)!AiderRuns(f.dir) /\ i \in Nat /\ SessionsShape(x)
    BY <1>2, SessionsAre DEF Search!AiderRuns, Search!Of, Search!All, AgentsInv
  <2>2. i \in runs
    BY <1>2, <2>1
  <2>3. \A j \in runs : j \in Nat /\ j <= i
    <3> TAKE j \in runs
    <3>1. j \in DOMAIN sessions /\ j \in Nat /\ j \in Search(x)!AiderRuns(f.dir) /\ SameStore(i, j)
      BY <1>2, <2>1, SessionsAre DEF Search!AiderRuns, Search!Of, Search!All, SameStore
    <3>2. CASE f.id = Search(x)!NoId
      <4>1. Search(x)!Id(i) # Search(x)!NoId
        BY IdsAre
      <4> QED
        BY <1>2, <3>1, <3>2, <4>1
    <3>3. CASE f.id # Search(x)!NoId
      <4>1. Search(x)!Id(j) = Search(x)!Id(i)
        BY <1>2, <3>3
      <4>2. sessions[i].began = sessions[j].began
        BY <1>2, <3>1, <4>1, IdsAre DEF SameStore
      <4>3. ~(i < j)
        <5>1. sessions[i].began \in Nat
          BY <2>1, SessionsAre
        <5> QED
          BY <1>2, <3>1, <4>2, <5>1 DEF AgentsInv, SessionsKept
      <4> QED
        BY <2>1, <3>1, <4>3
    <3> QED
      BY <3>2, <3>3
  <2>4. Search(x)!Load(f) = CHOOSE j \in Search(x)!LastOf(runs) : TRUE
    BY <1>2 DEF Search!Load
  <2> HIDE DEF runs
  <2>5. Search(x)!LastOf(runs) = {i}
    BY <2>1, <2>2, <2>3 DEF Search!LastOf
  <2> QED
    BY <2>4, <2>5
<1> QED
  BY <1>1, <1>2

\* An id reaches its session, whatever the limit.
LEMMA NamedIsReachedHolds ==
  ASSUME NEW x, Search(x)!SearchAssumption, AgentsInv(x) PROVE Search(x)!NamedIsReached
<1>0. SessionsShape(x) /\ x.harnesses \subseteq Kinds /\ x.opened \in Nat \ {0} /\ x.limit \in Nat \ {0}
  BY SearchConstants DEF AgentsInv
<1> SUFFICES ASSUME NEW cwd \in x.dirs, NEW i \in DOMAIN sessions,
                    {j \in Search(x)!Of(sessions[i].harness) :
                       Search(x)!Id(j) = Search(x)!Id(i) /\ sessions[j].dir \in Search(x)!ProjectDirs(cwd)} = {i},
                    sessions[i].harness = "claude-code" => Search(x)!Own(i)
             PROVE  \E f \in Search(x)!Named(sessions[i].harness, cwd, Search(x)!Id(i)) : Search(x)!Load(f) = i
  BY DEF Search!NamedIsReached, Search!All
<1> DEFINE h == sessions[i].harness
           id == Search(x)!Id(i)
           dir == sessions[i].dir
<1>1. h \in Kinds /\ h \in Names /\ id # Search(x)!NoId /\ i \in Nat
  BY <1>0, SessionsAre, IdsAre DEF Names, NoName
<1>2. dir \in Search(x)!ProjectDirs(cwd)
  OBVIOUS
<1>3. \A j \in DOMAIN sessions :
        /\ sessions[j].harness = h /\ Search(x)!Id(j) = id /\ sessions[j].dir \in Search(x)!ProjectDirs(cwd) => j = i
  BY DEF Search!Of, Search!All
<1>4. \A j \in Reached(x, h, cwd, id) : j = i
  <2> TAKE j \in Reached(x, h, cwd, id)
  <2>1. j \in DOMAIN sessions /\ h \in {"", sessions[j].harness}
    BY DEF Reached
  <2>2. PICK d \in Search(x)!ProjectDirs(cwd) : j \in Offered(x, sessions[j].harness, d, id)
    BY DEF Reached
  <2>3. sessions[j].harness = h
    BY <1>1, <2>1 DEF Kinds
  <2>4. j \in Offering(x, h, d, id) /\ Search(x)!Id(j) = id
    BY <1>0, <1>1, <2>2, <2>3, OfferedAre
  <2>5. CASE h = "aider"
    <3>1. j \in Search(x)!AiderRuns(d)
      BY <1>1, <2>4, <2>5 DEF Offering, NamedOf, StoreOf
    <3> QED
      BY <1>3, <2>1, <2>2, <2>3, <2>4, <3>1 DEF Search!AiderRuns
  <2>6. CASE h # "aider"
    BY <2>3, <2>4, <2>6, IdsAre
  <2> QED
    BY <2>5, <2>6
<1>5. i \in Reached(x, h, cwd, id)
  <2>1. i \in Offering(x, h, dir, id)
    <3>1. i \in NamedOf(x, h, dir)
      <4> USE DEF NamedOf, Search!Of, Search!All
      <4>1. CASE h \in {"codex", "opencode"}
        BY <4>1
      <4>2. CASE h = "dsh"
        BY <4>2 DEF Search!DshSessions
      <4>3. CASE h = "claude-code"
        BY <4>3 DEF StoreOf, Search!ClaudeTranscripts
      <4>4. CASE h = "pi"
        BY <4>4 DEF StoreOf, Search!PiTranscripts
      <4>5. CASE h = "aider"
        BY <4>5 DEF StoreOf, Search!AiderRuns
      <4> QED
        BY <1>1, <4>1, <4>2, <4>3, <4>4, <4>5 DEF Kinds
    <3> QED
      BY <1>1, <3>1 DEF Offering
  <2>2. i \in Offered(x, h, dir, id)
    <3>1. CASE h # "opencode"
      BY <1>0, <1>1, <2>1, <3>1, OfferedAre
    <3>2. CASE h = "opencode"
      <4>1. \A j \in Offering(x, h, dir, id) : sessions[j].harness = h /\ Search(x)!Id(j) = id
        BY <1>0, <1>1, OfferedAre
      <4>2. Offering(x, h, dir, id) = {i}
        BY <2>1, <3>2, <4>1, IdsAre
      <4>3. Cardinality({i}) = 1 /\ {i} \in SUBSET DOMAIN sessions
        BY FS_Singleton
      <4>4. Search(x)!Newest({i}, x.limit) = {i}
        BY <1>0, <4>3, NewestFacts
      <4> QED
        BY <3>2, <4>2, <4>4 DEF Offered
    <3> QED
      BY <3>1, <3>2
  <2> QED
    BY <1>2, <2>2 DEF Reached
<1> HIDE DEF h, id, dir
<1>6. Search(x)!Recent(h, cwd, id) = {RowOf(x, i)}
  <2>1. Rows(x, h, cwd, id) = {RowOf(x, i)}
    BY <1>4, <1>5 DEF Rows
  <2> QED
    BY <1>0, <1>1, <2>1, RecentIs
<1>7. Search(x)!Named(h, cwd, id) = {RowOf(x, i)}
  <2>1. Cardinality({RowOf(x, i)}) = 1
    BY FS_Singleton
  <2> QED
    BY <1>6, <2>1, SearchCounts DEF Search!Named
<1>8. Search(x)!Load(RowOf(x, i)) = i
  BY <1>0, LoadIs, RowsAre
<1> QED
  BY <1>7, <1>8 DEF h, id

\* The hint of another directory leads to a session.
LEMMA HintWorksHolds ==
  ASSUME NEW x, Search(x)!SearchAssumption, AgentsInv(x) PROVE Search(x)!HintWorks
<1>0. SessionsShape(x) /\ x.harnesses \subseteq Kinds /\ x.opened \in Nat \ {0}
  BY SearchConstants DEF AgentsInv
<1> SUFFICES ASSUME Cardinality(Search(x)!Of("codex")) <= x.opened,
                    NEW from \in Search(x)!Froms, NEW cwd \in x.dirs,
                    NEW dir \in Search(x)!NoSessionHint(from, cwd)
             PROVE  Search(x)!Latest(from, dir) # {}
  BY SearchCounts DEF Search!HintWorks
<1>1. PICK i \in Search(x)!Anywhere(from) : dir = sessions[i].dir
  BY DEF Search!NoSessionHint
<1>2. PICK h \in x.harnesses : from \in {"", h} /\ i \in Search(x)!AnywhereOf(h)
  BY <1>1 DEF Search!Anywhere, Search!Asked
<1>3. h \in Kinds /\ from \in Names
  BY <1>0, SearchConstants
<1>4. \A among \in SUBSET DOMAIN sessions : Search(x)!Newest(among, 1) \subseteq among
  BY <1>0, NewestFacts
<1>5. \A y : Search(x)!Of(y) \in SUBSET DOMAIN sessions
  BY DEF Search!Of, Search!All
<1>6. \A among \in SUBSET DOMAIN sessions : {j \in among : Search(x)!Own(j)} \in SUBSET DOMAIN sessions
  OBVIOUS
<1>7. i \in Search(x)!Of(h) /\ (h \in {"claude-code", "dsh"} => Search(x)!Own(i)) /\ (h = "pi" => ~x.shared)
      /\ h # "aider"
  <2>1. CASE h \in {"claude-code", "dsh"}
    <3>1. i \in {j \in Search(x)!Of(h) : Search(x)!Own(j)}
      BY <1>2, <1>4, <1>5, <1>6, <2>1 DEF Search!AnywhereOf, Search!ClaudeAnywhere, Search!DshAnywhere
    <3> QED
      BY <2>1, <3>1
  <2>2. CASE h \in {"codex", "pi"}
    BY <1>2, <1>4, <1>5, <2>2 DEF Search!AnywhereOf, Search!CodexAnywhere, Search!PiAnywhere
  <2>3. CASE h = "opencode"
    BY <1>2, <2>3 DEF Search!AnywhereOf, Search!OpencodeAnywhere
  <2>4. CASE h = "aider"
    BY <1>2, <2>4 DEF Search!AnywhereOf
  <2> QED
    BY <1>3, <2>1, <2>2, <2>3, <2>4 DEF Kinds
<1>8. Seen(x, h, dir) # {}
  <2>1. i \in DOMAIN sessions /\ sessions[i].harness = h
    BY <1>7 DEF Search!Of, Search!All
  <2>2. PICK j \in DOMAIN sessions : sessions[j].parent = 0 /\ sessions[j].harness = h /\ sessions[j].dir = dir
    BY <1>1, <2>1 DEF AgentsInv, SessionsKept, SameStore
  <2> USE DEF StoreOf, Search!Of, Search!All, Search!Own
  <2>3. CASE h = "claude-code"
    BY <1>1, <1>7, <2>1, <2>3 DEF Search!ClaudeTranscripts, Seen, Window
  <2>4. CASE h = "pi"
    BY <1>1, <1>7, <2>1, <2>4 DEF Search!PiTranscripts, Seen, Window
  <2>5. CASE h = "dsh"
    BY <1>1, <1>7, <2>1, <2>5 DEF Search!DshSessions, Seen, Window
  <2>6. CASE h = "opencode"
    BY <2>2, <2>6 DEF Seen, Window
  <2>7. CASE h = "codex"
    <3>1. Search(x)!Newest(Search(x)!Of("codex"), x.opened) = Search(x)!Of("codex")
      BY <1>0, <1>5, NewestFacts
    <3> QED
      BY <2>2, <2>7, <3>1 DEF Seen, Window, Search!CodexOwn
  <2> QED
    BY <1>3, <1>7, <2>3, <2>4, <2>5, <2>6, <2>7 DEF Kinds
<1> QED
  BY <1>0, <1>2, <1>3, <1>8, LatestIs

\* No limit costs a listing a session newer than one it shows.
LEMMA ListKeepsTheNewestHolds ==
  ASSUME NEW x, Search(x)!SearchAssumption, SessionsShape(x) PROVE Search(x)!ListKeepsTheNewest
<1>0. x.harnesses \subseteq Kinds /\ x.opened \in Nat \ {0} /\ x.limit \in Nat \ {0} /\ x.limit \in Nat
  BY SearchConstants
<1> SUFFICES ASSUME NEW cwd \in x.dirs, NEW i \in DOMAIN sessions, sessions[i].parent = 0,
                    ~IsRun(i), sessions[i].dir \in Search(x)!ProjectDirs(cwd),
                    \A r \in Search(x)!Recent(NoName, cwd, Search(x)!NoId) : r.session # i
             PROVE  /\ Cardinality(Search(x)!Recent(NoName, cwd, Search(x)!NoId)) = x.limit
                    /\ \A r \in Search(x)!Recent(NoName, cwd, Search(x)!NoId) : sessions[i].wrote <= r.recency
  BY SearchCounts DEF Search!ListKeepsTheNewest, Search!All, Search!Own, IsRun, NoName
<1> DEFINE shown == Search(x)!Recent(NoName, cwd, Search(x)!NoId)
           rows == Rows(x, NoName, cwd, Search(x)!NoId)
           before == RowPairs(x, rows)
           h == sessions[i].harness
           dir == sessions[i].dir
           store == StoreOf(x, h, dir)
           newest == Search(x)!Newest(store, x.limit)
<1>1. /\ IsFiniteSet(rows) /\ StrictOrder(rows, before)
      /\ \A r \in rows : Ahead(rows, before, r) = {s \in rows : Search(x)!RowBefore(s, r)}
  BY <1>0, RowsInOrder
<1>2. shown = FirstOf(rows, before, x.limit)
  <2>1. NoName \in Names
    BY DEF Names, NoName
  <2>2. shown = {r \in rows : Cardinality({s \in rows : Search(x)!RowBefore(s, r)}) < x.limit}
    BY <1>0, <2>1, RecentIs
  <2> QED
    BY <1>1, <2>2 DEF FirstOf
<1>3. \A r, s \in rows : <<r, s>> \in before <=> Search(x)!RowBefore(r, s)
  BY DEF RowPairs
<1>4. h \in Kinds /\ sessions[i].wrote \in Nat /\ i \in Nat
  BY <1>0, SessionsAre
<1>5. /\ \A r \in rows : r.recency \in Nat
      /\ \A j \in DOMAIN sessions : sessions[j].wrote \in Nat /\ j \in Nat
  <2>1. \A j \in DOMAIN sessions : sessions[j].wrote \in Nat /\ j \in Nat
    BY SessionsAre
  <2>2. ASSUME NEW r \in rows PROVE r.recency \in Nat
    <3>1. PICK j \in DOMAIN sessions : r = RowOf(x, j)
      BY <2>2 DEF Rows, Reached
    <3> QED
      BY <3>1, RowsAre
  <2> QED
    BY <2>1, <2>2
<1>6. i \in store
  <2> USE DEF StoreOf, Search!Of, Search!All, Search!Own
  <2>1. CASE h \in {"claude-code", "pi"}
    BY <2>1 DEF Search!ClaudeTranscripts, Search!PiTranscripts
  <2>2. CASE h \in {"codex", "opencode", "dsh"}
    BY <2>2 DEF Search!CodexOwn, Search!DshSessions
  <2> QED
    BY <1>4, <2>1, <2>2 DEF Kinds, IsRun
<1>7. /\ store \in SUBSET DOMAIN sessions /\ IsFiniteSet(store) /\ Cardinality(store) \in Nat
      /\ \A j \in store : sessions[j].harness = h
  BY <1>4, StoresAre, NewerIsAnOrder
<1>8. \A j \in Offered(x, h, dir, Search(x)!NoId) : RowOf(x, j) \in rows
  <2> TAKE j \in Offered(x, h, dir, Search(x)!NoId)
  <2>1. j \in DOMAIN sessions /\ sessions[j].harness = h
    BY <1>0, <1>4, OfferedAre
  <2> QED
    BY <2>1 DEF Rows, Reached, NoName
<1>9. Offered(x, h, dir, Search(x)!NoId) = IF h = "opencode" THEN newest ELSE store
  BY DEF Offered, Offering
<1>10. \A j \in DOMAIN sessions : sessions[j].harness = h =>
          RowOf(x, j).session = j /\ RowOf(x, j).recency = sessions[j].wrote
  BY RowsAre DEF IsRun
<1>11. \A r \in shown : r.session # i
  OBVIOUS
<1> SUFFICES Cardinality(shown) = x.limit /\ \A r \in shown : sessions[i].wrote <= r.recency
  OBVIOUS
<1> HIDE DEF shown, rows, before, store, newest
<1>12. CASE RowOf(x, i) \in rows
  <2> DEFINE mine == RowOf(x, i)
  <2>1. mine.session = i /\ mine.recency = sessions[i].wrote /\ mine \notin shown
    BY <1>10, <1>11
  <2>2. ~(Cardinality(rows) <= x.limit)
    BY <1>0, <1>1, <1>2, <1>12, <2>1, FirstOfFacts
  <2>3. Cardinality(rows) \in Nat
    BY <1>1, FS_CardinalityType
  <2>4. Cardinality(shown) = x.limit
    BY <1>0, <1>1, <1>2, <2>2, <2>3, FirstOfAre
  <2> HIDE DEF mine
  <2>5. ASSUME NEW r \in shown PROVE sessions[i].wrote <= r.recency
    <3>1. r \in rows /\ mine \in rows /\ mine # r
      BY <1>2, <1>12, <2>1, <2>5 DEF FirstOf, mine
    <3>2. <<mine, r>> \notin before
      BY <1>0, <1>1, <1>2, <2>1, <3>1, FirstOfFacts
    <3>3. Search(x)!RowBefore(r, mine)
      BY <1>1, <1>3, <3>1, <3>2 DEF StrictOrder
    <3> QED
      BY <1>4, <1>5, <2>1, <3>1, <3>3 DEF Search!RowBefore
  <2> QED
    BY <2>4, <2>5
<1>13. CASE RowOf(x, i) \notin rows
  <2>1. h = "opencode" /\ i \notin newest
    BY <1>6, <1>8, <1>9, <1>13
  <2>2. ~(Cardinality(store) <= x.limit)
    BY <1>0, <1>6, <1>7, <2>1, NewestFacts DEF newest
  <2>3. /\ newest \subseteq store /\ Cardinality(newest) = x.limit
        /\ \A j \in newest : Search(x)!Newer(i, j) => i \in newest
    BY <1>0, <1>6, <1>7, <2>2, NewestFacts DEF newest
  <2>4. \A j \in newest : sessions[i].wrote <= sessions[j].wrote
    BY <1>4, <1>5, <1>7, <2>1, <2>3 DEF Search!Newer
  <2> DEFINE theirs == {RowOf(x, j) : j \in newest}
  <2>5. /\ theirs \subseteq rows /\ \A s \in theirs : sessions[i].wrote <= s.recency
    BY <1>7, <1>8, <1>9, <1>10, <2>1, <2>3, <2>4
  <2>6. IsFiniteSet(newest) /\ IsFiniteSet(theirs) /\ Cardinality(theirs) = x.limit
    <3> DEFINE asRow == [j \in newest |-> RowOf(x, j)]
    <3>1. IsFiniteSet(newest)
      BY <1>7, <2>3, FS_Subset
    <3>2. \A j, k \in newest : asRow[j] = asRow[k] => j = k
      BY <1>7, <1>10, <2>3
    <3>3. asRow \in [newest -> theirs] /\ \A s \in theirs : \E j \in newest : asRow[j] = s
      OBVIOUS
    <3> HIDE DEF asRow, theirs
    <3>4. asRow \in Bijection(newest, theirs)
      BY <3>2, <3>3 DEF Bijection, Injection, Surjection, IsInjective
    <3> QED
      BY <2>3, <3>1, <3>4, FS_Bijection DEF ExistsBijection
  <2> HIDE DEF theirs
  <2>7. Cardinality(rows) \in Nat /\ x.limit <= Cardinality(rows)
    BY <1>1, <2>5, <2>6, FS_Subset, FS_CardinalityType
  <2>8. Cardinality(shown) = x.limit
    BY <1>0, <1>1, <1>2, <2>7, FirstOfAre
  <2>9. ASSUME NEW r \in shown, ~(sessions[i].wrote <= r.recency) PROVE FALSE
    <3>1. r \in rows /\ Cardinality(Ahead(rows, before, r)) < x.limit
      BY <1>2 DEF FirstOf
    <3>2. \A s \in theirs : Search(x)!RowBefore(s, r)
      BY <1>4, <1>5, <2>5, <2>9, <3>1 DEF Search!RowBefore
    <3>3. theirs \subseteq Ahead(rows, before, r)
      BY <1>1, <2>5, <3>1, <3>2
    <3>4. Ahead(rows, before, r) \in SUBSET rows
      BY DEF Ahead
    <3>5. IsFiniteSet(Ahead(rows, before, r)) /\ Cardinality(Ahead(rows, before, r)) \in Nat
      BY <1>1, <3>4, FS_Subset, FS_CardinalityType
    <3>6. x.limit <= Cardinality(Ahead(rows, before, r))
      BY <2>6, <3>3, <3>5, FS_Subset
    <3> QED
      BY <1>0, <3>1, <3>5, <3>6
  <2> QED
    BY <2>8, <2>9
<1> QED
  BY <1>12, <1>13

-----------------------------------------------------------------------------
(* A command, while agents go on working.                                  *)

\* The directories of a project differ in length.
LEMMA ProjectDirsAre ==
  ASSUME NEW x, NEW cwd \in Seq(Seq(STRING))
  PROVE  \A d, e \in Search(x)!ProjectDirs(cwd) : Len(d) \in Nat /\ (Len(d) = Len(e) => d = e)
<1>1. Len(cwd) \in Nat
  OBVIOUS
<1>2. \A n \in 1 .. Len(cwd) - 1 : Len(SubSeq(cwd, 1, n)) = n
  OBVIOUS
<1>3. \A d \in Search(x)!ProjectDirs(cwd) : d = cwd \/ \E n \in 1 .. Len(cwd) - 1 : d = SubSeq(cwd, 1, n)
  BY DEF Search!ProjectDirs
<1> TAKE d, e \in Search(x)!ProjectDirs(cwd)
<1>4. CASE d = cwd /\ e = cwd
  BY <1>1, <1>4
<1>5. ASSUME d = cwd, NEW n \in 1 .. Len(cwd) - 1, e = SubSeq(cwd, 1, n)
      PROVE  Len(d) \in Nat /\ Len(d) # Len(e)
  BY <1>1, <1>2, <1>5
<1>6. ASSUME e = cwd, NEW n \in 1 .. Len(cwd) - 1, d = SubSeq(cwd, 1, n)
      PROVE  Len(d) \in Nat /\ Len(d) # Len(e)
  BY <1>1, <1>2, <1>6
<1>7. ASSUME NEW m \in 1 .. Len(cwd) - 1, NEW n \in 1 .. Len(cwd) - 1,
             d = SubSeq(cwd, 1, m), e = SubSeq(cwd, 1, n)
      PROVE  Len(d) \in Nat /\ (Len(d) = Len(e) => d = e)
  <2>1. Len(d) = m /\ Len(e) = n
    BY <1>2, <1>7
  <2> QED
    BY <1>1, <1>7, <2>1
<1> QED
  BY <1>3, <1>4, <1>5, <1>6, <1>7

\* What is found walking up is the latest of the nearest directory that has one.
LEMMA WalkUpIs ==
  ASSUME NEW x, NEW from, NEW cwd, NEW f \in Search(x)!WalkUp(from, cwd)
  PROVE  \E d \in Search(x)!ProjectDirs(cwd) :
           /\ f \in Search(x)!Latest(from, d)
           /\ \A e \in Search(x)!ProjectDirs(cwd) : Len(e) > Len(d) => Search(x)!Latest(from, e) = {}
  BY DEF Search!WalkUp

\* At most one is found so.
LEMMA WalkUpFindsOne ==
  ASSUME NEW x, SessionsShape(x), x.opened \in Nat \ {0}, NEW from \in Names, NEW cwd \in Seq(Seq(STRING)),
         NEW f \in Search(x)!WalkUp(from, cwd), NEW g \in Search(x)!WalkUp(from, cwd)
  PROVE  f = g
<1>1. PICK d \in Search(x)!ProjectDirs(cwd) :
        /\ f \in Search(x)!Latest(from, d)
        /\ \A e \in Search(x)!ProjectDirs(cwd) : Len(e) > Len(d) => Search(x)!Latest(from, e) = {}
  BY WalkUpIs
<1>2. PICK e \in Search(x)!ProjectDirs(cwd) :
        /\ g \in Search(x)!Latest(from, e)
        /\ \A d0 \in Search(x)!ProjectDirs(cwd) : Len(d0) > Len(e) => Search(x)!Latest(from, d0) = {}
  BY WalkUpIs
<1>3. Len(d) \in Nat /\ Len(e) \in Nat /\ (Len(d) = Len(e) => d = e)
  BY ProjectDirsAre
<1>4. ~(Len(e) > Len(d)) /\ ~(Len(d) > Len(e))
  BY <1>1, <1>2
<1>5. d = e
  BY <1>3, <1>4
<1> QED
  BY <1>1, <1>2, <1>5, LatestIs

\* A session stays in the store it is in, as the person's own.
LEMMA StoresStay ==
  ASSUME NEW x, SessionsShape(x), Onward, NEW h \in Kinds, NEW dir, NEW g \in DOMAIN sessions
  PROVE  g \in StoreOf(x, h, dir) <=> g \in StoreOf(x, h, dir)'
<1>1. /\ g \in DOMAIN sessions' /\ sessions'[g].harness = sessions[g].harness
      /\ sessions'[g].dir = sessions[g].dir /\ sessions'[g].parent = sessions[g].parent
  BY DEF Onward
<1> USE <1>1 DEF StoreOf, Search!Of, Search!All, Search!Own
<1>2. CASE h = "claude-code"
  BY <1>2 DEF Search!ClaudeTranscripts
<1>3. CASE h = "pi"
  BY <1>3 DEF Search!PiTranscripts
<1>4. CASE h = "codex"
  BY <1>4 DEF Search!CodexOwn
<1>5. CASE h = "opencode"
  BY <1>5
<1>6. CASE h = "dsh"
  BY <1>6 DEF Search!DshSessions
<1>7. CASE h = "aider"
  BY <1>7 DEF Search!AiderRuns
<1> QED
  BY <1>2, <1>3, <1>4, <1>5, <1>6, <1>7 DEF Kinds

LEMMA StoresHold ==
  ASSUME NEW x, NEW h \in Kinds, NEW dir, NEW g \in StoreOf(x, h, dir)' PROVE g \in DOMAIN sessions'
<1> USE DEF StoreOf, Search!Of, Search!All, Search!Own
<1>1. CASE h \in {"claude-code", "pi"}
  BY <1>1 DEF Search!ClaudeTranscripts, Search!PiTranscripts
<1>2. CASE h \in {"codex", "opencode"}
  BY <1>2
<1>3. CASE h \in {"dsh", "aider"}
  BY <1>3 DEF Search!DshSessions, Search!AiderRuns
<1> QED
  BY <1>1, <1>2, <1>3 DEF Kinds

\* A rollout that Codex's search did not open is opened only when it was written to.
LEMMA WindowStays ==
  ASSUME NEW x, SessionsShape(x), SessionsShape(x)', x.opened \in Nat \ {0}, Onward,
         NEW h \in Kinds, NEW g \in DOMAIN sessions, g \notin Window(x, h), g \in Window(x, h)'
  PROVE  sessions'[g].wrote = clock'
<1> SUFFICES ASSUME sessions'[g].wrote = sessions[g].wrote PROVE FALSE
  BY DEF Onward
<1> DEFINE among == Search(x)!Of("codex")
           ahead == {j \in among : Search(x)!Newer(j, g)}
<1>1. h = "codex"
  BY DEF Window
<1>2. among \in SUBSET DOMAIN sessions /\ among' \in SUBSET DOMAIN sessions'
  BY DEF Search!Of, Search!All
<1>3. \A j \in DOMAIN sessions : /\ j \in among <=> j \in among'
                                 /\ j \in DOMAIN sessions'
                                 /\ sessions[j].wrote \in Nat /\ sessions'[j].wrote \in Nat /\ j \in Nat
                                 /\ sessions[j].wrote <= sessions'[j].wrote
  <2> TAKE j \in DOMAIN sessions
  <2>1. j \in among <=> j \in among'
    BY DEF Onward, Search!Of, Search!All
  <2>2. sessions[j].wrote \in Nat /\ sessions[j].wrote <= clock /\ clock \in Nat /\ j \in Nat
    BY SessionsAre
  <2>3. clock' \in Nat /\ clock <= clock' /\ j \in DOMAIN sessions'
    BY DEF SessionsShape, Onward
  <2>4. sessions'[j].wrote = sessions[j].wrote \/ sessions'[j].wrote = clock'
    BY DEF Onward
  <2> QED
    BY <2>1, <2>2, <2>3, <2>4
<1>4. g \in among' /\ Cardinality(ahead') < x.opened
  BY <1>1, SearchCounts DEF Window, Search!Newest
<1>5. g \in among
  BY <1>3, <1>4
<1>6. ~(Cardinality(ahead) < x.opened)
  BY <1>1, <1>5, SearchCounts DEF Window, Search!Newest
<1>7. ahead \subseteq ahead'
  <2>1. ASSUME NEW j \in among, Search(x)!Newer(j, g) PROVE j \in among' /\ Search(x)!Newer(j, g)'
    <3>1. j \in DOMAIN sessions
      BY <1>2
    <3> QED
      BY <1>3, <2>1, <3>1 DEF Search!Newer
  <2> HIDE DEF among
  <2> QED
    BY <2>1
<1>8. IsFiniteSet(among')
  <2>1. DOMAIN sessions' = 1 .. Len(sessions') /\ Len(sessions') \in Nat
    BY DEF SessionsShape
  <2>2. IsFiniteSet(1 .. Len(sessions'))
    BY <2>1, FS_Interval
  <2> QED
    BY <1>2, <2>1, <2>2, FS_Subset
<1>9. ahead' \in SUBSET among' /\ IsFiniteSet(ahead')
  BY <1>8, FS_Subset
<1>10. Cardinality(ahead) <= Cardinality(ahead') /\ Cardinality(ahead) \in Nat /\ Cardinality(ahead') \in Nat
  <2> HIDE DEF ahead
  <2>1. ahead \in SUBSET (ahead')
    BY <1>7
  <2> QED
    BY <1>9, <2>1, FS_Subset, FS_CardinalityType
<1> QED
  BY <1>4, <1>6, <1>10

\* What was announced is of a directory of the project, and none of its harness nearer by was
\* older when it was written to since.
Announced(x, f, cwd) ==
  /\ f.session \in DOMAIN sessions /\ f.recency \in Nat /\ f.recency <= sessions[f.session].wrote
  /\ \E d \in Search(x)!ProjectDirs(cwd) :
       /\ f.session \in StoreOf(x, sessions[f.session].harness, d)
       /\ \A e \in Search(x)!ProjectDirs(cwd) : Len(e) > Len(d) =>
            \A g \in Seen(x, sessions[f.session].harness, e) : f.recency <= sessions[g].wrote

\* So it is when it is announced.
LEMMA AnnouncedAtFirst ==
  ASSUME NEW x, Search(x)!SearchAssumption, SessionsShape(x), NEW from \in Names, NEW cwd,
         NEW f \in Search(x)!WalkUp(from, cwd)
  PROVE  Announced(x, f, cwd)
<1>0. x.opened \in Nat \ {0}
  BY SearchConstants
<1>1. PICK d \in Search(x)!ProjectDirs(cwd) :
        /\ f \in Search(x)!Latest(from, d)
        /\ \A e \in Search(x)!ProjectDirs(cwd) : Len(e) > Len(d) => Search(x)!Latest(from, e) = {}
  BY WalkUpIs
<1>2. PICK h \in Kinds : from \in {"", h} /\ FoundAs(x, h, f) /\ f.session \in Seen(x, h, d)
  BY <1>0, <1>1, LatestIs
<1>3. f.session \in DOMAIN sessions /\ sessions[f.session].harness = h /\ f.recency = sessions[f.session].wrote
  BY <1>2 DEF FoundAs
<1>4. f.recency \in Nat /\ f.recency <= sessions[f.session].wrote
  BY <1>3, SessionsAre
<1>5. f.session \in StoreOf(x, h, d)
  BY <1>2 DEF Seen
<1>6. \A e \in Search(x)!ProjectDirs(cwd) : Len(e) > Len(d) => Seen(x, h, e) = {}
  BY <1>0, <1>1, <1>2, LatestIs
<1> QED
  BY <1>1, <1>3, <1>4, <1>5, <1>6 DEF Announced

\* So it stays, whatever agents do.
LEMMA AnnouncedStays ==
  ASSUME NEW x, Search(x)!SearchAssumption, SessionsShape(x), SessionsShape(x)', Onward,
         NEW f, NEW cwd, Announced(x, f, cwd)
  PROVE  Announced(x, f, cwd)'
<1> DEFINE i == f.session
<1>0. x.opened \in Nat \ {0} /\ x.harnesses \subseteq Kinds
  BY SearchConstants
<1>1. i \in DOMAIN sessions /\ f.recency \in Nat /\ f.recency <= sessions[i].wrote
  BY DEF Announced
<1> PICK h : h = sessions[i].harness
  OBVIOUS
<1>2. PICK d \in Search(x)!ProjectDirs(cwd) :
        /\ i \in StoreOf(x, h, d)
        /\ \A e \in Search(x)!ProjectDirs(cwd) : Len(e) > Len(d) =>
             \A g \in Seen(x, h, e) : f.recency <= sessions[g].wrote
  BY DEF Announced
<1>3. \A j \in DOMAIN sessions :
        /\ j \in DOMAIN sessions' /\ sessions[j].wrote \in Nat /\ sessions'[j].wrote \in Nat
        /\ sessions[j].wrote <= sessions'[j].wrote
  <2> TAKE j \in DOMAIN sessions
  <2>1. sessions[j].wrote \in Nat /\ sessions[j].wrote <= clock /\ clock \in Nat
    BY SessionsAre
  <2>2. clock' \in Nat /\ clock <= clock' /\ j \in DOMAIN sessions'
    BY DEF SessionsShape, Onward
  <2>3. sessions'[j].wrote = sessions[j].wrote \/ sessions'[j].wrote = clock'
    BY DEF Onward
  <2> QED
    BY <2>1, <2>2, <2>3
<1>4. h \in Kinds /\ sessions'[i].harness = h
  BY <1>0, <1>1, SessionsAre DEF Onward
<1>5. f.recency <= clock' /\ clock' \in Nat
  <2>1. sessions[i].wrote \in Nat /\ sessions[i].wrote <= clock /\ clock \in Nat
    BY <1>1, SessionsAre
  <2>2. clock' \in Nat /\ clock <= clock'
    BY DEF SessionsShape, Onward
  <2> QED
    BY <1>1, <2>1, <2>2
<1>6. Search(x)!ProjectDirs(cwd)' = Search(x)!ProjectDirs(cwd)
  BY DEF Search!ProjectDirs
<1> HIDE DEF i
<1>7. i \in StoreOf(x, h, d)'
  BY <1>1, <1>2, <1>4, StoresStay
<1>8. ASSUME NEW e \in Search(x)!ProjectDirs(cwd), Len(e) > Len(d), NEW g \in Seen(x, h, e)'
      PROVE  f.recency <= sessions'[g].wrote
  <2>1. g \in StoreOf(x, h, e)' /\ g \in Window(x, h)'
    BY <1>8 DEF Seen
  <2>2. g \in DOMAIN sessions'
    BY <1>4, <2>1, StoresHold
  <2>3. CASE g \notin DOMAIN sessions
    BY <1>5, <2>2, <2>3 DEF Onward
  <2>4. CASE g \in DOMAIN sessions /\ g \in Window(x, h)
    <3>1. g \in Seen(x, h, e)
      BY <1>4, <2>1, <2>4, StoresStay DEF Seen
    <3> QED
      BY <1>1, <1>2, <1>3, <1>8, <2>4, <3>1
  <2>5. CASE g \in DOMAIN sessions /\ g \notin Window(x, h)
    BY <1>0, <1>4, <1>5, <2>1, <2>5, WindowStays
  <2> QED
    BY <2>3, <2>4, <2>5
<1>9. f.recency <= sessions'[i].wrote /\ i \in DOMAIN sessions'
  BY <1>1, <1>3
<1> QED
  BY <1>1, <1>2, <1>4, <1>6, <1>7, <1>8, <1>9 DEF Announced, i

\* What is found again, by the harness of what was announced, is no older than it.
LEMMA FoundAgain ==
  ASSUME NEW x, Search(x)!SearchAssumption, AgentsInv(x), NEW cwd \in x.dirs,
         NEW f, Announced(x, f, cwd), NEW g \in Search(x)!WalkUp(sessions[f.session].harness, cwd)
  PROVE  /\ g.session \in DOMAIN sessions /\ Search(x)!Load(g) = g.session
         /\ sessions[g.session].harness = sessions[f.session].harness
         /\ f.recency <= sessions[g.session].wrote
<1> DEFINE i == f.session
           h == sessions[i].harness
           k == g.session
<1>0. x.opened \in Nat \ {0} /\ x.harnesses \subseteq Kinds /\ SessionsShape(x) /\ cwd \in Seq(Seq(STRING))
  BY SearchConstants DEF AgentsInv, Search!SearchAssumption
<1>1. i \in DOMAIN sessions /\ f.recency \in Nat /\ f.recency <= sessions[i].wrote
  BY DEF Announced
<1>2. PICK d \in Search(x)!ProjectDirs(cwd) :
        /\ i \in StoreOf(x, h, d)
        /\ \A e \in Search(x)!ProjectDirs(cwd) : Len(e) > Len(d) =>
             \A j \in Seen(x, h, e) : f.recency <= sessions[j].wrote
  BY DEF Announced
<1>3. h \in Kinds /\ h \in Names
  BY <1>0, <1>1, SessionsAre DEF Names
<1>4. PICK e \in Search(x)!ProjectDirs(cwd) :
        /\ g \in Search(x)!Latest(h, e)
        /\ \A c0 \in Search(x)!ProjectDirs(cwd) : Len(c0) > Len(e) => Search(x)!Latest(h, c0) = {}
  BY WalkUpIs
<1>5. /\ FoundAs(x, h, g) /\ k \in Seen(x, h, e)
      /\ \A j \in Seen(x, h, e) : j = k \/ Leads(x, k, j)
  <2>1. h # ""
    BY <1>3 DEF Kinds
  <2>2. g \in Search(x)!LatestOf(h, e)
    BY <1>4, <2>1 DEF Search!Latest
  <2> QED
    BY <1>0, <1>3, <2>2, LatestOfIs
<1>6. \A c0 \in Search(x)!ProjectDirs(cwd) : Len(c0) > Len(e) => Seen(x, h, c0) = {}
  <2> TAKE c0 \in Search(x)!ProjectDirs(cwd)
  <2>1. Search(x)!Latest(h, c0) = {} => Seen(x, h, c0) = {}
    BY <1>0, <1>3, LatestIs
  <2> QED
    BY <1>4, <2>1
<1>7. k \in DOMAIN sessions /\ sessions[k].harness = h /\ g.dir = sessions[k].dir
  BY <1>5 DEF FoundAs
<1>8. \A j \in DOMAIN sessions : j \in Nat /\ sessions[j].wrote \in Nat /\ sessions[j].began \in Nat
                             /\ sessions[j].began <= sessions[j].wrote
  BY <1>0, SessionsAre
<1>9. Len(d) \in Nat /\ Len(e) \in Nat /\ (Len(d) = Len(e) => d = e)
  BY <1>0, ProjectDirsAre
<1>10. Search(x)!Load(g) = k
  <2>1. ASSUME h = "aider" PROVE g.id = Search(x)!NoId /\ \A j \in Search(x)!AiderRuns(g.dir) : j <= k
    <3>1. Seen(x, h, e) = Search(x)!AiderRuns(e)
      <4>1. StoreOf(x, h, e) = Search(x)!AiderRuns(e)
        BY <2>1 DEF StoreOf
      <4>2. StoreOf(x, h, e) \cap DOMAIN sessions = StoreOf(x, h, e)
        BY <1>0, <1>3, StoresAre
      <4> QED
        BY <2>1, <4>1, <4>2 DEF Seen, Window
    <3>2. g.dir = e
      BY <1>5, <1>7, <3>1 DEF Search!AiderRuns
    <3>3. \A j \in Search(x)!AiderRuns(e) : j = k \/ j < k
      BY <1>5, <1>7, <2>1, <3>1 DEF Leads
    <3>4. \A j \in Search(x)!AiderRuns(e) : j \in Nat
      BY <1>8 DEF Search!AiderRuns, Search!Of, Search!All
    <3> QED
      BY <1>5, <1>7, <1>8, <2>1, <3>2, <3>3, <3>4 DEF FoundAs
  <2> QED
    BY <1>7, <2>1, LoadIs
<1> HIDE DEF i, h, k
<1>11. h # "codex" => i \in Seen(x, h, d)
  BY <1>1, <1>2 DEF Seen, Window
<1>12. i \notin Seen(x, h, d) /\ k \in Window(x, h) => sessions[i].wrote <= sessions[k].wrote
  <2> SUFFICES ASSUME i \notin Seen(x, h, d), k \in Window(x, h) PROVE sessions[i].wrote <= sessions[k].wrote
    OBVIOUS
  <2> DEFINE among == Search(x)!Of("codex")
  <2>1. i \in among /\ among \in SUBSET DOMAIN sessions
    BY <1>1, <1>11 DEF Search!Of, Search!All, i, h
  <2>2. i \notin Search(x)!Newest(among, x.opened) /\ k \in Search(x)!Newest(among, x.opened)
    BY <1>2, <1>11 DEF Seen, Window
  <2> HIDE DEF among
  <2>3. ~Search(x)!Newer(i, k)
    BY <1>0, <2>1, <2>2, NewestFacts
  <2> QED
    BY <1>1, <1>7, <1>8, <2>3 DEF Search!Newer
<1>13. i \in Seen(x, h, d) /\ d = e => f.recency <= sessions[k].wrote
  <2> SUFFICES ASSUME i \in Seen(x, h, e), i # k PROVE f.recency <= sessions[k].wrote
    BY <1>1
  <2>1. Leads(x, k, i)
    BY <1>5
  <2>2. CASE h # "aider"
    BY <1>1, <1>7, <1>8, <2>1, <2>2 DEF Leads, Search!Newer
  <2>3. CASE h = "aider"
    <3>1. i < k
      BY <1>7, <2>1, <2>3 DEF Leads
    <3>2. SameStore(i, k) /\ sessions[i].harness = "aider"
      <4>1. \A j \in StoreOf(x, h, e) : sessions[j].harness = "aider" /\ sessions[j].dir = e
        BY <2>3 DEF StoreOf, Search!AiderRuns, Search!Of
      <4> QED
        BY <1>5, <4>1 DEF Seen, SameStore
    <3>3. sessions[i].wrote <= sessions[k].began
      BY <1>1, <1>7, <3>1, <3>2 DEF AgentsInv, SessionsKept
    <3> QED
      BY <1>1, <1>7, <1>8, <3>3
  <2> QED
    BY <2>2, <2>3
<1>14. f.recency <= sessions[k].wrote
  <2>1. k \in Window(x, h)
    BY <1>5 DEF Seen
  <2>2. CASE Len(e) > Len(d)
    BY <1>2, <1>5, <2>2
  <2>3. CASE Len(e) = Len(d)
    BY <1>1, <1>7, <1>8, <1>9, <1>12, <1>13, <2>1, <2>3
  <2>4. CASE Len(e) < Len(d)
    BY <1>1, <1>2, <1>6, <1>7, <1>8, <1>12, <2>1, <2>4
  <2> QED
    BY <1>9, <2>2, <2>3, <2>4
<1> QED
  BY <1>7, <1>10, <1>14 DEF i, h, k

Steps == {"idle", "listed", "opened", "announced", "capture", "imported", "failed"}
RowKept(x, r) ==
  r.session \in DOMAIN sessions /\ r.dir = sessions[r.session].dir /\ r.id = Search(x)!Id(r.session)
Imported(f, got) ==
  /\ f.session \in DOMAIN sessions /\ got \in DOMAIN sessions /\ f.recency \in Nat
  /\ sessions[got].harness = sessions[f.session].harness /\ f.recency <= sessions[got].wrote

\* What a command holds stays what it was shown, or announced.
CommandInv(x) ==
  /\ cmd = [step |-> cmd.step, cwd |-> cmd.cwd, from |-> cmd.from, rows |-> cmd.rows, pick |-> cmd.pick,
            got |-> cmd.got]
  /\ cmd.step \in Steps /\ cmd.got \in 0 .. Len(sessions)
  /\ cmd.step = "listed" => \A r \in cmd.rows : RowKept(x, r)
  /\ cmd.step = "opened" => \A r \in cmd.pick : cmd.got = r.session
  /\ cmd.step = "announced" => /\ cmd.cwd \in x.dirs
                               /\ \A f \in cmd.pick : Announced(x, f, cmd.cwd)
                               /\ \A f, g \in cmd.pick : f = g
  /\ cmd.step = "imported" => \A f \in cmd.pick : Imported(f, cmd.got)
SearchInv(x) == AgentsInv(x) /\ CommandInv(x)

\* A step of a command leaves the sessions as they are.
LEMMA CommandStays ==
  ASSUME NEW x, Search(x)!SearchAssumption, AgentsInv(x), AgentsInv(x)', CommandInv(x), Onward, UNCHANGED cmd
  PROVE  CommandInv(x)'
<1>0. SessionsShape(x) /\ SessionsShape(x)'
  BY DEF AgentsInv
<1>1. \A i \in DOMAIN sessions :
        /\ i \in DOMAIN sessions' /\ sessions'[i].harness = sessions[i].harness
        /\ sessions'[i].dir = sessions[i].dir /\ sessions'[i].began = sessions[i].began
        /\ sessions[i].wrote \in Nat /\ sessions'[i].wrote \in Nat /\ sessions[i].wrote <= sessions'[i].wrote
  <2> TAKE i \in DOMAIN sessions
  <2>1. sessions[i].wrote \in Nat /\ sessions[i].wrote <= clock /\ clock \in Nat
    BY <1>0, SessionsAre
  <2>2. clock' \in Nat /\ clock <= clock'
    BY <1>0 DEF SessionsShape, Onward
  <2> QED
    BY <2>1, <2>2 DEF Onward
<1>2. cmd.got \in 0 .. Len(sessions')
  <2>1. Len(sessions) \in Nat /\ Len(sessions') \in Nat
    BY <1>0 DEF SessionsShape
  <2> QED
    BY <2>1 DEF CommandInv, Onward
<1>3. \A r : RowKept(x, r) => RowKept(x, r)'
  BY <1>1 DEF RowKept, Search!Id
<1>4. \A f, cwd : Announced(x, f, cwd) => Announced(x, f, cwd)'
  BY <1>0, AnnouncedStays
<1>5. \A f, got : Imported(f, got) => Imported(f, got)'
  BY <1>1 DEF Imported
<1>6. cmd.step = "listed" => \A r \in cmd.rows : RowKept(x, r)'
  BY <1>3 DEF CommandInv
<1>7. cmd.step = "announced" => /\ cmd.cwd \in x.dirs
                                /\ \A f \in cmd.pick : Announced(x, f, cmd.cwd)'
                                /\ \A f, g \in cmd.pick : f = g
  BY <1>4 DEF CommandInv
<1>8. cmd.step = "imported" => \A f \in cmd.pick : Imported(f, cmd.got)'
  BY <1>5 DEF CommandInv
<1> QED
  BY <1>2, <1>6, <1>7, <1>8 DEF CommandInv

LEMMA SearchInvNext ==
  ASSUME NEW x, Search(x)!SearchAssumption, SearchInv(x), Search(x)!Next \/ UNCHANGED searchVars
  PROVE  SearchInv(x)'
<1>0. SessionsShape(x) /\ AgentsInv(x) /\ CommandInv(x) /\ x.time \in Nat /\ x.opened \in Nat \ {0}
      /\ x.limit \in Nat \ {0} /\ x.harnesses \subseteq Kinds /\ Search(x)!Froms \subseteq Names
  BY SearchConstants DEF SearchInv, AgentsInv
<1>1. CASE Search(x)!Agents
  <2>1. /\ clock' \in {clock, clock + 1} /\ clock' <= x.time /\ UNCHANGED cmd
        /\ (\E s : Adds(x, s)) \/ \E i : Writes(i)
    BY <1>0, <1>1, AgentsEffect
  <2>2. AgentsInv(x)'
    BY <1>0, <2>1, AgentsInvNext
  <2>3. Onward
    BY <1>0, <2>1, AgentsOnward
  <2> QED
    BY <1>0, <2>1, <2>2, <2>3, CommandStays DEF SearchInv
<1>2. ASSUME UNCHANGED <<clock, sessions>> PROVE AgentsInv(x)'
  BY <1>0, <1>2 DEF AgentsInv, SessionsShape, SessionsKept, SameStore
<1>3. ASSUME UNCHANGED <<clock, sessions>>
      PROVE  /\ \A r : RowKept(x, r)' <=> RowKept(x, r)
             /\ \A f, cwd : Announced(x, f, cwd)' <=> Announced(x, f, cwd)
             /\ \A f, got : Imported(f, got)' <=> Imported(f, got)
  <2>1. \A r : RowKept(x, r)' <=> RowKept(x, r)
    BY <1>3 DEF RowKept, Search!Id
  <2>2. \A f, got : Imported(f, got)' <=> Imported(f, got)
    BY <1>3 DEF Imported
  <2>3. \A f, cwd : Announced(x, f, cwd)' <=> Announced(x, f, cwd)
    BY <1>3 DEF Announced, Seen, Window, StoreOf, Search!Newest, Search!Newer, Search!Of, Search!All, Search!Own,
                Search!ClaudeTranscripts, Search!PiTranscripts, Search!CodexOwn, Search!DshSessions, Search!AiderRuns
  <2> QED
    BY <2>1, <2>2, <2>3
<1>4. CASE UNCHANGED searchVars \/ \E dir \in x.dirs : Search(x)!Record(dir)
  <2>1. UNCHANGED <<clock, sessions, cmd>>
    BY <1>4 DEF searchVars, Search!Record
  <2>2. Onward
    BY <1>0, <2>1, SessionsAre DEF Onward
  <2> QED
    BY <1>0, <1>2, <2>1, <2>2, CommandStays DEF SearchInv
<1>5. ASSUME NEW from \in Search(x)!Froms, NEW cwd \in x.dirs, Search(x)!List(from, cwd)
      PROVE  SearchInv(x)'
  <2>1. UNCHANGED <<clock, sessions>>
    BY <1>5 DEF Search!List
  <2>2. cmd' = [step |-> "listed", cwd |-> cwd, from |-> from,
                rows |-> Search(x)!Recent(from, cwd, Search(x)!NoId), pick |-> cmd.pick, got |-> cmd.got]
    BY <1>0, <1>5 DEF Search!List, CommandInv
  <2>3. ASSUME NEW r \in Search(x)!Recent(from, cwd, Search(x)!NoId) PROVE RowKept(x, r)
    <3>1. Search(x)!Recent(from, cwd, Search(x)!NoId) \subseteq Rows(x, from, cwd, Search(x)!NoId)
      BY <1>0, RecentIs
    <3>2. PICK i \in DOMAIN sessions : r = RowOf(x, i)
      BY <2>3, <3>1 DEF Rows, Reached
    <3> QED
      BY <1>0, <3>2, RowsAre DEF RowKept
  <2>4. cmd.got \in 0 .. Len(sessions')
    BY <1>0, <2>1 DEF CommandInv
  <2> QED
    BY <1>2, <1>3, <2>1, <2>2, <2>3, <2>4 DEF SearchInv, CommandInv, Steps
<1>6. ASSUME NEW from \in Search(x)!Froms, NEW cwd \in x.dirs, Search(x)!Share(from, cwd)
      PROVE  SearchInv(x)'
  <2> DEFINE agent == Search(x)!WalkUp(from, cwd)
  <2>1. UNCHANGED <<clock, sessions>>
    BY <1>6 DEF Search!Share
  <2>2. PICK step, pick : /\ cmd' = [step |-> step, cwd |-> cwd, from |-> from, rows |-> cmd.rows,
                                     pick |-> pick, got |-> cmd.got]
                          /\ step \in {"announced", "capture"} /\ (step = "announced" => pick = agent)
    <3> DEFINE newer == \A c0 \in captures, f \in agent : from # "" \/ f.recency > c0.wrote
               does == agent # {} /\ newer
    <3>1. cmd' = [cmd EXCEPT !.cwd = cwd, !.from = from, !.step = IF does THEN "announced" ELSE "capture",
                    !.pick = IF does THEN agent ELSE captures]
      BY <1>6 DEF Search!Share
    <3> HIDE DEF does, agent
    <3>2. cmd' = [step |-> IF does THEN "announced" ELSE "capture", cwd |-> cwd, from |-> from,
                  rows |-> cmd.rows, pick |-> IF does THEN agent ELSE captures, got |-> cmd.got]
      BY <1>0, <3>1 DEF CommandInv
    <3>3. CASE does
      BY <3>2, <3>3
    <3>4. CASE ~does
      <4>1. cmd' = [step |-> "capture", cwd |-> cwd, from |-> from, rows |-> cmd.rows, pick |-> captures,
                    got |-> cmd.got]
        BY <3>2, <3>4
      <4>2. "capture" \in {"announced", "capture"} /\ "capture" # "announced"
        OBVIOUS
      <4> QED
        BY <4>1, <4>2, Zenon
    <3> QED
      BY <3>3, <3>4
  <2>3. /\ \A f \in agent : Announced(x, f, cwd)
        /\ \A f, g \in agent : f = g
    <3>1. cwd \in Seq(Seq(STRING)) /\ from \in Names
      BY <1>0 DEF Search!SearchAssumption
    <3> QED
      BY <1>0, <3>1, AnnouncedAtFirst, WalkUpFindsOne
  <2>4. cmd.got \in 0 .. Len(sessions')
    BY <1>0, <2>1 DEF CommandInv
  <2> HIDE DEF agent
  <2> QED
    BY <1>2, <1>3, <2>1, <2>2, <2>3, <2>4 DEF SearchInv, CommandInv, Steps
<1>7. ASSUME NEW r \in cmd.rows, Search(x)!Open(r) PROVE SearchInv(x)'
  <2>1. UNCHANGED <<clock, sessions>> /\ cmd.step = "listed"
    BY <1>7 DEF Search!Open
  <2>2. cmd' = [step |-> "opened", cwd |-> cmd.cwd, from |-> cmd.from, rows |-> cmd.rows, pick |-> {r},
                got |-> Search(x)!Load(r)]
    BY <1>0, <1>7 DEF Search!Open, CommandInv
  <2>3. RowKept(x, r)
    BY <1>0, <2>1 DEF CommandInv
  <2>4. Search(x)!Load(r) = r.session
    BY <1>0, <2>3, LoadIs DEF RowKept
  <2>5. r.session \in 0 .. Len(sessions')
    BY <1>0, <2>1, <2>3, SessionsAre DEF RowKept
  <2> QED
    BY <1>2, <2>1, <2>2, <2>4, <2>5 DEF SearchInv, CommandInv, Steps
<1>8. ASSUME Search(x)!ImportNewest PROVE SearchInv(x)'
  <2>1. UNCHANGED <<clock, sessions>> /\ cmd.step = "announced" /\ cmd.cwd \in x.dirs
    BY <1>0, <1>8 DEF Search!ImportNewest, CommandInv
  <2>2. PICK f \in cmd.pick :
          LET again == Search(x)!WalkUp(sessions[f.session].harness, cmd.cwd)
          IN  cmd' = [cmd EXCEPT !.step = IF again = {} THEN "failed" ELSE "imported", !.rows = again,
                        !.got = IF again = {} THEN 0 ELSE Search(x)!Load(CHOOSE y \in again : TRUE)]
    BY <1>8 DEF Search!ImportNewest
  <2> DEFINE again == Search(x)!WalkUp(sessions[f.session].harness, cmd.cwd)
             g == CHOOSE y \in again : TRUE
  <2>3. cmd' = [step |-> IF again = {} THEN "failed" ELSE "imported", cwd |-> cmd.cwd, from |-> cmd.from,
                rows |-> again, pick |-> cmd.pick, got |-> IF again = {} THEN 0 ELSE Search(x)!Load(g)]
    BY <1>0, <2>2 DEF CommandInv
  <2>4. CASE again = {}
    <3>1. cmd' = [step |-> "failed", cwd |-> cmd.cwd, from |-> cmd.from,
                  rows |-> again, pick |-> cmd.pick, got |-> 0]
      BY <2>3, <2>4
    <3>2. 0 \in 0 .. Len(sessions')
      BY <1>0, <2>1, SessionsAre
    <3> HIDE DEF again
    <3> QED
      BY <1>2, <2>1, <3>1, <3>2 DEF SearchInv, CommandInv, Steps
  <2>5. CASE again # {}
    <3>1. cmd' = [step |-> "imported", cwd |-> cmd.cwd, from |-> cmd.from,
                  rows |-> again, pick |-> cmd.pick, got |-> Search(x)!Load(g)]
      BY <2>3, <2>5
    <3> HIDE DEF again
    <3>2. g \in again
      BY <2>5
    <3> HIDE DEF g
    <3>3. /\ g.session \in DOMAIN sessions /\ Search(x)!Load(g) = g.session
          /\ sessions[g.session].harness = sessions[f.session].harness
          /\ f.recency <= sessions[g.session].wrote
      BY <1>0, <2>1, <2>2, <3>2, FoundAgain DEF CommandInv, again
    <3>4. Announced(x, f, cmd.cwd)
      BY <1>0, <2>1 DEF CommandInv
    <3>5. \A e \in cmd.pick : e = f
      BY <1>0, <2>1 DEF CommandInv
    <3>6. Imported(f, g.session)
      BY <3>3, <3>4 DEF Imported, Announced
    <3>7. g.session \in 0 .. Len(sessions')
      BY <1>0, <2>1, <3>3, SessionsAre
    <3> QED
      BY <1>2, <1>3, <2>1, <3>1, <3>3, <3>5, <3>6, <3>7 DEF SearchInv, CommandInv, Steps
  <2> QED
    BY <2>4, <2>5
<1> QED
  BY <1>1, <1>4, <1>5, <1>6, <1>7, <1>8 DEF Search!Next

\* A command that nobody gave holds nothing.
LEMMA SearchInvInit ==
  ASSUME NEW x, Search(x)!SearchAssumption, clock = 1, sessions = <<>>, cmd = Search(x)!Idle
  PROVE  SearchInv(x)
<1>1. x.time \in Nat /\ 1 <= x.time /\ DOMAIN sessions = {} /\ Len(sessions) = 0
  BY DEF Search!SearchAssumption
<1>2. AgentsInv(x)
  BY <1>1 DEF AgentsInv, SessionsShape, SessionsKept
<1>3. /\ cmd = [step |-> cmd.step, cwd |-> cmd.cwd, from |-> cmd.from, rows |-> cmd.rows, pick |-> cmd.pick,
                got |-> cmd.got]
      /\ cmd.step = "idle" /\ cmd.got = 0
  BY DEF Search!Idle
<1>4. cmd.step \in Steps /\ cmd.got \in 0 .. Len(sessions)
  BY <1>1, <1>3 DEF Steps
<1>5. CommandInv(x)
  <2> HIDE DEF Search!Idle
  <2> QED
    BY ZenonT(60), <1>3, <1>4 DEF CommandInv
<1> QED
  BY <1>2, <1>5 DEF SearchInv

\* The invariant gives every value its kind.
LEMMA SearchTypes ==
  ASSUME NEW x, SearchInv(x)
  PROVE  Search(x)!SearchTypeOK
<1>1. SessionsShape(x) /\ CommandInv(x)
  BY DEF SearchInv, AgentsInv
<1>2. ASSUME NEW i \in DOMAIN sessions
      PROVE  /\ sessions[i].harness \in x.harnesses /\ sessions[i].dir \in x.dirs
             /\ sessions[i].parent \in 0 .. (i - 1)
             /\ sessions[i].began <= sessions[i].wrote /\ sessions[i].wrote <= clock
  <2>1. /\ i \in Nat /\ sessions[i] \in Session(x) /\ sessions[i].parent < i
        /\ sessions[i].began <= sessions[i].wrote /\ sessions[i].wrote <= clock
    BY <1>1 DEF SessionsShape
  <2>2. sessions[i].harness \in x.harnesses /\ sessions[i].dir \in x.dirs /\ sessions[i].parent \in Nat
    BY <2>1 DEF Session
  <2> QED
    BY <2>1, <2>2
<1> QED
  BY <1>1, <1>2 DEF SessionsShape, CommandInv, Steps, Search!SearchTypeOK, Search!All

\* import.rs and publish.rs: what is read is what was chosen, or no older than was announced.
LEMMA ChosenHolds ==
  ASSUME NEW x, SearchInv(x) PROVE Search(x)!ChosenIsLoaded /\ Search(x)!SharedNoOlder
<1>1. CommandInv(x)
  BY DEF SearchInv
<1>2. cmd.step = "imported" => \A f \in cmd.pick : Imported(f, cmd.got)
  BY <1>1 DEF CommandInv
<1>3. SessionsShape(x)
  BY DEF SearchInv, AgentsInv
<1>4. \A f, got : Imported(f, got) =>
        sessions[got].harness = sessions[f.session].harness /\ sessions[got].wrote >= f.recency
  BY <1>3, SessionsAre DEF Imported
<1> QED
  BY <1>1, <1>2, <1>4 DEF CommandInv, Search!ChosenIsLoaded, Search!SharedNoOlder

-----------------------------------------------------------------------------
(* The sessions of Hermes Agent.                                           *)

Reasons == {"", "exit", "compression", "branched"}
Roles == {"own", "continued", "branch", "delegate"}
Row(x) ==
  [parent : x.ids \union {Hermes(x)!NoSession}, cwd : BOOLEAN, started : Nat, ended : Nat, reason : Reasons,
   marked : BOOLEAN]

\* A session starts after its parent, no two at once.
HermesShape(x) ==
  /\ now \in 0 .. x.time
  /\ DOMAIN row \subseteq x.ids /\ DOMAIN made = DOMAIN row
  /\ \A s \in DOMAIN row :
       /\ row[s] \in Row(x) /\ made[s] \in Roles
       /\ row[s].started \in 1 .. now /\ row[s].ended <= now
       /\ row[s].parent # Hermes(x)!NoSession =>
            row[s].parent \in DOMAIN row /\ row[row[s].parent].started < row[s].started
  /\ \A s, t \in DOMAIN row : row[s].started = row[t].started => s = t

\* How a session came to be shows in its row and in its parent's.
RowTells(x, s) ==
  LET p == row[s].parent
  IN  /\ made[s] = "own" => p = Hermes(x)!NoSession /\ ~row[s].marked
      /\ made[s] # "own" => p # Hermes(x)!NoSession
      /\ made[s] = "continued" => /\ row[p].reason = "compression" /\ row[p].ended = row[s].started
                                  /\ ~row[s].marked
      /\ made[s] = "branch" => /\ row[s].cwd
                               /\ row[s].marked => x.marks
                               /\ ~row[s].marked => row[p].reason = "branched" /\ row[p].ended = row[s].started
      /\ made[s] = "delegate" => /\ row[s].cwd /\ ~row[s].marked
                                 /\ row[p].ended = Hermes(x)!Live \/ row[s].started < row[p].ended
HermesInv(x) == HermesShape(x) /\ \A s \in DOMAIN row : RowTells(x, s)

\* A step adds a session, ends one, or both.
Entered(x, t, how) ==
  /\ t \in x.ids \ DOMAIN row /\ how \in Roles
  /\ DOMAIN row' = DOMAIN row \union {t} /\ DOMAIN made' = DOMAIN row \union {t}
  /\ row'[t] \in Row(x) /\ row'[t].started = now + 1 /\ row'[t].ended = Hermes(x)!Live
  /\ made'[t] = how /\ \A s \in DOMAIN row : made'[s] = made[s]
  /\ row'[t].parent \in DOMAIN row \union {Hermes(x)!NoSession}
Closed(x, s, reason) ==
  /\ s \in DOMAIN row /\ row[s].ended = Hermes(x)!Live /\ reason \in Reasons
  /\ row'[s] = [row[s] EXCEPT !.ended = now + 1, !.reason = reason]
Others(s) == \A u \in DOMAIN row : u # s => row'[u] = row[u]

\* What a step of Hermes does to the rows.
Started(x) ==
  \E t, how : /\ Entered(x, t, how) /\ \A u \in DOMAIN row : row'[u] = row[u]
              /\ \/ how = "own" /\ row'[t].parent = Hermes(x)!NoSession /\ ~row'[t].marked
                 \/ /\ how = "branch" /\ row'[t].parent \in DOMAIN row
                    /\ row'[t].cwd /\ row'[t].marked /\ x.marks
                 \/ /\ how = "delegate" /\ row'[t].parent \in DOMAIN row
                    /\ row'[t].cwd /\ ~row'[t].marked /\ row[row'[t].parent].ended = Hermes(x)!Live
Ended(x) == \E s : Closed(x, s, "exit") /\ Others(s) /\ DOMAIN row' = DOMAIN row /\ made' = made
WentOn(x) ==
  \E s, t, how, reason :
    /\ Entered(x, t, how) /\ Closed(x, s, reason) /\ Others(s) /\ row'[t].parent = s /\ ~row'[t].marked
    /\ \/ how = "continued" /\ reason = "compression"
       \/ how = "branch" /\ reason = "branched" /\ row'[t].cwd

LEMMA HermesConstants ==
  ASSUME NEW x, Hermes(x)!SessionsAssumption
  PROVE  /\ Hermes(x)!NoSession \notin x.ids /\ IsFiniteSet(x.ids) /\ x.time \in Nat /\ x.depth \in Nat
         /\ x.marks \in BOOLEAN
<1>1. \A S : Hermes(x)!IsFiniteSet(S) <=> IsFiniteSet(S)
  BY DEF Hermes!IsFiniteSet, IsFiniteSet
<1> QED
  BY <1>1 DEF Hermes!SessionsAssumption

LEMMA RowHas ==
  ASSUME NEW x, NEW p \in x.ids \union {Hermes(x)!NoSession}, NEW cwd \in BOOLEAN, NEW n \in Nat, NEW m \in Nat,
         NEW why \in Reasons, NEW mark \in BOOLEAN
  PROVE  [parent |-> p, cwd |-> cwd, started |-> n, ended |-> m, reason |-> why, marked |-> mark] \in Row(x)
  BY DEF Row

LEMMA NewIs ==
  ASSUME NEW x, HermesShape(x), NEW p \in DOMAIN row \union {Hermes(x)!NoSession},
         NEW cwd \in BOOLEAN, NEW mark \in BOOLEAN
  PROVE  \E r \in Row(x) :
           /\ r = Hermes(x)!New(p, cwd, mark) /\ r.parent = p /\ r.cwd = cwd /\ r.marked = mark
           /\ r.started = now + 1 /\ r.ended = Hermes(x)!Live
<1>1. now \in Nat /\ p \in x.ids \union {Hermes(x)!NoSession}
  BY DEF HermesShape
<1>2. PICK n : n = now + 1
  OBVIOUS
<1>3. n \in Nat /\ 0 \in Nat
  BY <1>1, <1>2
<1>4. "" \in Reasons
  BY DEF Reasons
<1> DEFINE r == [parent |-> p, cwd |-> cwd, started |-> n, ended |-> 0, reason |-> "", marked |-> mark]
<1>5. r = Hermes(x)!New(p, cwd, mark)
  BY <1>2, Zenon DEF Hermes!New, Hermes!Live
<1>6. r \in Row(x)
  BY <1>1, <1>3, <1>4, RowHas
<1>7. r.parent = p /\ r.cwd = cwd /\ r.marked = mark /\ r.started = n /\ r.ended = 0
  OBVIOUS
<1> HIDE DEF r
<1> QED
  BY <1>2, <1>5, <1>6, <1>7, Zenon DEF Hermes!Live

LEMMA EnteredIs ==
  ASSUME NEW x, HermesShape(x), NEW t \in x.ids, t \notin DOMAIN row, NEW how \in Roles,
         NEW p \in DOMAIN row \union {Hermes(x)!NoSession}, NEW r \in Row(x), r.parent = p,
         r.started = now + 1, r.ended = Hermes(x)!Live,
         DOMAIN row' = DOMAIN row \union {t}, row'[t] = r, made' = Hermes(x)!Called(t, how)
  PROVE  Entered(x, t, how)
<1>1. /\ DOMAIN made' = DOMAIN row \union {t} /\ made'[t] = how
      /\ \A u \in DOMAIN row : made'[u] = made[u]
  <2> PICK called : called = Hermes(x)!Called(t, how)
    OBVIOUS
  <2>1. DOMAIN called = DOMAIN row \union {t} /\ called[t] = how /\ \A u \in DOMAIN row : called[u] = made[u]
    BY DEF Hermes!Called, Hermes!Known
  <2> QED
    BY <2>1
<1> QED
  BY <1>1 DEF Entered

\* A session begun beside the others.
LEMMA PutEnters ==
  ASSUME NEW x, HermesShape(x), NEW t \in x.ids, t \notin DOMAIN row, NEW how \in Roles,
         NEW p \in DOMAIN row \union {Hermes(x)!NoSession}, NEW cwd \in BOOLEAN, NEW mark \in BOOLEAN,
         row' = Hermes(x)!Put(t, Hermes(x)!New(p, cwd, mark)), made' = Hermes(x)!Called(t, how)
  PROVE  /\ Entered(x, t, how) /\ \A u \in DOMAIN row : row'[u] = row[u]
         /\ row'[t].parent = p /\ row'[t].cwd = cwd /\ row'[t].marked = mark
<1>1. PICK r \in Row(x) :
        /\ r = Hermes(x)!New(p, cwd, mark) /\ r.parent = p /\ r.cwd = cwd /\ r.marked = mark
        /\ r.started = now + 1 /\ r.ended = Hermes(x)!Live
  <2>1. now \in Nat
    BY DEF HermesShape
  <2> QED
    BY <2>1, NewIs
<1> PICK put : put = Hermes(x)!Put(t, r)
  OBVIOUS
<1>2. DOMAIN put = DOMAIN row \union {t} /\ put[t] = r /\ \A u \in DOMAIN row : put[u] = row[u]
  BY DEF Hermes!Put, Hermes!Known
<1>3. row' = put
  BY <1>1
<1>4. Entered(x, t, how)
  BY <1>1, <1>2, <1>3, EnteredIs
<1> QED
  BY <1>1, <1>2, <1>3, <1>4

\* A session that ends as another takes its work on.
LEMMA PutGoesOn ==
  ASSUME NEW x, HermesShape(x), NEW s \in DOMAIN row, NEW t \in x.ids, t \notin DOMAIN row,
         row[s].ended = Hermes(x)!Live, NEW how \in Roles, NEW reason \in Reasons, NEW cwd \in BOOLEAN,
         row' = [Hermes(x)!Put(t, Hermes(x)!New(s, cwd, FALSE)) EXCEPT
                   ![s].ended = now + 1, ![s].reason = reason],
         made' = Hermes(x)!Called(t, how)
  PROVE  /\ Entered(x, t, how) /\ Closed(x, s, reason) /\ Others(s)
         /\ row'[t].parent = s /\ row'[t].cwd = cwd /\ ~row'[t].marked
<1>0. PICK no \in BOOLEAN : no = FALSE
  OBVIOUS
<1>a. PICK r \in Row(x) :
        /\ r = Hermes(x)!New(s, cwd, no) /\ r.parent = s /\ r.cwd = cwd /\ r.marked = no
        /\ r.started = now + 1 /\ r.ended = Hermes(x)!Live
  <2>1. now \in Nat /\ s \in DOMAIN row \union {Hermes(x)!NoSession}
    BY DEF HermesShape
  <2> QED
    BY <2>1, NewIs
<1>1. /\ r = Hermes(x)!New(s, cwd, FALSE) /\ r.parent = s /\ r.cwd = cwd /\ ~r.marked
      /\ r.started = now + 1 /\ r.ended = Hermes(x)!Live
  BY <1>0, <1>a, Zenon
<1> PICK put : put = Hermes(x)!Put(t, r)
  OBVIOUS
<1>2. DOMAIN put = DOMAIN row \union {t} /\ put[t] = r /\ \A u \in DOMAIN row : put[u] = row[u]
  BY DEF Hermes!Put, Hermes!Known
<1>3. row' = [put EXCEPT ![s].ended = now + 1, ![s].reason = reason]
  BY <1>1
<1>4. row' = [put EXCEPT ![s] = [put[s] EXCEPT !.ended = now + 1, !.reason = reason]]
  BY <1>2, <1>3
<1>5. /\ DOMAIN row' = DOMAIN row \union {t} /\ row'[t] = r
      /\ row'[s] = [row[s] EXCEPT !.ended = now + 1, !.reason = reason]
      /\ \A u \in DOMAIN row : u # s => row'[u] = row[u]
  BY <1>2, <1>4
<1>6. Entered(x, t, how)
  BY <1>1, <1>5, EnteredIs
<1>7. Closed(x, s, reason) /\ Others(s)
  BY <1>5 DEF Closed, Others
<1> QED
  BY <1>1, <1>5, <1>6, <1>7

LEMMA HermesEffect ==
  ASSUME NEW x, Hermes(x)!SessionsAssumption, HermesInv(x), Hermes(x)!Next
  PROVE  now' = now + 1 /\ now' \in 0 .. x.time /\ (Started(x) \/ Ended(x) \/ WentOn(x))
<1>0. HermesShape(x) /\ now \in Nat /\ x.time \in Nat
  BY HermesConstants DEF HermesInv, HermesShape
<1>1. ASSUME Hermes(x)!Tick PROVE now' = now + 1 /\ now' \in 0 .. x.time
  BY <1>0, <1>1 DEF Hermes!Tick
<1>r. {"own", "continued", "branch", "delegate"} \subseteq Roles /\ {"exit", "compression", "branched"} \subseteq Reasons
  BY DEF Roles, Reasons
<1>2. ASSUME NEW s \in x.ids, Hermes(x)!Begin(s) PROVE Hermes(x)!Tick /\ Started(x)
  <2>1. /\ s \notin DOMAIN row /\ Hermes(x)!Tick
        /\ row' = Hermes(x)!Put(s, Hermes(x)!New(Hermes(x)!NoSession, TRUE, FALSE))
        /\ made' = Hermes(x)!Called(s, "own")
    BY <1>2 DEF Hermes!Begin, Hermes!Known
  <2>2. /\ Entered(x, s, "own") /\ \A u \in DOMAIN row : row'[u] = row[u]
        /\ row'[s].parent = Hermes(x)!NoSession /\ row'[s].marked = FALSE
    BY <1>0, <1>r, <2>1, PutEnters
  <2> QED
    BY <2>1, <2>2 DEF Started
<1>3. ASSUME NEW s \in x.ids, Hermes(x)!End(s) PROVE Hermes(x)!Tick /\ Ended(x)
  <2>1. /\ s \in DOMAIN row /\ row[s].ended = Hermes(x)!Live /\ made' = made /\ Hermes(x)!Tick
        /\ row' = [row EXCEPT ![s] = [row[s] EXCEPT !.ended = now + 1, !.reason = "exit"]]
    BY <1>3 DEF Hermes!End, Hermes!Known
  <2>2. Closed(x, s, "exit") /\ Others(s) /\ DOMAIN row' = DOMAIN row
    BY <2>1 DEF Closed, Others, Reasons
  <2> QED
    BY <2>1, <2>2 DEF Ended
<1>4. ASSUME NEW s \in x.ids, NEW t \in x.ids, Hermes(x)!Compress(s, t) PROVE Hermes(x)!Tick /\ WentOn(x)
  <2>1. PICK cwd \in {row[s].cwd, FALSE} :
          /\ s \in DOMAIN row /\ t \notin DOMAIN row /\ row[s].ended = Hermes(x)!Live
          /\ Hermes(x)!Tick /\ made' = Hermes(x)!Called(t, "continued")
          /\ row' = [Hermes(x)!Put(t, Hermes(x)!New(s, cwd, FALSE)) EXCEPT
                       ![s].ended = now + 1, ![s].reason = "compression"]
    BY <1>4 DEF Hermes!Compress, Hermes!Known
  <2>2. cwd \in BOOLEAN
    BY <1>0, <2>1 DEF HermesShape, Row
  <2>3. /\ Entered(x, t, "continued") /\ Closed(x, s, "compression") /\ Others(s)
        /\ row'[t].parent = s /\ ~row'[t].marked
    BY <1>0, <1>r, <2>1, <2>2, PutGoesOn
  <2> QED
    BY <2>1, <2>3 DEF WentOn
<1>5. ASSUME NEW s \in x.ids, NEW t \in x.ids, Hermes(x)!Branch(s, t) PROVE Hermes(x)!Tick /\ WentOn(x)
  <2>1. /\ s \in DOMAIN row /\ t \notin DOMAIN row /\ row[s].ended = Hermes(x)!Live
        /\ Hermes(x)!Tick /\ made' = Hermes(x)!Called(t, "branch")
        /\ row' = [Hermes(x)!Put(t, Hermes(x)!New(s, TRUE, FALSE)) EXCEPT
                     ![s].ended = now + 1, ![s].reason = "branched"]
    BY <1>5 DEF Hermes!Branch, Hermes!Known
  <2>3. /\ Entered(x, t, "branch") /\ Closed(x, s, "branched") /\ Others(s)
        /\ row'[t].parent = s /\ row'[t].cwd = TRUE /\ ~row'[t].marked
    BY <1>0, <1>r, <2>1, PutGoesOn
  <2> QED
    BY <2>1, <2>3 DEF WentOn
<1>6. ASSUME NEW s \in x.ids, NEW t \in x.ids, Hermes(x)!MarkedBranch(s, t)
      PROVE  Hermes(x)!Tick /\ Started(x)
  <2>1. /\ s \in DOMAIN row /\ t \notin DOMAIN row /\ x.marks
        /\ Hermes(x)!Tick /\ made' = Hermes(x)!Called(t, "branch")
        /\ row' = Hermes(x)!Put(t, Hermes(x)!New(s, TRUE, TRUE))
    BY <1>6 DEF Hermes!MarkedBranch, Hermes!Known
  <2>2. /\ Entered(x, t, "branch") /\ \A u \in DOMAIN row : row'[u] = row[u]
        /\ row'[t].parent = s /\ row'[t].cwd = TRUE /\ row'[t].marked = TRUE
    BY <1>0, <1>r, <2>1, PutEnters
  <2> QED
    BY <2>1, <2>2 DEF Started
<1>7. ASSUME NEW s \in x.ids, NEW t \in x.ids, Hermes(x)!Delegate(s, t) PROVE Hermes(x)!Tick /\ Started(x)
  <2>1. /\ s \in DOMAIN row /\ t \notin DOMAIN row /\ row[s].ended = Hermes(x)!Live
        /\ Hermes(x)!Tick /\ made' = Hermes(x)!Called(t, "delegate")
        /\ row' = Hermes(x)!Put(t, Hermes(x)!New(s, TRUE, FALSE))
    BY <1>7 DEF Hermes!Delegate, Hermes!Known
  <2>2. /\ Entered(x, t, "delegate") /\ \A u \in DOMAIN row : row'[u] = row[u]
        /\ row'[t].parent = s /\ row'[t].cwd = TRUE /\ row'[t].marked = FALSE
    BY <1>0, <1>r, <2>1, PutEnters
  <2> QED
    BY <2>1, <2>2 DEF Started
<1> QED
  BY <1>1, <1>2, <1>3, <1>4, <1>5, <1>6, <1>7 DEF Hermes!Next

\* What every step leaves as it was, and what it adds.
Kept(x, u) ==
  /\ u \in DOMAIN row' /\ row'[u] \in Row(x) /\ made'[u] = made[u]
  /\ row'[u].parent = row[u].parent /\ row'[u].started = row[u].started
  /\ row'[u].cwd = row[u].cwd /\ row'[u].marked = row[u].marked
  /\ \/ row'[u] = row[u]
     \/ row[u].ended = Hermes(x)!Live /\ row'[u].ended = now + 1
Added(x, u) ==
  /\ u \in x.ids /\ row'[u] \in Row(x) /\ made'[u] \in Roles
  /\ row'[u].started = now + 1 /\ row'[u].ended = Hermes(x)!Live
  /\ row'[u].parent \in DOMAIN row \union {Hermes(x)!NoSession}
Grown(x) ==
  /\ DOMAIN made' = DOMAIN row' /\ \A u \in DOMAIN row : Kept(x, u)
  /\ \A u \in DOMAIN row' \ DOMAIN row : Added(x, u) /\ RowTells(x, u)'
  /\ \A u, v \in DOMAIN row' \ DOMAIN row : u = v

LEMMA ClosedKept ==
  ASSUME NEW x, HermesShape(x), NEW s, NEW reason, Closed(x, s, reason), s \in DOMAIN row', made'[s] = made[s]
  PROVE  Kept(x, s)
<1>1. s \in DOMAIN row /\ row[s] \in Row(x) /\ now \in Nat /\ reason \in Reasons /\ row[s].ended = Hermes(x)!Live
      /\ row'[s] = [row[s] EXCEPT !.ended = now + 1, !.reason = reason]
  BY DEF HermesShape, Closed
<1>2. row'[s] \in Row(x)
  <2>1. PICK n \in Nat : n = now + 1
    BY <1>1
  <2>2. PICK q \in Row(x) : q = row[s]
    BY <1>1
  <2>3. [q EXCEPT !.ended = n, !.reason = reason] \in Row(x)
    BY <1>1 DEF Row
  <2>4. row'[s] = [q EXCEPT !.ended = n, !.reason = reason]
    BY <1>1, <2>1, <2>2
  <2> QED
    BY <2>3, <2>4
<1>3. /\ row'[s].parent = row[s].parent /\ row'[s].started = row[s].started
      /\ row'[s].cwd = row[s].cwd /\ row'[s].marked = row[s].marked /\ row'[s].ended = now + 1
  BY <1>1 DEF Row
<1> QED
  BY <1>1, <1>2, <1>3 DEF Kept

LEMMA SameKept ==
  ASSUME NEW x, HermesShape(x), NEW u \in DOMAIN row, row'[u] = row[u], u \in DOMAIN row', made'[u] = made[u]
  PROVE  Kept(x, u)
<1>1. row'[u] \in Row(x)
  BY DEF HermesShape
<1>2. /\ row'[u].parent = row[u].parent /\ row'[u].started = row[u].started
      /\ row'[u].cwd = row[u].cwd /\ row'[u].marked = row[u].marked
  OBVIOUS
<1> QED
  BY <1>1, <1>2, Zenon DEF Kept

LEMMA EnteredAdded ==
  ASSUME NEW x, NEW t, NEW how, Entered(x, t, how)
  PROVE  /\ Added(x, t) /\ DOMAIN made' = DOMAIN row' /\ made'[t] = how /\ t \notin DOMAIN row
         /\ DOMAIN row' = DOMAIN row \union {t} /\ row'[t].started = now + 1
         /\ \A u \in DOMAIN row : made'[u] = made[u]
  BY DEF Entered, Added

LEMMA HermesGrows ==
  ASSUME NEW x, Hermes(x)!SessionsAssumption, HermesInv(x), Hermes(x)!Next
  PROVE  Grown(x)
<1>0. HermesShape(x) /\ (Started(x) \/ Ended(x) \/ WentOn(x)) /\ now \in Nat
      /\ Hermes(x)!NoSession \notin DOMAIN row
  BY HermesEffect, HermesConstants DEF HermesInv, HermesShape
<1>1. CASE Started(x)
  <2>1. PICK t, how : /\ Entered(x, t, how) /\ \A u \in DOMAIN row : row'[u] = row[u]
                      /\ \/ how = "own" /\ row'[t].parent = Hermes(x)!NoSession /\ ~row'[t].marked
                         \/ /\ how = "branch" /\ row'[t].parent \in DOMAIN row
                            /\ row'[t].cwd /\ row'[t].marked /\ x.marks
                         \/ /\ how = "delegate" /\ row'[t].parent \in DOMAIN row
                            /\ row'[t].cwd /\ ~row'[t].marked /\ row[row'[t].parent].ended = Hermes(x)!Live
    BY <1>1 DEF Started
  <2>2. /\ Added(x, t) /\ DOMAIN made' = DOMAIN row' /\ made'[t] = how /\ t \notin DOMAIN row
        /\ DOMAIN row' = DOMAIN row \union {t}
        /\ \A u \in DOMAIN row : made'[u] = made[u]
    BY <2>1, EnteredAdded
  <2>3. \A u \in DOMAIN row : Kept(x, u)
    BY <1>0, <2>1, <2>2, SameKept
  <2>4. RowTells(x, t)'
    <3> DEFINE p == row'[t].parent
    <3>1. p \in DOMAIN row => p # Hermes(x)!NoSession /\ row'[p] = row[p]
      BY <1>0, <2>1
    <3>2. CASE how = "own" /\ row'[t].parent = Hermes(x)!NoSession /\ ~row'[t].marked
      BY <2>2, <3>2 DEF RowTells, Hermes!NoSession
    <3>3. CASE how = "branch" /\ row'[t].parent \in DOMAIN row /\ row'[t].cwd /\ row'[t].marked /\ x.marks
      BY <2>2, <3>1, <3>3 DEF RowTells, Hermes!NoSession
    <3>4. CASE /\ how = "delegate" /\ row'[t].parent \in DOMAIN row
               /\ row'[t].cwd /\ ~row'[t].marked /\ row[row'[t].parent].ended = Hermes(x)!Live
      BY <2>2, <3>1, <3>4 DEF RowTells, Hermes!NoSession, Hermes!Live
    <3> QED
      BY <2>1, <3>2, <3>3, <3>4
  <2> QED
    BY <2>2, <2>3, <2>4 DEF Grown
<1>2. CASE Ended(x)
  <2>1. PICK s : Closed(x, s, "exit") /\ Others(s) /\ DOMAIN row' = DOMAIN row /\ made' = made
    BY <1>2 DEF Ended
  <2>2. s \in DOMAIN row /\ Kept(x, s)
    BY <1>0, <2>1, ClosedKept DEF Closed
  <2>3. ASSUME NEW u \in DOMAIN row, u # s PROVE Kept(x, u)
    BY <1>0, <2>1, <2>3, SameKept DEF Others
  <2> QED
    BY <1>0, <2>1, <2>2, <2>3 DEF Grown, HermesShape
<1>3. CASE WentOn(x)
  <2>1. PICK s, t, how, reason :
          /\ Entered(x, t, how) /\ Closed(x, s, reason) /\ Others(s) /\ row'[t].parent = s /\ ~row'[t].marked
          /\ \/ how = "continued" /\ reason = "compression"
             \/ how = "branch" /\ reason = "branched" /\ row'[t].cwd
    BY <1>3 DEF WentOn
  <2>2. /\ Added(x, t) /\ DOMAIN made' = DOMAIN row' /\ made'[t] = how /\ t \notin DOMAIN row
        /\ DOMAIN row' = DOMAIN row \union {t} /\ row'[t].started = now + 1
        /\ \A u \in DOMAIN row : made'[u] = made[u]
    BY <2>1, EnteredAdded
  <2>3. s \in DOMAIN row /\ Kept(x, s)
    BY <1>0, <2>1, <2>2, ClosedKept DEF Closed
  <2>4. ASSUME NEW u \in DOMAIN row, u # s PROVE Kept(x, u)
    BY <1>0, <2>1, <2>2, <2>4, SameKept DEF Others
  <2>5. row'[s].reason = reason /\ row'[s].ended = now + 1
    BY <1>0, <2>1 DEF Closed, HermesShape, Row
  <2>6. s # Hermes(x)!NoSession /\ row'[s].ended = row'[t].started
    BY <1>0, <2>2, <2>3, <2>5
  <2>7. CASE how = "continued" /\ reason = "compression"
    <3>1. RowTells(x, t)'
      BY <2>1, <2>2, <2>5, <2>6, <2>7 DEF RowTells, Hermes!NoSession
    <3> QED
      BY <2>2, <2>3, <2>4, <3>1 DEF Grown
  <2>8. CASE how = "branch" /\ reason = "branched" /\ row'[t].cwd
    <3>1. RowTells(x, t)'
      BY <2>1, <2>2, <2>5, <2>6, <2>8 DEF RowTells, Hermes!NoSession
    <3> QED
      BY <2>2, <2>3, <2>4, <3>1 DEF Grown
  <2> QED
    BY <2>1, <2>7, <2>8
<1> QED
  BY <1>0, <1>1, <1>2, <1>3

\* How a session came to be still shows: only a session that has not ended ends.
LEMMA StillTells ==
  ASSUME NEW x, HermesInv(x), NEW u \in DOMAIN row, Grown(x)
  PROVE  RowTells(x, u)'
<1> DEFINE p == row[u].parent
<1>1. /\ HermesShape(x) /\ RowTells(x, u) /\ Kept(x, u) /\ now \in Nat
      /\ row[u].started \in 1 .. now /\ row'[u].parent = p /\ row'[u].started = row[u].started
      /\ made'[u] = made[u] /\ row'[u].cwd = row[u].cwd /\ row'[u].marked = row[u].marked
      /\ p # Hermes(x)!NoSession => p \in DOMAIN row
  BY DEF HermesInv, Grown, Kept, HermesShape
<1>2. p # Hermes(x)!NoSession =>
        /\ \/ row'[p] = row[p]
           \/ row[p].ended = Hermes(x)!Live /\ row'[p].ended = now + 1
        /\ row[p].ended = row[u].started => row'[p] = row[p]
  <2>1. Hermes(x)!Live # row[u].started
    BY <1>1 DEF Hermes!Live
  <2> QED
    BY <1>1, <2>1 DEF Grown, Kept
<1>3. CASE made[u] = "own"
  BY <1>1, <1>3 DEF RowTells, Hermes!NoSession
<1>4. CASE made[u] = "continued"
  BY <1>1, <1>2, <1>4 DEF RowTells, Hermes!NoSession
<1>5. CASE made[u] = "branch"
  BY <1>1, <1>2, <1>5 DEF RowTells, Hermes!NoSession
<1>6. CASE made[u] = "delegate"
  <2>1. row[u].started < now + 1
    BY <1>1
  <2> QED
    BY <1>1, <1>2, <1>6, <2>1 DEF RowTells, Hermes!NoSession, Hermes!Live
<1>7. made[u] \in Roles
  BY <1>1 DEF HermesShape
<1> QED
  BY <1>3, <1>4, <1>5, <1>6, <1>7 DEF Roles

LEMMA HermesInvNext ==
  ASSUME NEW x, Hermes(x)!SessionsAssumption, HermesInv(x), Hermes(x)!Next \/ UNCHANGED hermesVars
  PROVE  HermesInv(x)'
<1>1. CASE UNCHANGED hermesVars
  BY <1>1 DEF hermesVars, HermesInv, HermesShape, RowTells, Hermes!NoSession, Hermes!Live, Row
<1>2. CASE Hermes(x)!Next
  <2>1. Grown(x) /\ HermesShape(x) /\ now \in Nat /\ now' = now + 1 /\ now' \in 0 .. x.time
    BY <1>2, HermesGrows, HermesEffect DEF HermesInv, HermesShape
  <2>2. /\ DOMAIN made' = DOMAIN row' /\ DOMAIN row' \subseteq x.ids
        /\ \A u \in DOMAIN row : Kept(x, u) /\ row[u].started \in 1 .. now
        /\ \A u \in DOMAIN row' \ DOMAIN row : Added(x, u)
    BY <2>1 DEF Grown, Added, HermesShape
  <2>3. ASSUME NEW s \in DOMAIN row'
        PROVE  /\ row'[s] \in Row(x) /\ made'[s] \in Roles
               /\ row'[s].started \in 1 .. now' /\ row'[s].ended <= now'
               /\ row'[s].parent # Hermes(x)!NoSession =>
                     row'[s].parent \in DOMAIN row' /\ row'[row'[s].parent].started < row'[s].started
    <3>1. CASE s \in DOMAIN row
      <4>1. /\ row[s] \in Row(x) /\ made[s] \in Roles
            /\ row[s].started \in 1 .. now /\ row[s].ended <= now
            /\ row[s].parent # Hermes(x)!NoSession =>
                 row[s].parent \in DOMAIN row /\ row[row[s].parent].started < row[s].started
        BY <2>1, <3>1 DEF HermesShape
      <4>2. row[s].ended \in Nat
        BY <4>1 DEF Row
      <4>3. Kept(x, s) /\ (row[s].parent \in DOMAIN row => Kept(x, row[s].parent))
        BY <2>2, <3>1
      <4> QED
        BY <2>1, <4>1, <4>2, <4>3 DEF Kept
    <3>2. CASE s \notin DOMAIN row
      <4>1. Added(x, s)
        BY <2>2, <3>2
      <4>2. row'[s].parent # Hermes(x)!NoSession =>
              Kept(x, row'[s].parent) /\ row[row'[s].parent].started \in 1 .. now
        BY <2>2, <4>1 DEF Added
      <4> QED
        BY <2>1, <4>1, <4>2 DEF Added, Kept, Hermes!Live
    <3> QED
      BY <3>1, <3>2
  <2>4. ASSUME NEW s \in DOMAIN row', NEW t \in DOMAIN row', row'[s].started = row'[t].started PROVE s = t
    <3>1. \A u \in DOMAIN row' : u \in DOMAIN row <=> row'[u].started # now + 1
      BY <2>1, <2>2 DEF Kept, Added
    <3>2. CASE s \in DOMAIN row /\ t \in DOMAIN row
      BY <2>1, <2>2, <2>4, <3>2 DEF Kept, HermesShape
    <3>3. CASE s \notin DOMAIN row /\ t \notin DOMAIN row
      BY <2>1, <3>3 DEF Grown
    <3> QED
      BY <2>4, <3>1, <3>2, <3>3
  <2>5. HermesShape(x)'
    BY <2>1, <2>2, <2>3, <2>4 DEF HermesShape, Hermes!NoSession, Row
  <2>6. \A s \in DOMAIN row' : RowTells(x, s)'
    BY <2>1, StillTells DEF Grown
  <2> QED
    BY <2>5, <2>6 DEF HermesInv
<1> QED
  BY <1>1, <1>2

LEMMA HermesInvInit ==
  ASSUME NEW x, Hermes(x)!SessionsAssumption, row = <<>>, made = <<>>, now = 0
  PROVE  HermesInv(x)
<1>1. DOMAIN row = {} /\ DOMAIN made = {} /\ 0 \in 0 .. x.time
  BY HermesConstants
<1> QED
  BY <1>1 DEF HermesInv, HermesShape

LEMMA HermesTypes ==
  ASSUME NEW x, HermesInv(x)
  PROVE  Hermes(x)!SessionsTypeOK
<1>1. now \in Nat /\ now <= x.time /\ \A s \in DOMAIN row : row[s].started <= now
  BY DEF HermesInv, HermesShape
<1> QED
  BY <1>1 DEF HermesInv, HermesShape, Hermes!SessionsTypeOK, Hermes!Known

\* A sub-agent's row never looks like a person's session, a continuation or a branch.
LEMMA DelegatesAreNotListed ==
  ASSUME NEW x, HermesInv(x), NEW s \in DOMAIN row, made[s] = "delegate"
  PROVE  /\ row[s].parent \in DOMAIN row /\ ~row[s].marked /\ row[s].cwd
         /\ s \in Hermes(x)!Nests(row[s].parent)
         /\ \A reasons : ~Hermes(x)!After(s, reasons)
<1> DEFINE p == row[s].parent
<1>1. /\ RowTells(x, s) /\ row[s].started \in Nat /\ row[s].parent # Hermes(x)!NoSession
      /\ p \in DOMAIN row /\ row[p] \in Row(x)
  BY DEF HermesInv, HermesShape, RowTells
<1>2. row[p].ended \in Nat
  BY <1>1 DEF Row
<1>3. ~row[s].marked /\ row[s].cwd /\ (row[p].ended = Hermes(x)!Live \/ row[s].started < row[p].ended)
  BY <1>1 DEF RowTells
<1>4. s \in Hermes(x)!Nests(p)
  BY <1>1, <1>3 DEF Hermes!Nests, Hermes!Known
<1>5. ASSUME NEW reasons, Hermes(x)!After(s, reasons) PROVE FALSE
  BY <1>1, <1>2, <1>3, <1>5 DEF Hermes!After, Hermes!Live
<1> QED
  BY <1>1, <1>3, <1>4, <1>5

LEMMA ListsThePersonsHolds ==
  ASSUME NEW x, Hermes(x)!SessionsAssumption, HermesInv(x)
  PROVE  Hermes(x)!ListsThePersons
<1>1. ASSUME NEW s \in DOMAIN row, s \in Hermes(x)!Listed, made[s] = "delegate" PROVE FALSE
  <2>1. row[s].parent \in DOMAIN row /\ ~row[s].marked /\ \A reasons : ~Hermes(x)!After(s, reasons)
    BY <1>1, DelegatesAreNotListed
  <2>2. row[s].parent # Hermes(x)!NoSession
    BY <2>1, HermesConstants DEF HermesInv, HermesShape
  <2> QED
    BY <1>1, <2>1, <2>2 DEF Hermes!Listed
<1> QED
  BY <1>1 DEF Hermes!ListsThePersons, Hermes!Known

\* What an import nests, depth by depth.
Layers(x, s, within) ==
  /\ within[0] = {s}
  /\ \A d \in 0 .. x.depth : d + 1 <= x.depth =>
       within[d + 1] = within[d] \union UNION {Hermes(x)!Nests(u) : u \in within[d]}
LEMMA LoadedIs ==
  ASSUME NEW x, x.depth \in Nat, NEW s \in DOMAIN row
  PROVE  \E within \in [0 .. x.depth -> SUBSET DOMAIN row] :
           Hermes(x)!Loaded(s) = within[x.depth] /\ Layers(x, s, within)
<1> DEFINE All == SUBSET DOMAIN row
           wider(Y) == Y \union UNION {Hermes(x)!Nests(t) : t \in Y}
           step == [d \in Nat |-> [Y \in All |-> wider(Y)]]
           Eq(f) == f = [d \in 0 .. x.depth |->
                           IF d = 0 THEN {s} ELSE f[d - 1] \union UNION {Hermes(x)!Nests(t) : t \in f[d - 1]}]
<1>1. {s} \in All /\ \A Y \in All : wider(Y) \in All
  BY DEF Hermes!Nests, Hermes!Known
<1>2. step \in StepsOn(All)
  BY <1>1 DEF StepsOn
<1>3. PICK f \in [Nat -> All] : f[0] = {s} /\ \A n \in Nat : f[n + 1] = step[n][f[n]]
  <2> DEFINE base == {s}
  <2>1. base \in All
    BY <1>1
  <2> HIDE DEF step, All, base
  <2>2. Iterated(All, base, step) # {}
    BY <1>2, <2>1, Iterates
  <2> QED
    BY <2>2 DEF base, Iterated
<1>4. \A n \in Nat : f[n] \in All /\ f[n + 1] = wider(f[n])
  BY <1>3
<1> DEFINE g == [d \in 0 .. x.depth |-> f[d]]
<1>5. Eq(g)
  <2>1. ASSUME NEW d \in 0 .. x.depth, d # 0 PROVE f[d] = wider(g[d - 1])
    <3>1. d - 1 \in Nat /\ d - 1 \in 0 .. x.depth /\ (d - 1) + 1 = d
      BY <2>1
    <3>2. f[(d - 1) + 1] = wider(f[d - 1])
      BY <1>4, <3>1
    <3>3. g[d - 1] = f[d - 1]
      BY <3>1
    <3> QED
      BY <3>1, <3>2, <3>3
  <2> HIDE DEF wider
  <2>2. g = [d \in 0 .. x.depth |-> IF d = 0 THEN {s} ELSE wider(g[d - 1])]
    BY <1>3, <2>1
  <2> QED
    BY <2>2 DEF wider
<1> DEFINE within == CHOOSE w : Eq(w)
<1>6. Hermes(x)!Loaded(s) = within[x.depth]
  BY DEF Hermes!Loaded
<1>7. Eq(within)
  <2> HIDE DEF Eq, g
  <2> QED
    BY <1>5
<1> HIDE DEF within
<1>8. \A d \in 0 .. x.depth : within[d] = IF d = 0 THEN {s} ELSE wider(within[d - 1])
  BY <1>7
<1>9. DOMAIN within = 0 .. x.depth /\ within = [d \in 0 .. x.depth |-> within[d]]
  BY <1>7
<1>10. ASSUME NEW d \in 0 .. x.depth, d + 1 <= x.depth PROVE within[d + 1] = wider(within[d])
  <2>1. d + 1 \in 0 .. x.depth /\ d + 1 # 0 /\ (d + 1) - 1 = d
    BY <1>10
  <2> QED
    BY <1>8, <2>1
<1>11. within[0] = {s}
  <2>1. 0 \in 0 .. x.depth
    OBVIOUS
  <2> HIDE DEF wider
  <2> QED
    BY <1>8, <2>1
<1>12. \A d \in 0 .. x.depth : within[d] \in All
  <2> DEFINE T == {d \in Nat : d <= x.depth => within[d] \in All}
  <2> HIDE DEF All, wider
  <2>1. 0 \in T
    BY <1>1, <1>11
  <2>2. ASSUME NEW d \in T PROVE d + 1 \in T
    <3>1. d \in Nat /\ (d + 1 <= x.depth => within[d] \in All /\ within[d + 1] = wider(within[d]))
      BY <1>10
    <3> QED
      BY <1>1, <3>1
  <2>3. T = Nat
    <3> HIDE DEF T
    <3>1. T \in SUBSET Nat
      BY DEF T
    <3> QED
      BY <2>1, <2>2, <3>1, Induction
  <2> QED
    BY <2>3
<1>13. within \in [0 .. x.depth -> All]
  <2> HIDE DEF All
  <2> QED
    BY <1>9, <1>12
<1> QED
  BY <1>6, <1>10, <1>11, <1>13 DEF Layers

\* So what is nested started while what it is nested in was live.
LEMMA NestedSomewhere ==
  ASSUME NEW x, x.depth \in Nat, NEW s \in DOMAIN row, NEW t \in Hermes(x)!Loaded(s), t # s
  PROVE  t \in DOMAIN row /\ \E u \in DOMAIN row : t \in Hermes(x)!Nests(u)
<1> DEFINE Inside == {s} \union UNION {Hermes(x)!Nests(u) : u \in DOMAIN row}
<1>1. PICK within \in [0 .. x.depth -> SUBSET DOMAIN row] :
         Hermes(x)!Loaded(s) = within[x.depth] /\ Layers(x, s, within)
  BY LoadedIs
<1> DEFINE T == {d \in Nat : d <= x.depth => within[d] \subseteq Inside}
<1>2. 0 \in T
  BY <1>1 DEF Layers
<1>3. ASSUME NEW d \in T PROVE d + 1 \in T
  <2>1. SUFFICES ASSUME d + 1 <= x.depth PROVE within[d + 1] \subseteq Inside
    OBVIOUS
  <2>2. /\ d \in 0 .. x.depth /\ within[d] \subseteq Inside /\ within[d] \subseteq DOMAIN row
        /\ within[d + 1] = within[d] \union UNION {Hermes(x)!Nests(u) : u \in within[d]}
    BY <1>1, <2>1 DEF Layers
  <2> QED
    BY <2>2
<1>4. T = Nat
  <2> HIDE DEF T
  <2>1. T \in SUBSET Nat
    BY DEF T
  <2> QED
    BY <1>2, <1>3, <2>1, Induction
<1>5. x.depth \in T /\ within[x.depth] \subseteq DOMAIN row
  BY <1>1, <1>4
<1> QED
  BY <1>1, <1>5

LEMMA NoneInsideAnotherHolds ==
  ASSUME NEW x, Hermes(x)!SessionsAssumption, x.marks = FALSE, HermesInv(x)
  PROVE  Hermes(x)!NoneInsideAnother
<1>1. SUFFICES ASSUME NEW s \in Hermes(x)!Listed, NEW t \in Hermes(x)!Listed, t \in Hermes(x)!Loaded(s), t # s
               PROVE  FALSE
  BY DEF Hermes!NoneInsideAnother
<1>2. s \in DOMAIN row /\ t \in DOMAIN row
  BY DEF Hermes!Listed, Hermes!Here, Hermes!Known
<1>3. PICK u \in DOMAIN row : t \in Hermes(x)!Nests(u)
  BY <1>1, <1>2, NestedSomewhere, HermesConstants
<1>4. row[t].parent = u /\ (row[u].ended = Hermes(x)!Live \/ row[t].started < row[u].ended)
  BY <1>3 DEF Hermes!Nests
<1>5. /\ row[t].started \in Nat /\ row[u].ended \in Nat /\ u # Hermes(x)!NoSession /\ made[t] \in Roles
      /\ RowTells(x, t)
  BY <1>2, HermesConstants DEF HermesInv, HermesShape, Row
<1>6. ~row[t].marked
  BY <1>4, <1>5 DEF RowTells, Roles
<1>7. \A reasons : ~Hermes(x)!After(t, reasons)
  BY <1>4, <1>5 DEF Hermes!After, Hermes!Live
<1> QED
  BY <1>1, <1>4, <1>5, <1>6, <1>7 DEF Hermes!Listed

\* Of sessions of which one is without something, there is one that started first.
LEMMA FirstWithout ==
  ASSUME NEW x, HermesShape(x), NEW Good, NEW s \in DOMAIN row, s \notin Good
  PROVE  \E t \in DOMAIN row : /\ t \notin Good
                               /\ \A u \in DOMAIN row : row[u].started < row[t].started => u \in Good
<1> DEFINE T == {row[t].started : t \in DOMAIN row \ Good}
<1>1. \A t \in DOMAIN row : row[t].started \in Nat
  BY DEF HermesShape
<1>2. T \in SUBSET Nat /\ T # {}
  BY <1>1
<1>3. PICK n \in T : \A m \in T : n <= m
  <2> HIDE DEF T
  <2> QED
    BY <1>2, Least
<1>4. PICK t \in DOMAIN row \ Good : n = row[t].started
  BY <1>3
<1>5. ASSUME NEW u \in DOMAIN row, row[u].started < row[t].started, u \notin Good PROVE FALSE
  <2>1. row[u].started \in T
    BY <1>5
  <2> QED
    BY <1>1, <1>3, <1>4, <1>5, <2>1
<1> QED
  BY <1>4, <1>5

\* Every session is of the directory, by its own row or by those it goes on from.
LEMMA HereIsAll ==
  ASSUME NEW x, Hermes(x)!SessionsAssumption, HermesInv(x),
         \A s \in DOMAIN row : made[s] = "own" => row[s].cwd
  PROVE  Hermes(x)!Here = DOMAIN row
<1>0. HermesShape(x)
  BY DEF HermesInv
<1>1. ASSUME NEW found \in SUBSET DOMAIN row,
             \A s \in DOMAIN row :
               row[s].cwd \/ (row[s].parent \in found /\ Hermes(x)!After(s, {"compression"})) => s \in found
      PROVE  DOMAIN row \subseteq found
  <2>1. SUFFICES ASSUME NEW z \in DOMAIN row, z \notin found PROVE FALSE
    OBVIOUS
  <2>2. PICK s \in DOMAIN row : /\ s \notin found
                                /\ \A u \in DOMAIN row : row[u].started < row[s].started => u \in found
    BY <1>0, <2>1, FirstWithout
  <2>3. /\ RowTells(x, s) /\ made[s] \in Roles /\ row[s].started \in Nat /\ row[s].started # Hermes(x)!Live
        /\ row[s].parent # Hermes(x)!NoSession =>
             row[s].parent \in DOMAIN row /\ row[row[s].parent].started < row[s].started
    BY <1>0 DEF HermesInv, HermesShape, Hermes!Live
  <2>4. ~row[s].cwd
    BY <1>1, <2>2
  <2>5. made[s] = "continued"
    BY <2>3, <2>4, Zenon DEF RowTells, Roles
  <2> DEFINE p == row[s].parent
  <2>6. p \in DOMAIN row /\ p \in found /\ row[p].reason = "compression" /\ row[p].ended = row[s].started
    BY <2>2, <2>3, <2>5 DEF RowTells
  <2>7. Hermes(x)!After(s, {"compression"})
    BY <2>3, <2>6 DEF Hermes!After, Hermes!Known
  <2> QED
    BY <1>1, <2>2, <2>6, <2>7
<1>2. DOMAIN row \subseteq Hermes(x)!Here
  BY <1>1 DEF Hermes!Here, Hermes!Known
<1> QED
  BY <1>2 DEF Hermes!Here, Hermes!Known

\* A session that is not listed is a sub-agent's, nested in its parent.
LEMMA ListedOrDelegated ==
  ASSUME NEW x, Hermes(x)!SessionsAssumption, HermesInv(x), Hermes(x)!Here = DOMAIN row, NEW t \in DOMAIN row,
         t \notin Hermes(x)!Listed
  PROVE  made[t] = "delegate"
<1> DEFINE p == row[t].parent
<1>1. /\ RowTells(x, t) /\ made[t] \in Roles /\ row[t].started \in Nat /\ row[t].started # Hermes(x)!Live
      /\ p # Hermes(x)!NoSession => p \in DOMAIN row
  BY DEF HermesInv, HermesShape, Hermes!Live
<1>2. p # Hermes(x)!NoSession /\ ~Hermes(x)!After(t, {"compression", "branched"}) /\ ~row[t].marked
  BY DEF Hermes!Listed
<1>3. ASSUME row[p].ended = row[t].started, row[p].reason \in {"compression", "branched"} PROVE FALSE
  BY <1>1, <1>2, <1>3 DEF Hermes!After, Hermes!Known
<1>4. made[t] # "own"
  BY <1>1, <1>2 DEF RowTells
<1>5. made[t] # "continued"
  BY <1>1, <1>3 DEF RowTells
<1>6. made[t] # "branch"
  BY <1>1, <1>2, <1>3 DEF RowTells
<1> QED
  BY <1>1, <1>4, <1>5, <1>6 DEF Roles

-----------------------------------------------------------------------------
(* Nothing is out of reach: a session is no deeper in another than the     *)
(* sessions that started before it are many.                               *)

NestedFrom(x, s, t, d) == \A within : Layers(x, s, within) => \A e \in d .. x.depth : t \in within[e]
Earlier(t) == {u \in DOMAIN row : row[u].started < row[t].started}

LEMMA EarlierAreFewer ==
  ASSUME NEW x, Hermes(x)!SessionsAssumption, HermesInv(x), NEW t \in DOMAIN row
  PROVE  /\ Cardinality(Earlier(t)) \in Nat /\ Cardinality(Earlier(t)) + 1 <= Cardinality(x.ids)
         /\ \A p \in DOMAIN row : row[p].started < row[t].started =>
              Cardinality(Earlier(p)) \in Nat /\ Cardinality(Earlier(p)) + 1 <= Cardinality(Earlier(t))
<1>1. /\ DOMAIN row \subseteq x.ids /\ IsFiniteSet(x.ids)
      /\ \A u \in DOMAIN row : row[u].started \in Nat
  BY HermesConstants DEF HermesInv, HermesShape
<1>2. \A S : S \subseteq DOMAIN row => S \subseteq x.ids
  BY <1>1
<1>3. \A u \in DOMAIN row : IsFiniteSet(Earlier(u)) /\ u \notin Earlier(u)
  <2>1. \A u \in DOMAIN row : Earlier(u) \subseteq x.ids /\ u \notin Earlier(u)
    BY <1>1 DEF Earlier
  <2> QED
    BY <1>1, <2>1, FS_Subset
<1>4. \A u \in DOMAIN row :
        /\ Cardinality(Earlier(u)) \in Nat /\ IsFiniteSet(Earlier(u) \union {u})
        /\ Cardinality(Earlier(u) \union {u}) = Cardinality(Earlier(u)) + 1
  BY <1>3, FS_AddElement, FS_CardinalityType
<1>5. Earlier(t) \union {t} \subseteq x.ids
  BY <1>1 DEF Earlier
<1>6. Cardinality(Earlier(t) \union {t}) <= Cardinality(x.ids)
  BY <1>1, <1>5, FS_Subset
<1>7. ASSUME NEW p \in DOMAIN row, row[p].started < row[t].started
      PROVE  Cardinality(Earlier(p)) + 1 <= Cardinality(Earlier(t))
  <2>1. Earlier(p) \union {p} \subseteq Earlier(t)
    BY <1>1, <1>7 DEF Earlier
  <2>2. Cardinality(Earlier(p) \union {p}) <= Cardinality(Earlier(t))
    BY <1>3, <2>1, FS_Subset
  <2> QED
    BY <1>4, <2>2
<1> QED
  BY <1>4, <1>6, <1>7

LEMMA AllReachableHolds ==
  ASSUME NEW x, Hermes(x)!SessionsAssumption, Cardinality(x.ids) <= x.depth + 1, HermesInv(x)
  PROVE  Hermes(x)!AllReachable
<1>0. HermesShape(x) /\ x.depth \in Nat /\ Cardinality(x.ids) \in Nat
  BY HermesConstants, FS_CardinalityType DEF HermesInv
<1>1. SUFFICES ASSUME \A s \in DOMAIN row : made[s] = "own" => row[s].cwd, NEW z \in DOMAIN row
               PROVE  \E s \in Hermes(x)!Listed : z \in Hermes(x)!Loaded(s)
  BY DEF Hermes!AllReachable, Hermes!Known
<1>2. Hermes(x)!Here = DOMAIN row
  BY <1>1, HereIsAll
<1> DEFINE Deep(t) == Cardinality(Earlier(t))
           Good == {t \in DOMAIN row : \E s \in Hermes(x)!Listed : NestedFrom(x, s, t, Deep(t))}
<1>3. ASSUME NEW t \in DOMAIN row, t \in Hermes(x)!Listed PROVE t \in Good
  <2>1. Deep(t) \in Nat
    BY EarlierAreFewer
  <2>2. ASSUME NEW within, Layers(x, t, within), NEW e \in Deep(t) .. x.depth PROVE t \in within[e]
    <3> DEFINE T == {d \in Nat : d <= x.depth => t \in within[d]}
    <3>1. 0 \in T
      BY <2>2 DEF Layers
    <3>2. ASSUME NEW d \in T PROVE d + 1 \in T
      BY <1>0, <2>2, <3>2 DEF Layers
    <3>3. T = Nat
      <4> HIDE DEF T
      <4>1. T \in SUBSET Nat
        BY DEF T
      <4> QED
        BY <3>1, <3>2, <4>1, Induction
    <3>4. e \in Nat /\ e <= x.depth
      BY <1>0, <2>1
    <3> QED
      BY <3>3, <3>4
  <2> QED
    BY <1>3, <2>2 DEF NestedFrom
<1>4. DOMAIN row \subseteq Good
  <2>1. SUFFICES ASSUME NEW y \in DOMAIN row, y \notin Good PROVE FALSE
    OBVIOUS
  <2>2. PICK t \in DOMAIN row : /\ t \notin Good
                                /\ \A u \in DOMAIN row : row[u].started < row[t].started => u \in Good
    <3> HIDE DEF Good
    <3> QED
      BY <1>0, <2>1, FirstWithout
  <2>3. made[t] = "delegate"
    <3> HIDE DEF Good
    <3> QED
      BY <1>2, <1>3, <2>2, ListedOrDelegated
  <2> DEFINE p == row[t].parent
  <2>4. p \in DOMAIN row /\ t \in Hermes(x)!Nests(p)
    BY <2>3, DelegatesAreNotListed
  <2>5. row[p].started < row[t].started /\ p # Hermes(x)!NoSession
    BY <1>0, <2>4, HermesConstants DEF HermesShape
  <2>6. Deep(p) \in Nat /\ Deep(t) \in Nat /\ Deep(p) + 1 <= Deep(t)
    BY <2>4, <2>5, EarlierAreFewer
  <2>7. PICK s \in Hermes(x)!Listed : NestedFrom(x, s, p, Deep(p))
    BY <2>2, <2>4, <2>5
  <2>8. ASSUME NEW within, Layers(x, s, within), NEW e \in Deep(t) .. x.depth PROVE t \in within[e]
    <3>1. e - 1 \in Deep(p) .. x.depth /\ e - 1 \in 0 .. x.depth /\ (e - 1) + 1 = e
      BY <1>0, <2>6
    <3>2. p \in within[e - 1]
      BY <2>7, <2>8, <3>1 DEF NestedFrom
    <3>3. within[(e - 1) + 1] = within[e - 1] \union UNION {Hermes(x)!Nests(u) : u \in within[e - 1]}
      BY <1>0, <2>8, <3>1 DEF Layers
    <3> QED
      BY <2>4, <3>1, <3>2, <3>3
  <2>9. t \in Good
    BY <2>8 DEF NestedFrom
  <2> QED
    BY <2>2, <2>9
<1>5. PICK s \in Hermes(x)!Listed : NestedFrom(x, s, z, Deep(z))
  BY <1>4
<1>6. s \in DOMAIN row
  BY DEF Hermes!Listed, Hermes!Here, Hermes!Known
<1>7. PICK within : Layers(x, s, within) /\ Hermes(x)!Loaded(s) = within[x.depth]
  BY <1>0, <1>6, LoadedIs
<1>8. x.depth \in Deep(z) .. x.depth
  <2>1. Deep(z) \in Nat /\ Deep(z) + 1 <= Cardinality(x.ids)
    BY EarlierAreFewer
  <2> HIDE DEF Deep
  <2> QED
    BY <1>0, <2>1
<1> QED
  BY <1>5, <1>7, <1>8 DEF NestedFrom

\* A set of which all members are one has at most one.
AtMostOne(S) == \A y, z \in S : y = z
LEMMA FewAreOne == ASSUME NEW S, AtMostOne(S) PROVE Cardinality(S) <= 1
<1>1. CASE S = {}
  BY <1>1, FS_EmptySet
<1>2. ASSUME NEW y \in S PROVE Cardinality(S) <= 1
  <2>1. S = {y}
    BY DEF AtMostOne
  <2>2. Cardinality({y}) = 1
    BY FS_Singleton
  <2> QED
    BY <2>1, <2>2
<1> QED
  BY <1>1, <1>2

-----------------------------------------------------------------------------
(* Signing in.                                                             *)

NoServer == SignIn!NoServer
Configs == [key : 0 .. MaxKeys, server : Servers \union {NoServer}]
Waiting == {"waits", "granted", "saved", "failed"}
Attempts ==
  [server : Servers, by : {"terminal", "viewer"}, at : Waiting \union {"aborted", "complete", "error"}]

\* Keys are numbered as they are issued; an attempt asks for the key of its number.
SignInShape ==
  /\ \E k \in 0 .. MaxKeys : DOMAIN issuer = 1 .. k
  /\ \A k \in DOMAIN issuer : issuer[k] \in Servers
  /\ DOMAIN attempts \subseteq DOMAIN issuer
  /\ \A k \in DOMAIN attempts : attempts[k] \in Attempts /\ attempts[k].server = issuer[k]
  /\ config \in Configs
  /\ command \in {SignIn!Idle} \union [at : {"logout", "paste"}, config : Configs]
  /\ viewer \subseteq [target : Servers, key : 0 .. MaxKeys]
  /\ \A v, w \in viewer : v = w
  /\ \A x, y \in slot : x = y
  /\ slot # {} => viewer # {}
  /\ \A x \in slot : /\ x \in [id : DOMAIN attempts, state : {"pending", "complete", "error"}]
                     /\ attempts[x.id].by = "viewer"
  /\ out \in BOOLEAN

\* The server a key saved with this one is for.
ServerOf(saving) == IF saving.server = NoServer THEN DefaultServer ELSE saving.server
IssuedBy(key, server) == key # 0 => key \in DOMAIN issuer /\ issuer[key] = server

\* Every copy of a key is beside the name of the server that issued it.
KeysApart ==
  /\ IssuedBy(config.key, ServerOf(config))
  /\ command # SignIn!Idle => IssuedBy(command.config.key, ServerOf(command.config))
  /\ \A v \in viewer : IssuedBy(v.key, v.target)
  /\ \A x \in told : x[1] \in DOMAIN issuer

\* What a person was told of signing out is so while nothing was saved since.
OutIsOut ==
  /\ out => config.key = 0
  /\ command # SignIn!Idle /\ command.at = "logout" => command.config.key = 0

\* What a command that sends holds: a key beside its server, read while a key was saved; but a
\* share that was named no server may hold one of another server.
SendingInv ==
  /\ sending.at \in {"idle", "signs in", "holds"}
  /\ sending.at = "signs in" =>
       sending.id \in DOMAIN attempts /\ sending.flag \in {NoServer, DefaultServer}
  /\ sending.at = "holds" /\ sending.key # 0 =>
       /\ sending.key \in DOMAIN issuer /\ sending.out = FALSE
       /\ sending.by # "share" => issuer[sending.key] = sending.server

\* The inductive invariant of signing in.
SignInCore ==
  /\ SignInShape /\ KeysApart /\ OutIsOut
  /\ SignIn!KeyReadWithItsServer /\ SignIn!PageToldTruth /\ SignIn!NoStrayWait
  /\ SignIn!SignedOutCommandsSendNothing
SignInInv == SignInCore /\ SendingInv

\* Before anyone signs in there is no key to be given away.
LEMMA SignInInvInit == SignIn!SignInAssumption /\ SignIn!Init => SignInInv
<1> SUFFICES ASSUME SignIn!SignInAssumption, SignIn!Init PROVE SignInInv
  OBVIOUS
<1> USE DEF SignIn!SignInAssumption, SignIn!Init
<1>1. DOMAIN issuer = 1 .. 0 /\ DOMAIN attempts = {}
  OBVIOUS
<1>2. SignInShape
  <2>1. \E k \in 0 .. MaxKeys : DOMAIN issuer = 1 .. k
    BY <1>1
  <2>2. config \in Configs
    BY DEF Configs, NoServer
  <2>3. out \in BOOLEAN
    OBVIOUS
  <2> QED
    BY <1>1, <2>1, <2>2, <2>3 DEF SignInShape
<1>3. KeysApart /\ OutIsOut
  BY DEF KeysApart, OutIsOut, IssuedBy, SignIn!Idle
<1>4. SendingInv
  BY DEF SendingInv, SignIn!Idle
<1> QED
  BY <1>1, <1>2, <1>3, <1>4
     DEF SignInInv, SignInCore, SignIn!KeyReadWithItsServer, SignIn!PageToldTruth, SignIn!NoStrayWait,
         SignIn!SignedOutCommandsSendNothing

\* Counting is the same there as here.
LEMMA SignInCounts == \A S : SignIn!Cardinality(S) = Cardinality(S)
  BY DEF SignIn!Cardinality, Cardinality

\* The next key's number was never used.
LEMMA KeyIsNew ==
  ASSUME SignInShape, SignIn!SignInAssumption
  PROVE  /\ SignIn!NewKey \in Nat \ {0} /\ SignIn!NewKey \notin DOMAIN issuer
         /\ DOMAIN issuer \union {SignIn!NewKey} = 1 .. SignIn!NewKey
<1>1. PICK k \in 0 .. MaxKeys : DOMAIN issuer = 1 .. k
  BY DEF SignInShape
<1>2. Cardinality(DOMAIN issuer) = k
  BY <1>1, FS_Interval DEF SignIn!SignInAssumption
<1>3. k \in Nat
  BY DEF SignIn!SignInAssumption
<1>4. SignIn!NewKey = k + 1
  BY <1>2, SignInCounts DEF SignIn!NewKey
<1> QED
  BY <1>1, <1>3, <1>4

\* A key is issued to the server it is asked of, and no other changes.
LEMMA IssuerGrows ==
  ASSUME SignInShape, SignIn!SignInAssumption, NEW server \in Servers, SignIn!NewKey <= MaxKeys,
         issuer' = SignIn!Numbered(issuer, SignIn!NewKey, server)
  PROVE  /\ DOMAIN issuer' = DOMAIN issuer \union {SignIn!NewKey} /\ SignIn!NewKey \in 0 .. MaxKeys
         /\ issuer'[SignIn!NewKey] = server
         /\ \A k \in DOMAIN issuer : issuer'[k] = issuer[k]
         /\ \E k \in 0 .. MaxKeys : DOMAIN issuer' = 1 .. k
         /\ \A k \in DOMAIN issuer' : issuer'[k] \in Servers
<1>1. /\ SignIn!NewKey \in Nat \ {0} /\ SignIn!NewKey \notin DOMAIN issuer
      /\ DOMAIN issuer \union {SignIn!NewKey} = 1 .. SignIn!NewKey
  BY KeyIsNew
<1>2. SignIn!NewKey \in 0 .. MaxKeys
  BY <1>1 DEF SignIn!SignInAssumption
<1> HIDE DEF SignIn!NewKey
<1>3. /\ DOMAIN issuer' = DOMAIN issuer \union {SignIn!NewKey}
      /\ \A k \in DOMAIN issuer' : issuer'[k] = IF k = SignIn!NewKey THEN server ELSE issuer[k]
  BY DEF SignIn!Numbered
<1> QED
  BY <1>1, <1>2, <1>3 DEF SignInShape

\* An attempt that goes on stays the attempt it was.
LEMMA AttemptGoesOn ==
  ASSUME SignInShape, NEW k, NEW from, NEW to, SignIn!Attempt(k, from, to),
         to \in Waiting \union {"aborted", "complete", "error"}
  PROVE  /\ k \in DOMAIN attempts /\ attempts[k].at = from
         /\ DOMAIN attempts' = DOMAIN attempts
         /\ \A l \in DOMAIN attempts :
              /\ attempts'[l] \in Attempts
              /\ attempts'[l].server = attempts[l].server /\ attempts'[l].by = attempts[l].by
              /\ attempts'[l].at = IF l = k THEN to ELSE attempts[l].at
  BY DEF SignInShape, SignIn!Attempt, Attempts

\* A sign-in that begins is numbered anew, and its key is the one of the server asked.
LEMMA BeginEffect ==
  ASSUME SignInShape, KeysApart, SignIn!KeyReadWithItsServer, SignIn!SignInAssumption,
         NEW server \in Servers, NEW by \in {"terminal", "viewer"}, SignIn!Begin(server, by),
         UNCHANGED <<config, viewer, command, told, out>>,
         \/ UNCHANGED slot
         \/ by = "viewer" /\ slot' = {[id |-> SignIn!NewKey, state |-> "pending"]} /\ viewer # {}
  PROVE  /\ SignInShape' /\ KeysApart' /\ SignIn!KeyReadWithItsServer'
         /\ DOMAIN attempts' = DOMAIN attempts \union {SignIn!NewKey}
         /\ \A l \in DOMAIN attempts : attempts'[l] = attempts[l]
         /\ attempts'[SignIn!NewKey].by = by /\ attempts'[SignIn!NewKey].at = "waits"
<1>1. /\ SignIn!NewKey \in Nat \ {0} /\ SignIn!NewKey \notin DOMAIN issuer
      /\ DOMAIN issuer' = DOMAIN issuer \union {SignIn!NewKey}
      /\ issuer'[SignIn!NewKey] = server
      /\ \A k \in DOMAIN issuer : issuer'[k] = issuer[k]
      /\ \E k \in 0 .. MaxKeys : DOMAIN issuer' = 1 .. k
      /\ \A k \in DOMAIN issuer' : issuer'[k] \in Servers
  BY IssuerGrows, KeyIsNew DEF SignIn!Begin
<1> DEFINE new == [server |-> server, by |-> by, at |-> "waits"]
<1>2. DOMAIN attempts' = DOMAIN attempts \union {SignIn!NewKey}
      /\ \A k \in DOMAIN attempts' : attempts'[k] = IF k = SignIn!NewKey THEN new ELSE attempts[k]
  BY DEF SignIn!Begin, SignIn!Numbered
<1>3. new \in Attempts /\ new.server = server /\ new.by = by /\ new.at = "waits"
  BY DEF Attempts, Waiting
<1> HIDE DEF new, SignIn!NewKey
<1>4. SignIn!NewKey \notin DOMAIN attempts
  BY <1>1 DEF SignInShape
<1>5. \A l \in DOMAIN attempts : attempts'[l] = attempts[l]
  BY <1>2, <1>4
<1>6. SignInShape'
  <2>1. /\ DOMAIN attempts' \subseteq DOMAIN issuer'
        /\ \A k \in DOMAIN attempts' : attempts'[k] \in Attempts /\ attempts'[k].server = issuer'[k]
    <3>1. ASSUME NEW k \in DOMAIN attempts
          PROVE  attempts'[k] \in Attempts /\ attempts'[k].server = issuer'[k]
      <4>1. attempts[k] \in Attempts /\ attempts[k].server = issuer[k] /\ k \in DOMAIN issuer
        BY DEF SignInShape
      <4>2. attempts'[k] = attempts[k] /\ issuer'[k] = issuer[k]
        BY <1>1, <1>5, <4>1
      <4> QED
        BY <4>1, <4>2
    <3>2. attempts'[SignIn!NewKey] = new /\ issuer'[SignIn!NewKey] = server
      BY <1>1, <1>2
    <3>3. DOMAIN attempts' \subseteq DOMAIN issuer'
      BY <1>1, <1>2 DEF SignInShape
    <3> QED
      BY <1>2, <1>3, <3>1, <3>2, <3>3
  <2>2. /\ \A x, y \in slot' : x = y
        /\ slot' # {} => viewer' # {}
        /\ \A x \in slot' : /\ x \in [id : DOMAIN attempts', state : {"pending", "complete", "error"}]
                            /\ attempts'[x.id].by = "viewer"
    <3>1. CASE UNCHANGED slot
      BY <3>1, <1>2, <1>5 DEF SignInShape
    <3>2. CASE by = "viewer" /\ slot' = {[id |-> SignIn!NewKey, state |-> "pending"]} /\ viewer # {}
      BY <3>2, <1>2, <1>3
    <3> QED
      BY <3>1, <3>2
  <2> QED
    BY <1>1, <2>1, <2>2 DEF SignInShape
<1>7. KeysApart' /\ SignIn!KeyReadWithItsServer'
  BY <1>1 DEF KeysApart, IssuedBy, ServerOf, SignIn!KeyReadWithItsServer
<1> QED
  BY <1>2, <1>3, <1>5, <1>6, <1>7

\* What a command that sends holds is so in every step: of the others, none issues a key anew
\* or forgets an attempt.
LEMMA SendingNext ==
  ASSUME SignIn!SignInAssumption, SignInInv, SignIn!Next \/ UNCHANGED SignIn!vars
  PROVE  SendingInv'
<1>0. SignInShape /\ KeysApart /\ OutIsOut /\ SendingInv
  BY DEF SignInInv, SignInCore
<1> DEFINE Grow == /\ DOMAIN attempts \subseteq DOMAIN attempts'
                   /\ \A k \in DOMAIN issuer : k \in DOMAIN issuer' /\ issuer'[k] = issuer[k]
<1>1. ASSUME UNCHANGED sending, Grow PROVE SendingInv'
  BY <1>0, <1>1 DEF SendingInv
<1>2. ASSUME NEW server \in Servers, NEW by, SignIn!Begin(server, by)
      PROVE  Grow /\ SignIn!NewKey \in DOMAIN attempts'
  <2>1. issuer' = SignIn!Numbered(issuer, SignIn!NewKey, server) /\ SignIn!NewKey <= MaxKeys
    BY <1>2 DEF SignIn!Begin
  <2>2. /\ DOMAIN issuer' = DOMAIN issuer \union {SignIn!NewKey}
        /\ \A k \in DOMAIN issuer : issuer'[k] = issuer[k]
    BY <1>0, <2>1, IssuerGrows
  <2> QED
    BY <1>2, <2>2 DEF SignIn!Begin, SignIn!Numbered
<1>3. \A flag \in Servers \union {NoServer} : SignIn!Target(flag) \in Servers
  BY <1>0 DEF SignInShape, SignIn!Target, SignIn!Issued, SignIn!SignInAssumption, Configs, NoServer
<1>4. ASSUME NEW flag \in Servers \union {NoServer},
             SignIn!BeginInTerminal(flag) \/ SignIn!ReadForPaste(flag)
      PROVE  SendingInv'
  <2>1. CASE SignIn!BeginInTerminal(flag)
    BY <2>1, <1>1, <1>2, <1>3 DEF SignIn!BeginInTerminal
  <2>2. CASE SignIn!ReadForPaste(flag)
    <3>1. /\ issuer' = SignIn!Numbered(issuer, SignIn!NewKey, SignIn!Target(flag))
          /\ SignIn!NewKey <= MaxKeys /\ UNCHANGED <<attempts, sending>>
      BY <2>2 DEF SignIn!ReadForPaste, SignIn!signing
    <3>2. /\ DOMAIN issuer' = DOMAIN issuer \union {SignIn!NewKey}
          /\ \A k \in DOMAIN issuer : issuer'[k] = issuer[k]
      BY <1>0, <1>3, <3>1, IssuerGrows
    <3> QED
      BY <1>1, <3>1, <3>2
  <2> QED
    BY <1>4, <2>1, <2>2
<1>5. ASSUME SignIn!BeginInViewer PROVE SendingInv'
  <2>1. \A v \in viewer : v.target \in Servers
    BY <1>0 DEF SignInShape
  <2> QED
    BY <1>1, <1>2, <1>5, <2>1 DEF SignIn!BeginInViewer
<1>6. ASSUME NEW k \in SignIn!Keys,
             \/ SignIn!ConfirmCode(k) \/ SignIn!Task(k) \/ SignIn!SaveFails(k) \/ SignIn!Expire(k)
      PROVE  SendingInv'
  <2>1. UNCHANGED <<sending, issuer>>
    BY <1>6
       DEF SignIn!ConfirmCode, SignIn!Task, SignIn!Granted, SignIn!SaveGrant, SignIn!Report,
           SignIn!SaveFails, SignIn!Expire
  <2>2. DOMAIN attempts' = DOMAIN attempts
    BY <1>6
       DEF SignIn!ConfirmCode, SignIn!Task, SignIn!Granted, SignIn!SaveGrant, SignIn!Report,
           SignIn!SaveFails, SignIn!Expire, SignIn!Attempt
  <2> QED
    BY <1>1, <2>1, <2>2
<1>7. ASSUME \/ SignIn!Cancel \/ SignIn!StartViewer \/ SignIn!StopViewer \/ SignIn!SendFromViewer
             \/ SignIn!ReadForLogout \/ SignIn!WriteConfig
      PROVE  SendingInv'
  <2>1. UNCHANGED <<sending, issuer>> /\ DOMAIN attempts' = DOMAIN attempts
    BY <1>7
       DEF SignIn!Cancel, SignIn!Aborted, SignIn!StartViewer, SignIn!StopViewer, SignIn!SendFromViewer,
           SignIn!Send, SignIn!ReadForLogout, SignIn!WriteConfig, SignIn!signing
  <2> QED
    BY <1>1, <2>1
<1>8. ASSUME NEW flag \in Servers \union {NoServer}, SignIn!ReadToSend(flag) PROVE SendingInv'
  <2> DEFINE key == SignIn!TargetKey(SignIn!Target(flag))
             server == SignIn!Target(flag)
  <2>1. /\ sending' = SignIn!Holds(server, key, "terminal") /\ key # 0
        /\ UNCHANGED <<config, attempts, issuer, out>>
    BY <1>8 DEF SignIn!ReadToSend, SignIn!signing
  <2>2. server = ServerOf(config) /\ key = config.key
    BY <2>1 DEF SignIn!Issued, SignIn!TargetKey, SignIn!NoServer, NoServer, ServerOf
  <2>3. key \in DOMAIN issuer /\ issuer[key] = server /\ out = FALSE
    BY <1>0, <2>1, <2>2 DEF KeysApart, IssuedBy, OutIsOut, SignInShape
  <2> HIDE DEF key, server
  <2> QED
    BY <2>1, <2>3 DEF SendingInv, SignIn!Holds
<1>9. ASSUME NEW flag \in Servers \union {NoServer}, SignIn!ShareSignsIn(flag) PROVE SendingInv'
  <2>1. /\ SignIn!Begin(DefaultServer, "terminal") /\ SignIn!Target(flag) = DefaultServer
        /\ sending' = [at |-> "signs in", flag |-> flag, id |-> SignIn!NewKey]
    BY <1>9 DEF SignIn!ShareSignsIn
  <2>2. flag \in {NoServer, DefaultServer} /\ DefaultServer \in Servers
    BY <2>1 DEF SignIn!Target, SignIn!SignInAssumption, NoServer
  <2> QED
    BY <1>2, <2>1, <2>2 DEF SendingInv
<1>10. ASSUME SignIn!ShareSignedIn PROVE SendingInv'
  <2> DEFINE key == SignIn!TargetKey(SignIn!Target(sending.flag))
             by == IF sending.flag = SignIn!NoServer THEN "share" ELSE "terminal"
  <2>1. /\ sending' = SignIn!Holds(DefaultServer, key, by) /\ sending.flag \in {NoServer, DefaultServer}
        /\ UNCHANGED <<config, attempts, issuer, out>>
    BY <1>0, <1>10 DEF SignIn!ShareSignedIn, SignIn!signing, SendingInv
  <2>2. /\ SignIn!Issued = ServerOf(config) /\ key \in {0, config.key}
        /\ key # 0 /\ by # "share" => ServerOf(config) = DefaultServer
    BY <2>1 DEF SignIn!Issued, SignIn!TargetKey, SignIn!Target, SignIn!NoServer, NoServer, ServerOf
  <2>3. key # 0 =>
          /\ key \in DOMAIN issuer /\ out = FALSE
          /\ by # "share" => issuer[key] = DefaultServer
    BY <1>0, <2>2 DEF KeysApart, IssuedBy, OutIsOut, SignInShape
  <2> HIDE DEF key, by
  <2> QED
    BY <2>1, <2>3 DEF SendingInv, SignIn!Holds
<1>11. ASSUME SignIn!StopSending \/ SignIn!SendFromTerminal PROVE SendingInv'
  <2>1. sending' = [at |-> "idle"]
    BY <1>11 DEF SignIn!StopSending, SignIn!SendFromTerminal, SignIn!Idle
  <2> QED
    BY <2>1 DEF SendingInv
<1>12. CASE UNCHANGED SignIn!vars
  BY <1>1, <1>12 DEF SignIn!vars, SignIn!signing
<1> QED
  BY <1>4, <1>5, <1>6, <1>7, <1>8, <1>9, <1>10, <1>11, <1>12 DEF SignIn!Next, NoServer

\* The slot that is told how its sign-in ended is the slot it was.
LEMMA ReportKeepsSlot ==
  ASSUME SignInShape, NEW k, SignIn!Report(k)
  PROVE  \A x \in slot : \E y \in slot' : y.id = x.id
<1>1. PICK end \in {<<"saved", "complete">>, <<"failed", "error">>} :
        slot' = {IF x.id = k THEN [x EXCEPT !.state = end[2]] ELSE x : x \in slot}
  BY DEF SignIn!Report
<1> DEFINE reported(x) == IF x.id = k THEN [x EXCEPT !.state = end[2]] ELSE x
<1>2. ASSUME NEW x \in slot PROVE reported(x) \in slot'
  BY <1>1
<1>3. ASSUME NEW x \in slot PROVE reported(x).id = x.id
  <2>1. x \in [id : DOMAIN attempts, state : {"pending", "complete", "error"}]
    BY DEF SignInShape
  <2> QED
    BY <2>1
<1> HIDE DEF reported
<1> QED
  BY <1>2, <1>3

\* Every step of a command, of the viewer, of its page and of a server keeps it.
LEMMA SignInCoreNext ==
  ASSUME SignIn!SignInAssumption, SignInCore, SendingInv, SignIn!Next \/ UNCHANGED SignIn!vars
  PROVE  SignInCore'
<1>0. /\ SignInShape /\ KeysApart /\ OutIsOut
      /\ SendingInv /\ SignIn!KeyReadWithItsServer /\ SignIn!PageToldTruth /\ SignIn!NoStrayWait
      /\ SignIn!SignedOutCommandsSendNothing
  BY DEF SignInCore
<1> DEFINE IssuerKept == \A k \in DOMAIN issuer : k \in DOMAIN issuer' /\ issuer'[k] = issuer[k]
<1> USE DEF NoServer, SignInCore, SignInShape, KeysApart, OutIsOut, IssuedBy, ServerOf,
            SignIn!KeyReadWithItsServer,
     SignIn!PageToldTruth, SignIn!NoStrayWait, SignIn!SignedOutCommandsSendNothing
<1>1. ASSUME NEW flag \in Servers \union {NoServer}, SignIn!BeginInTerminal(flag) PROVE SignInCore'
  <2>1. /\ SignIn!Begin(SignIn!Target(flag), "terminal")
        /\ UNCHANGED <<config, viewer, slot, command, told, out>>
    BY <1>1 DEF SignIn!BeginInTerminal
  <2>2. SignIn!Target(flag) \in Servers
    BY DEF SignIn!Target, SignIn!Issued, SignIn!SignInAssumption, Configs
  <2>3. SignInShape' /\ KeysApart' /\ SignIn!KeyReadWithItsServer'
    BY <2>1, <2>2, BeginEffect
  <2>4. \A l \in DOMAIN attempts : attempts'[l] = attempts[l]
    BY <2>1, <2>2, BeginEffect
  <2>5. /\ attempts'[SignIn!NewKey].by = "terminal"
        /\ DOMAIN attempts' = DOMAIN attempts \union {SignIn!NewKey}
    BY <2>1, <2>2, BeginEffect
  <2>6. SignIn!PageToldTruth' /\ SignIn!NoStrayWait'
    BY <2>1, <2>4, <2>5
  <2> QED
    BY <2>1, <2>3, <2>6
<1>2. ASSUME SignIn!BeginInViewer PROVE SignInCore'
  <2>1. PICK v \in viewer : SignIn!Begin(v.target, "viewer")
    BY <1>2 DEF SignIn!BeginInViewer
  <2>2. /\ \A x \in slot : x.state # "pending"
        /\ slot' = {[id |-> SignIn!NewKey, state |-> "pending"]}
        /\ UNCHANGED <<config, viewer, command, told, out>>
    BY <1>2 DEF SignIn!BeginInViewer
  <2>3. v.target \in Servers
    OBVIOUS
  <2>4. /\ \A l \in DOMAIN attempts : attempts'[l] = attempts[l]
        /\ attempts'[SignIn!NewKey].by = "viewer" /\ attempts'[SignIn!NewKey].at = "waits"
        /\ DOMAIN attempts' = DOMAIN attempts \union {SignIn!NewKey}
    BY <2>1, <2>2, <2>3, BeginEffect
  <2>5. SignInShape' /\ KeysApart' /\ SignIn!KeyReadWithItsServer'
    BY <2>1, <2>2, <2>3, BeginEffect
  <2>6. SignIn!PageToldTruth' /\ SignIn!NoStrayWait'
    BY <2>2, <2>4
  <2> QED
    BY <2>2, <2>5, <2>6
<1>3. ASSUME NEW k \in SignIn!Keys, SignIn!ConfirmCode(k) PROVE SignInCore'
  BY <1>3 DEF SignIn!ConfirmCode
<1>4. ASSUME NEW k \in SignIn!Keys, SignIn!Granted(k) PROVE SignInCore'
  BY <1>4 DEF SignIn!Granted, SignIn!Attempt, Attempts, Waiting
<1>5. ASSUME NEW k \in SignIn!Keys, SignIn!SaveGrant(k) PROVE SignInCore'
  <2>1. /\ SignIn!Attempt(k, "granted", "saved")
        /\ config' = [key |-> k, server |-> attempts[k].server] /\ out' = FALSE
        /\ UNCHANGED <<confirmed, issuer, viewer, slot, command, told>>
    BY <1>5 DEF SignIn!SaveGrant
  <2>2. /\ k \in DOMAIN attempts /\ attempts[k].at = "granted"
        /\ DOMAIN attempts' = DOMAIN attempts
        /\ \A l \in DOMAIN attempts :
              /\ attempts'[l] \in Attempts
              /\ attempts'[l].server = attempts[l].server /\ attempts'[l].by = attempts[l].by
              /\ attempts'[l].at = IF l = k THEN "saved" ELSE attempts[l].at
    BY <2>1, AttemptGoesOn DEF Waiting
  <2>3. k \in 0 .. MaxKeys /\ attempts[k].server \in Servers
    BY <2>2 DEF Attempts, SignIn!SignInAssumption
  <2>6. config' \in Configs
    BY <2>1, <2>3 DEF Configs
  <2>7. /\ DOMAIN attempts' \subseteq DOMAIN issuer'
        /\ \A l \in DOMAIN attempts' : attempts'[l] \in Attempts /\ attempts'[l].server = issuer'[l]
    BY <2>1, <2>2
  <2>8. \A x \in slot' : /\ x \in [id : DOMAIN attempts', state : {"pending", "complete", "error"}]
                         /\ attempts'[x.id].by = "viewer"
    BY <2>1, <2>2
  <2>4. SignInShape'
    BY <2>1, <2>6, <2>7, <2>8 DEF SignInShape
  <2>5. KeysApart' /\ OutIsOut'
    BY <2>1, <2>2, <2>3 DEF SignIn!SignInAssumption
  <2> QED
    BY SMTT(60), <2>1, <2>2, <2>4, <2>5
<1>6. ASSUME NEW k \in SignIn!Keys, SignIn!SaveFails(k) \/ SignIn!Expire(k) PROVE SignInCore'
  <2>1. PICK from \in {"granted", "waits"} : SignIn!Attempt(k, from, "failed")
    BY <1>6 DEF SignIn!SaveFails, SignIn!Expire
  <2>2. UNCHANGED <<config, confirmed, issuer, viewer, slot, command, told, out>>
    BY <1>6 DEF SignIn!SaveFails, SignIn!Expire
  <2>3. /\ k \in DOMAIN attempts /\ attempts[k].at = from
        /\ DOMAIN attempts' = DOMAIN attempts
        /\ \A l \in DOMAIN attempts :
              /\ attempts'[l] \in Attempts
              /\ attempts'[l].server = attempts[l].server /\ attempts'[l].by = attempts[l].by
              /\ attempts'[l].at = IF l = k THEN "failed" ELSE attempts[l].at
    BY <2>1, AttemptGoesOn DEF Waiting
  <2>4. SignInShape' /\ KeysApart' /\ OutIsOut'
    BY SMTT(60), <2>2, <2>3
  <2>5. SignIn!PageToldTruth'
    BY SMTT(60), <2>1, <2>2, <2>3
  <2>6. SignIn!NoStrayWait'
    BY SMTT(60), <2>2, <2>3
  <2> QED
    BY <2>2, <2>4, <2>5, <2>6
<1>7. ASSUME NEW k \in SignIn!Keys, SignIn!Report(k) PROVE SignInCore'
  <2>1. PICK end \in {<<"saved", "complete">>, <<"failed", "error">>} :
          /\ SignIn!Attempt(k, end[1], end[2])
          /\ slot' = {IF x.id = k THEN [x EXCEPT !.state = end[2]] ELSE x : x \in slot}
    BY <1>7 DEF SignIn!Report
  <2>2. /\ UNCHANGED <<config, confirmed, issuer, viewer, command, told, out>>
        /\ end[2] \in {"complete", "error"}
    BY <1>7, <2>1 DEF SignIn!Report
  <2>3. /\ k \in DOMAIN attempts /\ attempts[k].at \in Waiting
        /\ DOMAIN attempts' = DOMAIN attempts
        /\ \A l \in DOMAIN attempts :
              /\ attempts'[l] \in Attempts
              /\ attempts'[l].server = attempts[l].server /\ attempts'[l].by = attempts[l].by
              /\ attempts'[l].at = IF l = k THEN end[2] ELSE attempts[l].at
    BY <2>1, AttemptGoesOn DEF Waiting
  <2>4. \A y \in slot' : \E x \in slot : y = IF x.id = k THEN [x EXCEPT !.state = end[2]] ELSE x
    BY <2>1
  <2>5. \A x \in slot : x \in [id : DOMAIN attempts, state : {"pending", "complete", "error"}]
    OBVIOUS
  <2>6. \A y \in slot' : /\ y \in [id : DOMAIN attempts, state : {"pending", "complete", "error"}]
                         /\ \E x \in slot : x.id = y.id /\ y.state = IF x.id = k THEN end[2] ELSE x.state
    BY SMTT(60), <2>2, <2>4, <2>5
  <2>7. \A x \in slot : \E y \in slot' : y.id = x.id
    BY ZenonT(30), <1>7, <1>0, ReportKeepsSlot
  <2>8. SignInShape'
    BY SMTT(60), <2>2, <2>3, <2>4, <2>6
  <2>9. SignIn!PageToldTruth' /\ SignIn!NoStrayWait'
    BY SMTT(60), <2>2, <2>3, <2>6, <2>7 DEF Waiting
  <2> QED
    BY <2>2, <2>8, <2>9
<1>8. ASSUME SignIn!Cancel PROVE SignInCore'
  BY <1>8 DEF SignIn!Cancel, SignIn!Aborted, Attempts, Waiting
<1>9. ASSUME SignIn!StartViewer PROVE SignInCore'
  <2>1. /\ viewer = {}
        /\ viewer' = {[target |-> SignIn!Issued, key |-> SignIn!TargetKey(SignIn!Issued)]}
        /\ UNCHANGED <<config, attempts, confirmed, issuer, slot, command, told, out>>
    BY <1>9 DEF SignIn!StartViewer, SignIn!signing
  <2>2. /\ SignIn!Issued = ServerOf(config) /\ SignIn!Issued \in Servers
        /\ SignIn!TargetKey(SignIn!Issued) = config.key /\ config.key \in 0 .. MaxKeys
    BY DEF SignIn!Issued, SignIn!TargetKey, SignIn!SignInAssumption, Configs
  <2> QED
    BY <2>1, <2>2
<1>10. ASSUME SignIn!StopViewer PROVE SignInCore'
  BY SMTT(60), <1>10 DEF SignIn!StopViewer, Attempts, Waiting
<1>11. ASSUME SignIn!ReadForLogout PROVE SignInCore'
  <2>1. /\ command' = [at |-> "logout", config |-> [config EXCEPT !.key = 0]]
        /\ UNCHANGED <<config, attempts, confirmed, issuer, viewer, slot, told, out>>
    BY <1>11 DEF SignIn!ReadForLogout, SignIn!signing
  <2>2. /\ [config EXCEPT !.key = 0] \in Configs /\ [config EXCEPT !.key = 0].key = 0
    BY DEF Configs, SignIn!SignInAssumption
  <2> QED
    BY <2>1, <2>2
<1>12. ASSUME SignIn!WriteConfig PROVE SignInCore'
  BY <1>12 DEF SignIn!WriteConfig, SignIn!Idle, SignIn!signing
<1>16. ASSUME NEW flag \in Servers \union {NoServer}, SignIn!ReadForPaste(flag) PROVE SignInCore'
  <2>1. /\ SignIn!NewKey <= MaxKeys
        /\ issuer' = SignIn!Numbered(issuer, SignIn!NewKey, SignIn!Target(flag))
        /\ command' = [at |-> "paste",
                       config |-> [key |-> SignIn!NewKey, server |-> IF flag = NoServer THEN config.server ELSE flag]]
        /\ UNCHANGED <<config, attempts, confirmed, viewer, slot, told, out>>
    BY <1>16 DEF SignIn!ReadForPaste, SignIn!signing
  <2>2. SignIn!Target(flag) \in Servers
    BY DEF SignIn!Target, SignIn!Issued, SignIn!SignInAssumption, Configs
  <2>3. /\ DOMAIN issuer' = DOMAIN issuer \union {SignIn!NewKey} /\ SignIn!NewKey \in 0 .. MaxKeys
        /\ issuer'[SignIn!NewKey] = SignIn!Target(flag)
        /\ \A k \in DOMAIN issuer : issuer'[k] = issuer[k]
        /\ \E k \in 0 .. MaxKeys : DOMAIN issuer' = 1 .. k
        /\ \A k \in DOMAIN issuer' : issuer'[k] \in Servers
    BY <2>1, <2>2, IssuerGrows
  <2> DEFINE saving == [key |-> SignIn!NewKey, server |-> IF flag = NoServer THEN config.server ELSE flag]
  <2>4. saving \in Configs /\ saving.key = SignIn!NewKey /\ ServerOf(saving) = SignIn!Target(flag)
    BY <2>3 DEF Configs, SignIn!Target, SignIn!Issued, SignIn!SignInAssumption
  <2>5. /\ command'.config = saving /\ command'.at = "paste"
        /\ command' \in [at : {"logout", "paste"}, config : Configs]
    BY <2>1, <2>4
  <2> HIDE DEF saving, SignIn!NewKey
  <2>6. SignInShape'
    BY ZenonT(60), <2>1, <2>3, <2>5
  <2>7. KeysApart'
    <3>1. IssuedBy(config.key, ServerOf(config))'
      BY <2>1, <2>3
    <3>2. \A v \in viewer' : IssuedBy(v.key, v.target)'
      BY <2>1, <2>3
    <3>3. saving.key \in DOMAIN issuer' /\ issuer'[saving.key] = ServerOf(saving)
      BY <2>3, <2>4
    <3>4. IssuedBy(command.config.key, ServerOf(command.config))'
      BY <2>5, <3>3
    <3>5. \A x \in told' : x[1] \in DOMAIN issuer'
      BY <2>1, <2>3
    <3> QED
      BY <3>1, <3>2, <3>4, <3>5
  <2>8. OutIsOut'
    BY <2>1, <2>5
  <2> QED
    BY <2>1, <2>3, <2>6, <2>7, <2>8
<1>13. ASSUME NEW flag \in Servers \union {NoServer}, SignIn!ReadToSend(flag) PROVE SignInCore'
  BY <1>13 DEF SignIn!ReadToSend, SignIn!signing
<1>17. ASSUME NEW flag \in Servers \union {NoServer}, SignIn!ShareSignsIn(flag) PROVE SignInCore'
  <2>1. /\ SignIn!Begin(DefaultServer, "terminal")
        /\ UNCHANGED <<config, viewer, slot, command, told, out>>
    BY <1>17 DEF SignIn!ShareSignsIn
  <2>2. DefaultServer \in Servers
    BY DEF SignIn!SignInAssumption
  <2>3. SignInShape' /\ KeysApart' /\ SignIn!KeyReadWithItsServer'
    BY <2>1, <2>2, BeginEffect
  <2>4. /\ \A l \in DOMAIN attempts : attempts'[l] = attempts[l]
        /\ attempts'[SignIn!NewKey].by = "terminal"
        /\ DOMAIN attempts' = DOMAIN attempts \union {SignIn!NewKey}
    BY <2>1, <2>2, BeginEffect
  <2>5. SignIn!PageToldTruth' /\ SignIn!NoStrayWait'
    BY <2>1, <2>4
  <2> QED
    BY <2>1, <2>3, <2>5
<1>18. ASSUME SignIn!ShareSignedIn \/ SignIn!StopSending PROVE SignInCore'
  <2>1. UNCHANGED <<config, attempts, confirmed, issuer, viewer, slot, command, told, out>>
    BY <1>18 DEF SignIn!ShareSignedIn, SignIn!StopSending, SignIn!signing
  <2> QED
    BY <2>1
<1>19. ASSUME SignIn!SendFromTerminal PROVE SignInCore'
  <2> DEFINE key == sending.key
             server == sending.server
             by == sending.by
  <2>1. /\ told' = told \union {<<key, server, by, sending.out>>}
        /\ key # 0 /\ sending.at = "holds"
        /\ UNCHANGED <<config, attempts, confirmed, issuer, viewer, slot, command, out>>
    BY <1>19 DEF SignIn!SendFromTerminal, SignIn!Send, SignIn!signing
  <2>2. /\ key \in DOMAIN issuer /\ sending.out = FALSE
        /\ by # "share" => issuer[key] = server
    BY <1>0, <2>1 DEF SendingInv
  <2>3. told' = told \union {<<key, server, by, FALSE>>}
    BY <2>1, <2>2
  <2> HIDE DEF key, server, by
  <2> QED
    BY <2>1, <2>2, <2>3
<1>14. ASSUME SignIn!SendFromViewer PROVE SignInCore'
  BY <1>14
     DEF SignIn!SendFromViewer, SignIn!Send, SignIn!ViewerKey, SignIn!TargetKey, SignIn!Issued,
         Configs, SignIn!signing
<1>15. CASE UNCHANGED SignIn!vars
  BY <1>15 DEF SignIn!vars, SignIn!signing
<1> QED
  BY <1>1, <1>2, <1>3, <1>4, <1>5, <1>6, <1>7, <1>8, <1>9, <1>10, <1>11, <1>12, <1>13, <1>14, <1>15,
     <1>16, <1>17, <1>18, <1>19
     DEF SignIn!Next, SignIn!Task
LEMMA SignInInvNext ==
  ASSUME SignIn!SignInAssumption, SignInInv, SignIn!Next \/ UNCHANGED SignIn!vars
  PROVE  SignInInv'
  BY SignInCoreNext, SendingNext DEF SignInInv

-----------------------------------------------------------------------------
(* Drafts.                                                                 *)

Saving == {"agreed", "written", "linked", "taken"}
Tabbed == [base : 0 .. MaxRevisions, at : {"shown", "refused"} \union Saving]

\* Revisions are numbered without a gap, and no tab was shown one that is not there.
DraftShape ==
  /\ Drafts!Newest \in 0 .. MaxRevisions /\ DOMAIN files = 1 .. Drafts!Newest
  /\ tab \in [Tabs -> Tabbed]
  /\ \A t \in Tabs : tab[t].base <= Drafts!Newest
  /\ lock \in [Viewers -> SUBSET Tabs] /\ DOMAIN temp = Viewers

\* Who is saving holds the lock of their viewer, alone.
LockHeld ==
  /\ \A t \in Tabs : tab[t].at \in Saving <=> t \in lock[ViewerOf[t]]
  /\ \A v \in Viewers : \A t, u \in lock[v] : t = u /\ ViewerOf[t] = v

\* A save that wrote the temporary file finds its own edit in it, and one that was linked in
\* the revision.
OwnEdit(t) ==
  /\ tab[t].at \in Saving => tab[t].base < MaxRevisions
  /\ tab[t].at = "written" =>
       /\ Drafts!Next1(t) \in DOMAIN temp[ViewerOf[t]]
       /\ temp[ViewerOf[t]][Drafts!Next1(t)] = Drafts!Edit(t)
  /\ tab[t].at = "linked" =>
       Drafts!Next1(t) \in DOMAIN files /\ files[Drafts!Next1(t)] = Drafts!Edit(t)

DraftsInv ==
  /\ DraftShape /\ LockHeld
  /\ \A t \in Tabs : OwnEdit(t)
  /\ Drafts!AckedIsKept

\* Counting is the same there as here.
LEMMA DraftCounts == \A S : Drafts!Cardinality(S) = Cardinality(S)
  BY DEF Drafts!Cardinality, Cardinality

\* A draft nobody edited has no revision.
LEMMA DraftsInvInit == Drafts!DraftsAssumption /\ Drafts!Init => DraftsInv
<1> SUFFICES ASSUME Drafts!DraftsAssumption, Drafts!Init PROVE DraftsInv
  OBVIOUS
<1> USE DEF Drafts!DraftsAssumption, Drafts!Init
<1>1. DOMAIN files = {} /\ Drafts!Newest = 0
  BY DraftCounts, FS_EmptySet DEF Drafts!Newest
<1> QED
  BY <1>1 DEF DraftsInv, DraftShape, LockHeld, OwnEdit, Drafts!AckedIsKept, Tabbed, Saving

\* The hard link succeeds only for who was shown the newest revision, and makes the next.
LEMMA LinkedIsNext ==
  ASSUME Drafts!DraftsAssumption, DraftsInv, NEW t \in Tabs, Drafts!Link(t), Drafts!Next1(t) \notin DOMAIN files
  PROVE  /\ Drafts!Newest = tab[t].base /\ Drafts!Newest' = Drafts!Newest + 1
         /\ DOMAIN files' = 1 .. Drafts!Newest + 1
         /\ \A r \in DOMAIN files : r \in DOMAIN files' /\ files'[r] = files[r]
         /\ files'[Drafts!Newest + 1] = Drafts!Edit(t)
<1> USE DEF Drafts!DraftsAssumption, DraftsInv, DraftShape
<1>1. /\ tab[t].base \in Nat /\ Drafts!Newest \in Nat /\ tab[t].base <= Drafts!Newest
      /\ DOMAIN files = 1 .. Drafts!Newest
  BY DEF Tabbed
<1>2. Drafts!Next1(t) = tab[t].base + 1
  BY DEF Drafts!Next1
<1>3. Drafts!Newest = tab[t].base
  BY <1>1, <1>2
<1>4. /\ files' = Drafts!Numbered(files, Drafts!Next1(t), temp[ViewerOf[t]][Drafts!Next1(t)])
      /\ temp[ViewerOf[t]][Drafts!Next1(t)] = Drafts!Edit(t)
  BY DEF Drafts!Link, OwnEdit
<1>5. /\ DOMAIN files' = DOMAIN files \union {Drafts!Next1(t)}
      /\ \A r \in DOMAIN files' : files'[r] = IF r = Drafts!Next1(t) THEN Drafts!Edit(t) ELSE files[r]
  BY <1>4 DEF Drafts!Numbered
<1>6. DOMAIN files' = 1 .. Drafts!Newest + 1
  BY <1>1, <1>2, <1>3, <1>5
<1>7. Drafts!Newest' = Cardinality(DOMAIN files')
  BY DraftCounts DEF Drafts!Newest
<1>8. Drafts!Newest' = Drafts!Newest + 1
  BY <1>1, <1>6, <1>7, FS_Interval
<1> QED
  BY <1>1, <1>2, <1>3, <1>5, <1>6, <1>8

\* Every step of a tab and of a viewer keeps it.
LEMMA DraftsInvNext ==
  ASSUME Drafts!DraftsAssumption, DraftsInv, Drafts!Next \/ UNCHANGED Drafts!vars
  PROVE  DraftsInv'
<1> USE DEF Drafts!DraftsAssumption, DraftsInv, DraftShape, LockHeld, OwnEdit, Drafts!AckedIsKept,
            Drafts!Next1, Drafts!Edit
<1>0. UNCHANGED files => Drafts!Newest' = Drafts!Newest
  BY DEF Drafts!Newest
<1>1. ASSUME NEW t \in Tabs, Drafts!Load(t) PROVE DraftsInv'
  BY <1>0, <1>1 DEF Drafts!Load, Tabbed, Saving
<1>2. ASSUME NEW t \in Tabs, Drafts!Compare(t) PROVE DraftsInv'
  <2>1. /\ UNCHANGED <<files, temp, acked>> /\ tab[t].at = "shown" /\ lock[ViewerOf[t]] = {}
        /\ tab[t].base + 1 <= MaxRevisions
    BY <1>2 DEF Drafts!Compare
  <2>2. CASE Drafts!Newest = tab[t].base
    <3>1. lock' = [lock EXCEPT ![ViewerOf[t]] = {t}] /\ tab' = [tab EXCEPT ![t].at = "agreed"]
      BY <1>2, <2>2 DEF Drafts!Compare, Drafts!Step
    <3> QED
      BY <1>0, <2>1, <2>2, <3>1 DEF Tabbed, Saving
  <2>3. CASE Drafts!Newest # tab[t].base
    <3>1. lock' = lock /\ tab' = [tab EXCEPT ![t].at = "refused"]
      BY <1>2, <2>3 DEF Drafts!Compare, Drafts!Step
    <3> QED
      BY <1>0, <2>1, <2>3, <3>1 DEF Tabbed, Saving
  <2> QED
    BY <2>2, <2>3
<1>3. ASSUME NEW t \in Tabs, Drafts!WriteTemp(t) PROVE DraftsInv'
  BY <1>0, <1>3 DEF Drafts!WriteTemp, Drafts!Step, Drafts!Numbered, Tabbed, Saving
<1>4. ASSUME NEW t \in Tabs, Drafts!Link(t) PROVE DraftsInv'
  <2>1. UNCHANGED <<temp, lock, acked>> /\ tab[t].at = "written"
    BY <1>4 DEF Drafts!Link
  <2>2. CASE Drafts!Next1(t) \in DOMAIN files
    <3>1. files' = files /\ tab' = [tab EXCEPT ![t].at = "taken"]
      BY <1>4, <2>2 DEF Drafts!Link, Drafts!Step
    <3> QED
      BY <1>0, <2>1, <3>1 DEF Tabbed, Saving
  <2>3. CASE Drafts!Next1(t) \notin DOMAIN files
    <3>1. tab' = [tab EXCEPT ![t].at = "linked"]
      BY <1>4, <2>3 DEF Drafts!Link, Drafts!Step
    <3>2. /\ Drafts!Newest = tab[t].base /\ Drafts!Newest' = Drafts!Newest + 1
          /\ DOMAIN files' = 1 .. Drafts!Newest + 1
          /\ \A r \in DOMAIN files : r \in DOMAIN files' /\ files'[r] = files[r]
          /\ files'[Drafts!Newest + 1] = Drafts!Edit(t)
      BY <1>4, <2>3, LinkedIsNext
    <3> QED
      BY <2>1, <3>1, <3>2 DEF Tabbed, Saving
  <2> QED
    BY <2>2, <2>3
<1>5. ASSUME NEW t \in Tabs, Drafts!Reply(t) PROVE DraftsInv'
  <2>1. /\ UNCHANGED <<files, temp>> /\ tab[t].at \in {"linked", "taken"}
        /\ lock' = [lock EXCEPT ![ViewerOf[t]] = {}]
    BY <1>5 DEF Drafts!Reply, Drafts!Free
  <2>2. CASE tab[t].at = "linked"
    <3>1. /\ acked' = acked \union {[rev |-> Drafts!Next1(t), edit |-> Drafts!Edit(t)]}
          /\ tab' = [tab EXCEPT ![t] = [base |-> Drafts!Next1(t), at |-> "shown"]]
      BY <1>5, <2>2 DEF Drafts!Reply
    <3>2. Drafts!AckedIsKept'
      BY <2>1, <2>2, <3>1
    <3>3. Drafts!Newest' = Drafts!Newest /\ Drafts!Next1(t) \in 0 .. Drafts!Newest
      <4>1. Drafts!Next1(t) \in DOMAIN files
        BY <2>2
      <4>2. Drafts!Next1(t) \in 1 .. Drafts!Newest
        BY <4>1
      <4> QED
        BY <1>0, <2>1, <4>2
    <3>4. DraftShape'
      BY <2>1, <3>1, <3>3 DEF Tabbed
    <3>5. LockHeld'
      BY <2>1, <2>2, <3>1 DEF Saving
    <3>6. \A u \in Tabs : OwnEdit(u)'
      BY <2>1, <2>2, <3>1 DEF Saving
    <3> QED
      BY <3>2, <3>4, <3>5, <3>6
  <2>3. CASE tab[t].at = "taken"
    <3>1. acked' = acked /\ tab' = [tab EXCEPT ![t].at = "refused"]
      BY <1>5, <2>3 DEF Drafts!Reply, Drafts!Step
    <3> QED
      BY <1>0, <2>1, <3>1 DEF Tabbed, Saving
  <2> QED
    BY <2>1, <2>2, <2>3
<1>6. ASSUME NEW t \in Tabs, Drafts!CannotWrite(t) PROVE DraftsInv'
  BY <1>0, <1>6 DEF Drafts!CannotWrite, Drafts!Step, Drafts!Free, Tabbed, Saving
<1>7. ASSUME NEW v \in Viewers, Drafts!Stop(v) PROVE DraftsInv'
  BY <1>0, <1>7 DEF Drafts!Stop, Tabbed, Saving
<1>8. CASE UNCHANGED Drafts!vars
  BY <1>0, <1>8 DEF Drafts!vars
<1> QED
  BY <1>1, <1>2, <1>3, <1>4, <1>5, <1>6, <1>7, <1>8 DEF Drafts!Next, Drafts!Install

\* The revisions, in order, are the register the drafts promise.
Revisions == [r \in 1 .. Drafts!Newest |-> files[r]]

\* At first the register is empty.
LEMMA NoRevisions == Drafts!Init => Revisions = <<>>
  BY DraftCounts, FS_EmptySet DEF Revisions, Drafts!Newest, Drafts!Init

\* A step appends the edit of who was shown the newest revision, or leaves the register alone.
LEMMA RevisionsAppend ==
  ASSUME Drafts!DraftsAssumption, DraftsInv, DraftsInv', Drafts!Next \/ UNCHANGED Drafts!vars
  PROVE  Drafts!Register!SaveNext \/ Revisions' = Revisions
<1>1. ASSUME NEW t \in Tabs, Drafts!Link(t), Drafts!Next1(t) \notin DOMAIN files
      PROVE  Drafts!Register!SaveNext
  <2>1. /\ Drafts!Newest = tab[t].base /\ Drafts!Newest' = Drafts!Newest + 1
        /\ DOMAIN files' = 1 .. Drafts!Newest + 1
        /\ \A r \in DOMAIN files : r \in DOMAIN files' /\ files'[r] = files[r]
        /\ files'[Drafts!Newest + 1] = Drafts!Edit(t)
    BY <1>1, LinkedIsNext
  <2> DEFINE n == tab[t].base
             e == Drafts!Edit(t)
  <2>2. n \in Nat /\ n < MaxRevisions /\ n \in 0 .. MaxRevisions /\ DOMAIN files = 1 .. n
    BY <1>1, <2>1
       DEF DraftsInv, DraftShape, Tabbed, Drafts!DraftsAssumption, OwnEdit, Saving, Drafts!Link
  <2>3. e \in [by : Tabs, base : 0 .. MaxRevisions] /\ e.base = n
    BY <2>2 DEF Drafts!Edit
  <2>4. Revisions = [r \in 1 .. n |-> files[r]] /\ Len(Revisions) = n
    BY <2>1, <2>2 DEF Revisions
  <2>5. Revisions' = [r \in 1 .. n + 1 |-> IF r = n + 1 THEN e ELSE files[r]]
    BY <2>1, <2>2 DEF Revisions
  <2> HIDE DEF n, e
  <2>6. Revisions' = Append(Revisions, e)
    BY <2>2, <2>4, <2>5
  <2> QED
    BY <2>2, <2>3, <2>4, <2>6 DEF Drafts!Register!SaveNext, Revisions
<1>2. UNCHANGED files => Revisions' = Revisions
  BY SMTT(60) DEF Revisions, Drafts!Newest
<1> QED
  BY <1>1, <1>2
     DEF Drafts!Next, Drafts!Load, Drafts!Compare, Drafts!Install, Drafts!WriteTemp, Drafts!Link,
         Drafts!Reply,
                    Drafts!CannotWrite, Drafts!Stop, Drafts!vars

-----------------------------------------------------------------------------
(* Previews, for any viewers, files, writes, builds and faults.  A stamp   *)
(* is taken before any file is read, so that what is read is no older than *)
(* it says: that relation, of a request under way and of the note, is the  *)
(* inductive invariant.                                                    *)

\* Counting is the same there as here.
LEMMA PreviewCounts == \A x, S : Previewing(x)!Cardinality(S) = Cardinality(S)
  BY DEF Previewing!Cardinality, Cardinality

Versions(x) == [x.files -> 0 .. x.versions]
Stamps(x) == [build : 1 .. x.builds, files : [x.listed -> 0 .. x.versions]]
MadeBy(x) == [importer : 1 .. x.builds, read : Versions(x)]

PreviewsShape(x) ==
  /\ version \in Versions(x) /\ build \in 1 .. x.builds
  /\ x.viewers \subseteq DOMAIN running /\ \A v \in x.viewers : running[v] \in 1 .. x.builds
  /\ saved \subseteq MadeBy(x)
  /\ note \subseteq [stamp : Stamps(x), preview : MadeBy(x)] /\ AtMostOne(note)
  /\ served \subseteq [preview : MadeBy(x), began : Versions(x), by : 1 .. x.builds] /\ AtMostOne(served)
  /\ x.viewers \subseteq DOMAIN previewing
  /\ \A v \in x.viewers : previewing[v].at \in {"idle", "stamped", "reads", "saved"}

\* A request knows the versions it began at, and every file it read is no older.
Begun(x, v) ==
  ~Previewing(x)!At(v, "idle") =>
    /\ previewing[v].began \in Versions(x) /\ \A f \in x.files : previewing[v].began[f] <= version[f]
    /\ previewing[v].stamp \subseteq Stamps(x) /\ AtMostOne(previewing[v].stamp)
    /\ \A s \in previewing[v].stamp : /\ \A f \in x.listed : s.files[f] = previewing[v].began[f]
                                      /\ ~x.namesItself => s.build = running[v]
    /\ DOMAIN previewing[v].read \subseteq x.files
    /\ previewing[v].read \in [DOMAIN previewing[v].read -> 0 .. x.versions]
    /\ \A f \in DOMAIN previewing[v].read : previewing[v].read[f] \in previewing[v].began[f] .. version[f]
    /\ Previewing(x)!At(v, "saved") => DOMAIN previewing[v].read = x.files /\ previewing[v].read \in Versions(x)

\* The note says of a preview what it was made from, or from something older.
NoteIsTrue(x) ==
  \A n \in note :
    /\ \A f \in x.listed : n.preview.read[f] >= n.stamp.files[f]
    /\ ~x.namesItself => n.preview.importer = n.stamp.build

\* A preview served shows the files that were listed no older than they were.
ServedListed(x) == \A y \in served : \A f \in x.listed : y.preview.read[f] >= y.began[f]

PreviewsInv(x) ==
  /\ PreviewsShape(x) /\ NoteIsTrue(x) /\ \A v \in x.viewers : Begun(x, v)
  /\ ServedListed(x) /\ (~x.namesItself => Previewing(x)!OwnImporter)

\* With nothing asked for and nothing stored there is nothing to be wrong.
LEMMA PreviewsInvInit ==
  ASSUME NEW x, Previewing(x)!PreviewsAssumption, Previewing(x)!Init PROVE PreviewsInv(x)
  BY DEF Previewing!PreviewsAssumption, Previewing!Init, PreviewsInv, PreviewsShape, NoteIsTrue, Begun, ServedListed,
         Previewing!OwnImporter, Versions,
         AtMostOne, Previewing!Idle, Previewing!At

\* Every step of a viewer, of an agent, of an upgrade and of damage keeps it.
LEMMA PreviewsInvNext ==
  ASSUME NEW x, Previewing(x)!PreviewsAssumption, PreviewsInv(x), Previewing(x)!Next \/ UNCHANGED Previewing(x)!vars
  PROVE  PreviewsInv(x)'
<1> USE DEF Previewing!PreviewsAssumption, PreviewsInv, PreviewsShape, NoteIsTrue, Begun, ServedListed,
            Previewing!OwnImporter, AtMostOne, Previewing!At, Previewing!Goes
<1>1. ASSUME NEW v \in x.viewers, Previewing(x)!Stamp(v) PROVE PreviewsInv(x)'
  <2>1. Previewing(x)!SourceStamp(v) \subseteq Stamps(x) /\ AtMostOne(Previewing(x)!SourceStamp(v))
    BY DEF Previewing!SourceStamp, Stamps, Previewing!FileStamp, Previewing!BuildStamp, Versions
  <2>2. \A s \in Previewing(x)!SourceStamp(v) : (\A f \in x.listed : s.files[f] = version[f]) /\ (~x.namesItself => s.build = running[v])
    BY DEF Previewing!SourceStamp, Previewing!FileStamp, Previewing!BuildStamp
  <2> QED
    BY <1>1, <2>1, <2>2 DEF Previewing!Stamp, Versions
<1>2. ASSUME NEW v \in x.viewers, Previewing(x)!Reuse(v) PROVE PreviewsInv(x)'
  BY <1>2 DEF Previewing!Reuse, Previewing!Serve, Previewing!Reusable, Previewing!Idle, Versions, MadeBy, Stamps
<1>3. ASSUME NEW v \in x.viewers, Previewing(x)!SavePreview(v) PROVE PreviewsInv(x)'
  <2>1. /\ Previewing(x)!At(v, "reads") /\ DOMAIN previewing[v].read = x.files
        /\ UNCHANGED <<version, build, note, running, served, faults>>
        /\ previewing' = [previewing EXCEPT ![v] = [previewing[v] EXCEPT !.at = "saved"]]
    BY <1>3 DEF Previewing!SavePreview
  <2>3. previewing[v].read \in Versions(x)
    BY <2>1 DEF Versions
  <2>4. saved' \subseteq MadeBy(x)
    BY <1>3, <2>3 DEF Previewing!SavePreview, Previewing!Preview, MadeBy
  <2> QED
    BY <2>1, <2>3, <2>4
<1>4. ASSUME NEW v \in x.viewers, Previewing(x)!Remember(v) PROVE PreviewsInv(x)'
  BY <1>4 DEF Previewing!Remember, Previewing!Preview, Previewing!Serve, Previewing!Idle, Versions, MadeBy, Stamps
<1>5. ASSUME NEW v \in x.viewers, Previewing(x)!Restart(v) PROVE PreviewsInv(x)'
  BY <1>5 DEF Previewing!Restart, Previewing!Idle
<1>6. ASSUME NEW v \in x.viewers, NEW f \in x.files, Previewing(x)!Import(v, f) PROVE PreviewsInv(x)'
  BY <1>6 DEF Previewing!Import, Versions
<1>7. ASSUME NEW f \in x.files, Previewing(x)!Write(f) PROVE PreviewsInv(x)'
  BY <1>7 DEF Previewing!Write, Versions
<1>8. ASSUME Previewing(x)!Upgrade \/ Previewing(x)!Damage PROVE PreviewsInv(x)'
  BY <1>8 DEF Previewing!Upgrade, Previewing!Damage
<1>9. CASE UNCHANGED Previewing(x)!vars
  BY <1>9 DEF Previewing!vars
<1> QED
  BY <1>1, <1>2, <1>3, <1>4, <1>5, <1>6, <1>7, <1>8, <1>9 DEF Previewing!Next

\* What the invariant says of the previews served, where the viewer listed every file an
\* import reads, and where the path of a replaced binary names no file.
LEMMA PreviewsInvSays ==
  ASSUME NEW x, PreviewsInv(x)
  PROVE  /\ x.listed = x.files => Previewing(x)!NeverStale
         /\ ~x.namesItself => Previewing(x)!OwnImporter
  BY DEF PreviewsInv, ServedListed, Previewing!NeverStale

\* The invariant gives every value its kind.
LEMMA PreviewsInvTypes == ASSUME NEW x, PreviewsInv(x) PROVE Previewing(x)!PreviewsTypeOK
  BY FewAreOne, PreviewCounts DEF PreviewsInv, PreviewsShape, Previewing!PreviewsTypeOK, Versions, MadeBy

\* The invariant holds in every reachable state.
THEOREM PreviewsInvariance ==
  ASSUME NEW x, Previewing(x)!PreviewsAssumption PROVE Previewing(x)!Spec => []PreviewsInv(x)
<1>1. Previewing(x)!Init => PreviewsInv(x)
  BY PreviewsInvInit
<1>2. PreviewsInv(x) /\ [Previewing(x)!Next]_(Previewing(x)!vars) => PreviewsInv(x)'
  BY PreviewsInvNext
<1> QED
  BY <1>1, <1>2, PTL DEF Previewing!Spec

\* view.rs, Source::preview: where the viewer listed every file an import reads, a preview
\* served is no older, in any file, than the session was when it was asked for, however
\* writes, other viewers, upgrades and damage come between.
THEOREM NeverServedStale ==
  ASSUME NEW x, Previewing(x)!PreviewsAssumption, x.listed = x.files
  PROVE  Previewing(x)!Spec => []Previewing(x)!NeverStale
<1>1. PreviewsInv(x) => Previewing(x)!NeverStale
  BY PreviewsInvSays
<1>2. Previewing(x)!Spec => []PreviewsInv(x)
  BY PreviewsInvariance
<1> QED
  BY <1>1, <1>2, PTL

\* view.rs, build_stamp: where the path of a replaced binary names no file, a viewer shows
\* only what its own importer made.
THEOREM ServedByOwnImporter ==
  ASSUME NEW x, Previewing(x)!PreviewsAssumption, ~x.namesItself
  PROVE  Previewing(x)!Spec => []Previewing(x)!OwnImporter
<1>1. PreviewsInv(x) => Previewing(x)!OwnImporter
  BY PreviewsInvSays
<1>2. Previewing(x)!Spec => []PreviewsInv(x)
  BY PreviewsInvariance
<1> QED
  BY <1>1, <1>2, PTL

-----------------------------------------------------------------------------
(* Publishing, as LinkPublishProofs has it.                                *)

Linked == INSTANCE LinkPublishProofs WITH
  Processes <- {a}, Servers <- {s1}, Texts <- {t1, t2}, Publishable <- {t1, t2},
  MaxSealed <- 2, MaxFaults <- 1, op <- publishing

\* Its steps are those LinkPublishProofs is about.
LEMMA LinkedNext == [Link!Next]_(Link!vars) => [Linked!Next]_(Linked!vars)
  BY DEF Link!service, Linked!service, Link!vars, Linked!vars, Link!At, Linked!At, Link!Goes, Linked!Goes,
         Link!Step, Linked!Step, Link!Envelope, Linked!Envelope, Link!Kept, Linked!Kept, Link!Idle,
         Linked!Idle, Link!Inspect, Linked!Inspect, Link!Confirm, Linked!Confirm, Link!Decline,
         Linked!Decline, Link!Look, Linked!Look, Link!Resume, Linked!Resume, Link!Seal, Linked!Seal,
         Link!Taken, Linked!Taken, Link!Refused, Linked!Refused, Link!SaveReceipt,
         Linked!SaveReceipt, Link!Forget, Linked!Forget, Link!Show, Linked!Show, Link!Fails,
         Linked!Fails, Link!Delete, Linked!Delete, Link!Deleted, Linked!Deleted, Link!SayOffline,
         Linked!SayOffline, Link!Rewrite, Linked!Rewrite, Link!Upload, Linked!Upload, Link!Next,
         Linked!Next, Link!AllEnvelopes, Linked!AllEnvelopes

-----------------------------------------------------------------------------
(* What every behaviour of a machine keeps.                                *)

LocalInv ==
  /\ SignInInv
  /\ Is("links") => Linked!LinkInv
  /\ Is("drafts") => DraftsInv
  /\ Is("previews") => PreviewsInv(twoViewers)
  /\ Is("damaged previews") => PreviewsInv(damaged)
  /\ Is("stores") => SearchInv(stores)
  /\ Is("places") => SearchInv(places)
  /\ Is("chosen") => SearchInv(chosen)
  /\ Is("hermes") => HermesInv(unmarked)
  /\ Is("marked hermes") => HermesInv(marked)

\* At first each part is as its module has it.
LEMMA LocalInvInit == Init => LocalInv /\ Revisions = <<>>
<1> SUFFICES ASSUME Init PROVE LocalInv /\ Revisions = <<>>
  OBVIOUS
<1>1. /\ SignIn!Init /\ Link!Init /\ Drafts!Init /\ Previewing(twoViewers)!Init
      /\ Search(stores)!Init /\ Hermes(unmarked)!Init
  BY DEF Init
<1>2. SignInInv
  BY <1>1, SignInInvInit, LocalAssumption
<1>3. DraftsInv /\ Revisions = <<>>
  BY <1>1, DraftsInvInit, NoRevisions, LocalAssumption
<1>4. Linked!LinkInv
  BY <1>1, Linked!LinkInvInit, LocalAssumption
     DEF Link!Init, Linked!Init, Link!Idle, Linked!Idle, Link!PublishAssumption, Linked!PublishAssumption,
         Link!IsFiniteSet, Linked!IsFiniteSet
<1>5. PreviewsInv(twoViewers)
  BY <1>1, PreviewsInvInit, LocalAssumption
<1>6. PreviewsInv(damaged)
  BY <1>5, <1>1, LocalAssumption
     DEF Previewing!Init, PreviewsInv, PreviewsShape, NoteIsTrue, Begun, ServedListed, Previewing!OwnImporter,
         Versions, AtMostOne, Previewing!Idle, Previewing!At, twoViewers, damaged
<1>7. ASSUME NEW x, Search(x)!SearchAssumption PROVE SearchInv(x)
  <2>1. clock = 1 /\ sessions = <<>> /\ cmd = Search(x)!Idle
    BY <1>1 DEF Search!Init, Search!Idle
  <2> QED
    BY <1>7, <2>1, SearchInvInit
<1>8. ASSUME NEW x, Hermes(x)!SessionsAssumption PROVE HermesInv(x)
  <2>1. row = <<>> /\ made = <<>> /\ now = 0
    BY <1>1 DEF Hermes!Init
  <2> QED
    BY <1>8, <2>1, HermesInvInit
<1> QED
  BY <1>2, <1>3, <1>4, <1>5, <1>6, <1>7, <1>8, LocalAssumption DEF LocalInv

\* A behaviour is one part's, and its step is one of that part, or none.
LEMMA PartsStep ==
  [Next]_vars =>
    /\ SignIn!Next \/ UNCHANGED SignIn!vars
    /\ UNCHANGED part
    /\ Is("links") => [Link!Next]_(Link!vars)
    /\ Is("drafts") => Drafts!Next \/ UNCHANGED Drafts!vars
    /\ ~Is("drafts") => UNCHANGED draftVars
    /\ Is("previews") => Previewing(twoViewers)!Next \/ UNCHANGED Previewing(twoViewers)!vars
    /\ Is("damaged previews") => Previewing(damaged)!Next \/ UNCHANGED Previewing(damaged)!vars
    /\ Is("stores") => Search(stores)!Next \/ UNCHANGED searchVars
    /\ Is("places") => Search(places)!Next \/ UNCHANGED searchVars
    /\ Is("chosen") => Search(chosen)!Next \/ UNCHANGED searchVars
    /\ Is("hermes") => Hermes(unmarked)!Next \/ UNCHANGED hermesVars
    /\ Is("marked hermes") => Hermes(marked)!Next \/ UNCHANGED hermesVars
<1> SUFFICES ASSUME [Next]_vars
             PROVE  /\ SignIn!Next \/ UNCHANGED SignIn!vars
                    /\ UNCHANGED part
                    /\ Is("links") => [Link!Next]_(Link!vars)
                    /\ Is("drafts") => Drafts!Next \/ UNCHANGED Drafts!vars
                    /\ ~Is("drafts") => UNCHANGED draftVars
                    /\ Is("previews") => Previewing(twoViewers)!Next \/ UNCHANGED Previewing(twoViewers)!vars
                    /\ Is("damaged previews") => Previewing(damaged)!Next \/ UNCHANGED Previewing(damaged)!vars
                    /\ Is("stores") => Search(stores)!Next \/ UNCHANGED searchVars
                    /\ Is("places") => Search(places)!Next \/ UNCHANGED searchVars
                    /\ Is("chosen") => Search(chosen)!Next \/ UNCHANGED searchVars
                    /\ Is("hermes") => Hermes(unmarked)!Next \/ UNCHANGED hermesVars
                    /\ Is("marked hermes") => Hermes(marked)!Next \/ UNCHANGED hermesVars
  OBVIOUS
<1> USE DEF Is, signInVars, linkVars, draftVars, previewVars, searchVars, hermesVars, SignIn!vars, SignIn!signing,
            Link!vars, Link!service, Drafts!vars, Previewing!vars
<1>1. CASE SignInNext
  BY <1>1 DEF SignInNext
<1>2. CASE LinkNext
  BY <1>2 DEF LinkNext
<1>3. CASE DraftsNext
  BY <1>3 DEF DraftsNext
<1>4. CASE PreviewsNext
  BY <1>4 DEF PreviewsNext
<1>5. CASE TurnsNext
  BY <1>5 DEF TurnsNext
<1>6. CASE SearchNext
  BY <1>6 DEF SearchNext, Search!Next
<1>7. CASE HermesNext
  BY <1>7 DEF HermesNext
<1>8. CASE UNCHANGED vars
  BY <1>8 DEF vars
<1> QED
  BY <1>1, <1>2, <1>3, <1>4, <1>5, <1>6, <1>7, <1>8 DEF Next

\* Each part's step keeps its own invariant.
LEMMA LocalInvNext == LocalInv /\ [Next]_vars => LocalInv'
<1> SUFFICES ASSUME LocalInv, [Next]_vars PROVE LocalInv'
  OBVIOUS
<1>1. SignInInv'
  BY PartsStep, SignInInvNext, LocalAssumption DEF LocalInv
<1>2. Is("links") => Linked!LinkInv'
  BY PartsStep, LinkedNext, Linked!LinkInvNext, LocalAssumption
     DEF LocalInv, Link!PublishAssumption, Linked!PublishAssumption, Link!IsFiniteSet, Linked!IsFiniteSet
<1>3. Is("drafts") => DraftsInv'
  BY PartsStep, DraftsInvNext, LocalAssumption DEF LocalInv
<1>4. Is("previews") => PreviewsInv(twoViewers)'
  BY PartsStep, PreviewsInvNext, LocalAssumption DEF LocalInv
<1>5. Is("damaged previews") => PreviewsInv(damaged)'
  BY PartsStep, PreviewsInvNext, LocalAssumption DEF LocalInv
<1>6. /\ Is("stores") => SearchInv(stores)'
      /\ Is("places") => SearchInv(places)'
      /\ Is("chosen") => SearchInv(chosen)'
  BY PartsStep, SearchInvNext, LocalAssumption DEF LocalInv
<1>7. /\ Is("hermes") => HermesInv(unmarked)'
      /\ Is("marked hermes") => HermesInv(marked)'
  BY PartsStep, HermesInvNext, LocalAssumption DEF LocalInv
<1> QED
  BY <1>1, <1>2, <1>3, <1>4, <1>5, <1>6, <1>7, PartsStep DEF LocalInv, Is

\* The invariant holds in every reachable state.
THEOREM LocalInvariance == FairSpec => []LocalInv
  BY LocalInvInit, LocalInvNext, PTL DEF FairSpec

\* config.rs, publish.rs, account.rs and server.rs: an API key is sent only to the server that
\* issued it, whichever of login, logout, --key and the viewer wrote the config between its being
\* read and its being sent, but for a share that signs in on the way and was named no server; and
\* no command reads a key to send after a logout.
THEOREM KeysGoToTheirIssuer == FairSpec => []KeyOnlyToIssuer
<1>1. LocalInv => KeyOnlyToIssuer
  BY DEF LocalInv, SignInInv, SignInCore, KeyOnlyToIssuer
<1> QED
  BY <1>1, LocalInvariance, PTL

\* The pages of the viewer are told the truth: of a sign-in that ended, of a draft revision
\* acknowledged, of a session whose preview is served.
THEOREM PagesAreToldTruth == FairSpec => []PagesToldTruth
<1>1. LocalInv /\ Is("previews") => Previewing(twoViewers)!NeverStale /\ Previewing(twoViewers)!OwnImporter
  <2>1. twoViewers.listed = twoViewers.files /\ ~twoViewers.namesItself
    BY DEF twoViewers
  <2> QED
    BY <2>1, PreviewsInvSays DEF LocalInv
<1>2. LocalInv /\ Is("damaged previews") => Previewing(damaged)!NeverStale /\ Previewing(damaged)!OwnImporter
  <2>1. damaged.listed = damaged.files /\ ~damaged.namesItself
    BY DEF twoViewers, damaged
  <2> QED
    BY <2>1, PreviewsInvSays DEF LocalInv
<1>3. LocalInv => PagesToldTruth
  BY <1>1, <1>2 DEF LocalInv, SignInInv, SignInCore, DraftsInv, PagesToldTruth
<1> QED
  BY <1>3, LocalInvariance, PTL

\* drafts.rs: whatever tabs, locks, temporary files and viewers that die do, the revisions on
\* disk are the register of DraftRegister, where a save is accepted only on the newest revision.
THEOREM DraftsImplementTheRegister == FairSpec => ImplementsRegister
<1>1. Init => LocalInv /\ Revisions = <<>>
  BY LocalInvInit
<1>2. [Next]_vars /\ LocalInv /\ LocalInv' => [Drafts!Register!SaveNext]_Revisions
  <2> SUFFICES ASSUME [Next]_vars, LocalInv, LocalInv'
               PROVE  Drafts!Register!SaveNext \/ Revisions' = Revisions
    OBVIOUS
  <2>1. CASE Is("drafts")
    BY <2>1, PartsStep, RevisionsAppend, LocalAssumption DEF LocalInv, Is
  <2>2. CASE ~Is("drafts")
    BY <2>2, PartsStep DEF draftVars, Revisions, Drafts!Newest
  <2> QED
    BY <2>1, <2>2
<1> QED
  BY <1>1, <1>2, LocalInvariance, PTL
     DEF FairSpec, ImplementsRegister, Drafts!ImplementsRegister, Drafts!Register!RegisterSpec,
         Revisions

\* A sign-in's values, and a draft's, are of their kinds.
LEMMA SignInTypes == SignIn!SignInAssumption /\ SignInInv => SignIn!SignInTypeOK
<1> SUFFICES ASSUME SignIn!SignInAssumption, SignInInv PROVE SignIn!SignInTypeOK
  OBVIOUS
<1>1. SignInShape /\ KeysApart /\ SendingInv
  BY DEF SignInInv, SignInCore
<1>2. config.key \in {0} \union DOMAIN issuer /\ config.server \in Servers \union {SignIn!NoServer}
  BY <1>1 DEF SignInShape, KeysApart, IssuedBy, Configs, NoServer
<1>3. DOMAIN issuer \subseteq SignIn!Keys /\ DOMAIN attempts \subseteq DOMAIN issuer
  BY <1>1 DEF SignInShape, SignIn!Keys, SignIn!SignInAssumption
<1>4. \A k \in DOMAIN attempts :
        /\ attempts[k].by \in {"terminal", "viewer"}
        /\ attempts[k].at \in {"waits", "granted", "saved", "failed", "aborted", "complete", "error"}
  BY <1>1 DEF SignInShape, Attempts, Waiting
<1>5. SignIn!Cardinality(slot) <= 1 /\ SignIn!Cardinality(viewer) <= 1
  BY <1>1, SignInCounts, FewAreOne DEF SignInShape, AtMostOne
<1>6. /\ sending.at \in {"idle", "signs in", "holds"}
      /\ sending.at = "signs in" => sending.id \in DOMAIN attempts
  BY <1>1 DEF SendingInv
<1>7. slot # {} => viewer # {}
  BY <1>1 DEF SignInShape
<1> QED
  BY <1>2, <1>3, <1>4, <1>5, <1>6, <1>7 DEF SignIn!SignInTypeOK
LEMMA DraftsTypes == DraftsInv => Drafts!DraftsTypeOK
<1> SUFFICES ASSUME DraftsInv PROVE Drafts!DraftsTypeOK
  OBVIOUS
<1>1. ASSUME NEW v \in Viewers
      PROVE  lock[v] \subseteq {t \in Tabs : ViewerOf[t] = v} /\ Drafts!Cardinality(lock[v]) <= 1
  <2>1. lock[v] \subseteq Tabs /\ \A t, u \in lock[v] : t = u /\ ViewerOf[t] = v
    BY DEF DraftsInv, DraftShape, LockHeld
  <2>2. AtMostOne(lock[v])
    BY <2>1 DEF AtMostOne
  <2> QED
    BY <2>1, <2>2, DraftCounts, FewAreOne
<1> QED
  BY <1>1 DEF DraftsInv, DraftShape, Tabbed, Saving, Drafts!DraftsTypeOK

\* Values are of their kinds in every part: a configuration names a key that was issued, a
\* lock is one tab's of its viewer, one answer and one note are kept, and a session's parent
\* was there before it.
THEOREM LocalTypes == FairSpec => []LocalTypeOK
<1>1. LocalInv => SignIn!SignInTypeOK
  BY SignInTypes, LocalAssumption DEF LocalInv
<1>2. LocalInv /\ Is("links") => Link!LinkTypeOK
  BY Linked!LinkInvTypes
     DEF LocalInv, Link!LinkTypeOK, Linked!LinkTypeOK, Link!AllEnvelopes, Linked!AllEnvelopes, Link!Steps,
         Linked!Steps
<1>3. LocalInv /\ Is("drafts") => Drafts!DraftsTypeOK
  BY DraftsTypes DEF LocalInv
<1>4. LocalInv /\ Is("previews") => Previewing(twoViewers)!PreviewsTypeOK
  <2>1. LocalInv /\ Is("previews") => PreviewsInv(twoViewers)
    BY DEF LocalInv
  <2> QED
    BY <2>1, PreviewsInvTypes
<1>5. LocalInv /\ Is("damaged previews") => Previewing(damaged)!PreviewsTypeOK
  <2>1. LocalInv /\ Is("damaged previews") => PreviewsInv(damaged)
    BY DEF LocalInv
  <2> QED
    BY <2>1, PreviewsInvTypes
<1>6. LocalInv /\ Is("chosen") => Search(chosen)!SearchTypeOK
  BY SearchTypes DEF LocalInv
<1>7. LocalInv /\ Is("hermes") => Hermes(unmarked)!SessionsTypeOK
  BY HermesTypes DEF LocalInv
<1>8. LocalInv => LocalTypeOK
  BY <1>1, <1>2, <1>3, <1>4, <1>5, <1>6, <1>7 DEF LocalTypeOK
<1> QED
  BY <1>8, LocalInvariance, PTL

\* discover.rs, hermes.rs: whatever agents write, in whatever order, what is listed or found is
\* the person's own session of the project; one named by its id is reached; and no session of
\* Hermes told inside another is listed, though all can be read.
THEOREM OwnSessionsReached == FairSpec => []ReachesOwn
<1>1. LocalInv /\ Is("stores") => Search(stores)!OnlyThePersons /\ Search(stores)!NamedIsReached
  BY OnlyThePersonsHolds, NamedIsReachedHolds, LocalAssumption DEF LocalInv, SearchInv, AgentsInv
<1>2. LocalInv /\ Is("places") =>
        Search(places)!OnlyThePersons /\ Search(places)!NamedIsReached /\ Search(places)!OfThisProject
  <2>1. "claude-code" \notin places.harnesses /\ ("pi" \in places.harnesses => places.shared)
    BY DEF places
  <2> QED
    BY <2>1, OnlyThePersonsHolds, NamedIsReachedHolds, OfThisProjectHolds, LocalAssumption
       DEF LocalInv, SearchInv, AgentsInv
<1>3. LocalInv /\ Is("hermes") => Hermes(unmarked)!NoneInsideAnother
  <2>1. unmarked.marks = FALSE
    BY DEF unmarked
  <2> QED
    BY <2>1, NoneInsideAnotherHolds, LocalAssumption DEF LocalInv
<1>4. LocalInv /\ Is("marked hermes") => Hermes(marked)!ListsThePersons /\ Hermes(marked)!AllReachable
  <2>1. Cardinality({"a", "b", "c", "d"}) <= 4
    <3>1. IsFiniteSet({"a"}) /\ Cardinality({"a"}) = 1
      BY FS_Singleton
    <3>2. IsFiniteSet({"a", "b"}) /\ Cardinality({"a", "b"}) = 2
      BY <3>1, FS_AddElement, {"a", "b"} = {"a"} \union {"b"}
    <3>3. IsFiniteSet({"a", "b", "c"}) /\ Cardinality({"a", "b", "c"}) = 3
      BY <3>2, FS_AddElement, {"a", "b", "c"} = {"a", "b"} \union {"c"}
    <3> QED
      BY <3>3, FS_AddElement, {"a", "b", "c", "d"} = {"a", "b", "c"} \union {"d"}
  <2>2. Cardinality(marked.ids) <= marked.depth + 1
    BY <2>1 DEF marked
  <2> QED
    BY <2>2, ListsThePersonsHolds, AllReachableHolds, LocalAssumption DEF LocalInv
<1>5. LocalInv => ReachesOwn
  BY <1>1, <1>2, <1>3, <1>4 DEF ReachesOwn
<1> QED
  BY <1>5, LocalInvariance, PTL

\* discover.rs, import.rs, publish.rs: what a harness wrote last heads its listing, a limit
\* costs no session newer than one shown, the hint leads to a session, and what is read is
\* what was chosen, or no older than what was announced.
THEOREM NewestFound == FairSpec => []FindsTheNewest
<1>1. LocalInv /\ Is("stores") =>
        Search(stores)!LatestLeadsItsList /\ Search(stores)!ListKeepsTheNewest /\ Search(stores)!HintWorks
  BY LatestLeadsItsListHolds, ListKeepsTheNewestHolds, HintWorksHolds, LocalAssumption
     DEF LocalInv, SearchInv, AgentsInv
<1>2. LocalInv /\ Is("places") => Search(places)!LatestLeadsItsList /\ Search(places)!HintWorks
  BY LatestLeadsItsListHolds, HintWorksHolds, LocalAssumption DEF LocalInv, SearchInv
<1>3. LocalInv /\ Is("chosen") => Search(chosen)!ChosenIsLoaded /\ Search(chosen)!SharedNoOlder
  BY ChosenHolds DEF LocalInv
<1>4. LocalInv => FindsTheNewest
  BY <1>1, <1>2, <1>3 DEF FindsTheNewest
<1> QED
  BY <1>4, LocalInvariance, PTL
=============================================================================
