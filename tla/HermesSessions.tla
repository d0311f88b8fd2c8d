---------------------------- MODULE HermesSessions ----------------------------
(***************************************************************************)
(* The sessions of Hermes Agent that a listing shows, and those an import  *)
(* nests (src/crates/slink-import: hermes.rs).                             *)
(*                                                                         *)
(* Hermes (external) links a session to a parent in three cases: it goes   *)
(* on after the parent's context was compressed, it branches off, or the   *)
(* parent delegates to it.  Only the way the parent ended, the times and a *)
(* branch's marker tell them apart: a branch ends its parent, or carries   *)
(* the marker while its parent goes on.                                    *)
(***************************************************************************)
EXTENDS Naturals, FiniteSets

CONSTANTS
  Sessions,   \* session ids
  MaxTime,    \* bound: steps Hermes takes; each has a time of its own
  MaxDepth,   \* how deep sub-agents are nested (8 in the code)
  Marks       \* whether Hermes marks branches, and leaves their parents live

NoSession == "none"
\* What the constants must satisfy.
SessionsAssumption ==
  /\ NoSession \notin Sessions /\ IsFiniteSet(Sessions)
  /\ MaxTime \in Nat /\ MaxDepth \in Nat /\ Marks \in BOOLEAN

VARIABLES
  row,   \* the row of each session Hermes has: [parent, cwd, started, ended, reason, marked]
  made,  \* what each session is: own, continued, branch or delegate (Hermes's own knowledge)
  now

vars == <<row, made, now>>

Live == 0  \* a session that has not ended
Known == DOMAIN row
Put(s, r) == [t \in Known \union {s} |-> IF t = s THEN r ELSE row[t]]
Called(s, how) == [t \in Known \union {s} |-> IF t = s THEN how ELSE made[t]]
New(parent, cwd, marked) ==
  [parent |-> parent, cwd |-> cwd, started |-> now + 1, ended |-> Live, reason |-> "", marked |-> marked]

Init == row = <<>> /\ made = <<>> /\ now = 0
Tick == now < MaxTime /\ now' = now + 1

Begin(s) ==
  /\ Tick /\ s \notin Known
  /\ row' = Put(s, New(NoSession, TRUE, FALSE)) /\ made' = Called(s, "own")
End(s) ==
  /\ Tick /\ s \in Known /\ row[s].ended = Live
  /\ row' = [row EXCEPT ![s].ended = now + 1, ![s].reason = "exit"] /\ UNCHANGED made
\* The context is compressed and the work goes on in a new session, whose directory is not
\* always recorded.
Compress(s, t) ==
  /\ Tick /\ s \in Known /\ t \notin Known /\ row[s].ended = Live
  /\ \E cwd \in {row[s].cwd, FALSE} :
       row' = [Put(t, New(s, cwd, FALSE)) EXCEPT ![s].ended = now + 1, ![s].reason = "compression"]
  /\ made' = Called(t, "continued")
Branch(s, t) ==
  /\ Tick /\ s \in Known /\ t \notin Known /\ row[s].ended = Live
  /\ row' = [Put(t, New(s, TRUE, FALSE)) EXCEPT ![s].ended = now + 1, ![s].reason = "branched"]
  /\ made' = Called(t, "branch")
MarkedBranch(s, t) ==
  /\ Marks /\ Tick /\ s \in Known /\ t \notin Known
  /\ row' = Put(t, New(s, TRUE, TRUE)) /\ made' = Called(t, "branch")
Delegate(s, t) ==
  /\ Tick /\ s \in Known /\ t \notin Known /\ row[s].ended = Live
  /\ row' = Put(t, New(s, TRUE, FALSE)) /\ made' = Called(t, "delegate")
Next ==
  \E s \in Sessions :
    \/ Begin(s) \/ End(s)
    \/ \E t \in Sessions : Compress(s, t) \/ Branch(s, t) \/ MarkedBranch(s, t) \/ Delegate(s, t)
Spec == Init /\ [][Next]_vars

-----------------------------------------------------------------------------
(* What slink makes of the rows.                                           *)

\* EXISTS (parent ended for one of these reasons before this session started).
After(s, reasons) ==
  LET p == row[s].parent
  IN  /\ p \in Known
      /\ row[p].reason \in reasons /\ row[p].ended # Live /\ row[s].started >= row[p].ended

\* here: the sessions of the directory, and the continuations without one of theirs, as a
\* recursive query gives them: the least set that has both.
Here ==
  LET has(found) ==
        \A s \in Known : row[s].cwd \/ (row[s].parent \in found /\ After(s, {"compression"})) => s \in found
  IN  {s \in Known : \A found \in SUBSET Known : has(found) => s \in found}

\* sessions: the person's own, when no id is asked for.
Listed ==
  {s \in Here : \/ row[s].parent = NoSession
                \/ After(s, {"compression", "branched"})
                \/ row[s].marked}

\* load: what started while a session was live is nested in it, to a depth.
Nests(s) ==
  {t \in Known : row[t].parent = s /\ (row[s].ended = Live \/ row[t].started < row[s].ended)}
Loaded(s) ==
  LET within[depth \in 0 .. MaxDepth] ==
        IF depth = 0 THEN {s} ELSE within[depth - 1] \union UNION {Nests(t) : t \in within[depth - 1]}
  IN  within[MaxDepth]

-----------------------------------------------------------------------------
(* Properties.                                                             *)

SessionsTypeOK ==
  /\ DOMAIN made = Known /\ Known \subseteq Sessions /\ now <= MaxTime
  /\ \A s \in Known : row[s].parent \in Known \union {NoSession} /\ row[s].started <= now

\* A listing shows the person's own sessions, continuations and branches of this directory,
\* and no sub-agent's.
ListsThePersons == \A s \in Known : s \in Listed => made[s] # "delegate"

\* Each session a listing shows is imported without the others it shows: nothing of one is
\* told again inside another.
NoneInsideAnother == \A s, t \in Listed : t \in Loaded(s) => s = t

\* No session is out of reach: it is listed, or nested in one that is.
AllReachable ==
  (\A s \in Known : made[s] = "own" => row[s].cwd) =>
     \A t \in Known : \E s \in Listed : t \in Loaded(s)
=============================================================================
