--------------------------- MODULE NamedShareProofs ---------------------------
(***************************************************************************)
(* Proofs about NamedShare, for every set of machines, people and texts    *)
(* and any number of failures.  That what was written down of a person     *)
(* stays, and that nobody is granted a key after they were revoked, holds  *)
(* until a pending copy is left behind, as the model lets it happen.       *)
(***************************************************************************)
EXTENDS NamedShare, FiniteSetTheorems, TLAPS

Ops ==
  [at : {"idle"}]
    \union [at : {"upload", "answered", "kept"}, env : Envelopes]
    \union [at : {"revoke"}, env : Envelopes, person : People]
    \union [at : {"grant"}, env : Envelopes, status : [People -> Statuses], left : SUBSET People]

NamedTyped ==
  /\ NamedTypeOK
  /\ pending \in [Machines -> SUBSET Envelopes] /\ DOMAIN outbox = Machines
  /\ DOMAIN vault \subseteq DOMAIN sealed
  /\ op \in [Machines -> Ops]
  /\ revoked \in [Machines -> SUBSET (Envelopes \X People)]

\* Envelopes are numbered as they are sealed, so the next number is free.
InOrder == \E k \in Nat : DOMAIN sealed = 1 .. k

\* What a machine is at is in its own folder.
Carried(m) ==
  /\ op[m].at \in {"upload", "answered", "kept"} => op[m].env \in pending[m]
  /\ op[m].at \in {"kept", "revoke", "grant"} => op[m].env \in DOMAIN outbox[m]

\* While no pending copy was left behind, an envelope is pending on one machine, and has no
\* outbox but the one that machine has just written.
Apart ==
  \A m, k \in Machines : \A n \in pending[m] :
    /\ n \in pending[k] => k = m
    /\ n \notin DOMAIN vault
    /\ n \in DOMAIN outbox[k] => k = m /\ op[m].at = "kept" /\ op[m].env = n

\* Who was revoked here is listed so, and a pass that is under way knows what is written.
Remembered(m) ==
  /\ \A n \in Envelopes, p \in People :
       <<n, p>> \in revoked[m] => n \in DOMAIN outbox[m] /\ outbox[m][n][p] = "revoked"
  /\ op[m].at = "grant" =>
       \A p \in People :
         /\ outbox[m][op[m].env][p] = "revoked" => op[m].status[p] = "revoked"
         /\ outbox[m][op[m].env][p] = "ready" => op[m].status[p] \in {"ready", "revoked"}

\* The inductive invariant.
NamedInv ==
  /\ NamedTyped
  /\ InOrder
  /\ \A m \in Machines : Carried(m)
  /\ NamedKeyKept
  /\ OnlyTheInvited

WrittenInv ==
  leftovers = 0 =>
    /\ Apart
    /\ \A m \in Machines : Remembered(m)
    /\ NeverGrantedAfter

-----------------------------------------------------------------------------
\* At first no machine has anything, and the service lists nothing.
LEMMA NamedInvInit == NamedAssumption /\ Init => NamedInv /\ WrittenInv
<1> SUFFICES ASSUME NamedAssumption, Init PROVE NamedInv /\ WrittenInv
  OBVIOUS
<1>1. DOMAIN sealed = 1 .. 0
  BY DEF Init
<1> QED
  BY <1>1
     DEF NamedAssumption, Init, NamedInv, NamedTyped, NamedTypeOK, InOrder, Carried, NamedKeyKept,
         OnlyTheInvited,
     WrittenInv, Apart, Remembered, NeverGrantedAfter, Ops, Idle, Statuses, Envelopes, Nobody

\* The next number was never used.
LEMMA NextIsFree ==
  ASSUME InOrder
  PROVE  LET new == Cardinality(DOMAIN sealed) + 1
         IN  new \notin DOMAIN sealed /\ DOMAIN sealed \union {new} = 1 .. new /\ new \in Nat
<1>1. PICK k \in Nat : DOMAIN sealed = 1 .. k
  BY DEF InOrder
<1>2. Cardinality(DOMAIN sealed) = k
  BY <1>1, FS_Interval
<1> QED
  BY <1>1, <1>2

\* What is written of an envelope replaces what was, and nothing else.
LEMMA SaveEffect ==
  ASSUME NEW m \in Machines, NEW n, NEW status, DOMAIN outbox = Machines, Save(m, n, status)
  PROVE  /\ DOMAIN outbox' = Machines
         /\ DOMAIN outbox'[m] = DOMAIN outbox[m] \union {n}
         /\ outbox'[m][n] = status
         /\ \A l \in DOMAIN outbox[m] : l # n => outbox'[m][l] = outbox[m][l]
         /\ \A k \in Machines : k # m => outbox'[k] = outbox[k]
  BY DEF Save, Over

\* A sync merges the vault under what the machine has, and writes the result to both.
LEMMA SyncEffect ==
  ASSUME NEW m \in Machines, DOMAIN outbox = Machines, SyncNamed(m)
  PROVE  /\ DOMAIN outbox' = Machines
         /\ DOMAIN outbox'[m] = DOMAIN outbox[m] \union DOMAIN vault
         /\ \A n \in DOMAIN outbox[m] : outbox'[m][n] = outbox[m][n]
         /\ \A n \in DOMAIN vault : n \notin DOMAIN outbox[m] => outbox'[m][n] = vault[n]
         /\ \A k \in Machines : k # m => outbox'[k] = outbox[k]
         /\ DOMAIN vault' = DOMAIN outbox[m] \union DOMAIN vault
         /\ \A n \in DOMAIN vault' :
              vault'[n] = IF n \in DOMAIN outbox[m] THEN outbox[m][n] ELSE vault[n]
  BY DEF SyncNamed, Over

\* What the machine had is as it was after the sync.
LEMMA SyncKeeps ==
  ASSUME NEW m \in Machines, DOMAIN outbox = Machines, SyncNamed(m)
  PROVE  \A k \in Machines :
           DOMAIN outbox[k] \subseteq DOMAIN outbox'[k] /\ \A n \in DOMAIN outbox[k] : outbox'[k][n] = outbox[k][n]
  BY ZenonT(60), SyncEffect

\* A text is sealed under a number of its own, or found pending.
LEMMA SealEffect ==
  ASSUME NamedTyped, InOrder, NEW m \in Machines, NEW t \in Texts, SealNamed(m, t)
  PROVE  /\ UNCHANGED <<outbox, vault, sent, taken, gone, revoked, grants, faults, leftovers>>
         /\ InOrder'
         /\ At(m, "idle")
         /\ DOMAIN sealed \subseteq DOMAIN sealed'
         /\ \A n \in DOMAIN sealed' : n \in Envelopes /\ sealed'[n] \in Texts
         /\ \E n \in DOMAIN sealed' :
              /\ op' = [op EXCEPT ![m] = [at |-> "upload", env |-> n]]
              /\ n \in pending[m] \/ n \notin DOMAIN sealed
              /\ pending' = [pending EXCEPT ![m] = @ \union {n}]
<1> DEFINE new == Cardinality(DOMAIN sealed) + 1
<1> DEFINE kept == {n \in pending[m] : sealed[n] = t}
<1>1. new \notin DOMAIN sealed /\ DOMAIN sealed \union {new} = 1 .. new /\ new \in Nat
  BY NextIsFree
<1>2. /\ UNCHANGED <<outbox, vault, sent, taken, gone, revoked, grants, faults, leftovers>>
      /\ At(m, "idle")
  BY DEF SealNamed, service, people
<1>3. CASE /\ new \in Envelopes
           /\ sealed' = Over([n \in {new} |-> t], sealed)
           /\ pending' = [pending EXCEPT ![m] = @ \union {new}]
           /\ Goes(m, [at |-> "upload", env |-> new])
  <2>1. /\ DOMAIN sealed' = DOMAIN sealed \union {new}
        /\ \A n \in DOMAIN sealed' : sealed'[n] = IF n = new THEN t ELSE sealed[n]
    BY <1>3 DEF Over
  <2>2. InOrder'
    BY <1>1, <2>1 DEF InOrder
  <2>3. \A n \in DOMAIN sealed' : n \in Envelopes /\ sealed'[n] \in Texts
    BY <1>3, <2>1 DEF NamedTyped, NamedTypeOK
  <2> HIDE DEF new
  <2> QED
    BY <1>1, <1>2, <1>3, <2>1, <2>2, <2>3 DEF Goes
<1>4. ASSUME NEW n \in kept, Goes(m, [at |-> "upload", env |-> n]), UNCHANGED <<sealed, pending>>
      PROVE  /\ InOrder'
             /\ \A l \in DOMAIN sealed' : l \in Envelopes /\ sealed'[l] \in Texts
             /\ n \in DOMAIN sealed'
             /\ op' = [op EXCEPT ![m] = [at |-> "upload", env |-> n]]
             /\ n \in pending[m]
             /\ pending' = [pending EXCEPT ![m] = @ \union {n}]
  BY <1>4 DEF Goes, InOrder, NamedTyped, NamedTypeOK
<1>5. \/ /\ new \in Envelopes
         /\ sealed' = Over([n \in {new} |-> t], sealed)
         /\ pending' = [pending EXCEPT ![m] = @ \union {new}]
         /\ Goes(m, [at |-> "upload", env |-> new])
      \/ \E n \in kept : Goes(m, [at |-> "upload", env |-> n]) /\ UNCHANGED <<sealed, pending>>
  BY DEF SealNamed
<1> HIDE DEF new, kept
<1> QED
  BY <1>2, <1>3, <1>4, <1>5

\* A status written of an envelope leaves the folders well formed.
LEMMA SaveTyped ==
  ASSUME NamedTyped, NEW m \in Machines, NEW n \in DOMAIN sealed, NEW status \in [People -> Statuses],
         Save(m, n, status), UNCHANGED <<sealed, pending, vault, sent, taken, gone, faults, leftovers>>,
         op' \in [Machines -> Ops], revoked' \in [Machines -> SUBSET (Envelopes \X People)]
  PROVE  NamedTyped'
<1>1. /\ DOMAIN outbox' = Machines
      /\ DOMAIN outbox'[m] = DOMAIN outbox[m] \union {n}
      /\ outbox'[m][n] = status
      /\ \A l \in DOMAIN outbox[m] : l # n => outbox'[m][l] = outbox[m][l]
      /\ \A k \in Machines : k # m => outbox'[k] = outbox[k]
  BY SaveEffect DEF NamedTyped
<1>2. ASSUME NEW k \in Machines
      PROVE  /\ DOMAIN outbox'[k] \subseteq DOMAIN sealed
             /\ \A l \in DOMAIN outbox'[k] : outbox'[k][l] \in [People -> Statuses]
  BY <1>1 DEF NamedTyped, NamedTypeOK
<1> QED
  BY <1>1, <1>2 DEF NamedTyped, NamedTypeOK

\* The steps that write no file.
LEMMA StepTyped ==
  ASSUME NamedTyped, UNCHANGED <<sealed, outbox, vault>>,
         pending' \in [Machines -> SUBSET Envelopes], \A m \in Machines : pending'[m] \subseteq pending[m],
         taken' \subseteq DOMAIN sealed, gone' \subseteq taken', sent' \subseteq Envelopes \X People,
         faults' \in 0 .. MaxFaults, leftovers' \in 0 .. MaxLeftovers,
         op' \in [Machines -> Ops], UNCHANGED revoked
  PROVE  NamedTyped'
<1>1. \A m \in Machines : pending'[m] \subseteq DOMAIN sealed /\ DOMAIN outbox[m] \subseteq DOMAIN sealed
  BY DEF NamedTyped, NamedTypeOK
<1> QED
  BY <1>1 DEF NamedTyped, NamedTypeOK

\* Every step leaves the folders well formed and numbers envelopes in order.
LEMMA TypedNext ==
  ASSUME NamedAssumption, NamedTyped, InOrder, \A m \in Machines : Carried(m), [Next]_vars
  PROVE  NamedTyped' /\ InOrder'
<1>1. ASSUME NEW m \in Machines, NEW t \in Texts, SealNamed(m, t) PROVE NamedTyped' /\ InOrder'
  <2>1. PICK n \in DOMAIN sealed' :
          /\ op' = [op EXCEPT ![m] = [at |-> "upload", env |-> n]]
          /\ pending' = [pending EXCEPT ![m] = @ \union {n}]
    BY <1>1, SealEffect
  <2>2. /\ UNCHANGED <<outbox, vault, sent, taken, gone, revoked, faults, leftovers>>
        /\ InOrder' /\ DOMAIN sealed \subseteq DOMAIN sealed'
        /\ \A l \in DOMAIN sealed' : l \in Envelopes /\ sealed'[l] \in Texts
    BY <1>1, SealEffect
  <2>3. op' \in [Machines -> Ops] /\ pending' \in [Machines -> SUBSET Envelopes]
    BY <2>1, <2>2 DEF NamedTyped, Ops
  <2>4. \A k \in Machines : pending'[k] \subseteq DOMAIN sealed'
    BY <2>1, <2>2 DEF NamedTyped, NamedTypeOK
  <2> QED
    BY <2>2, <2>3, <2>4 DEF NamedTyped, NamedTypeOK
<1>2. ASSUME NEW m \in Machines, UploadNamed(m) \/ DiscardDeleted(m) PROVE NamedTyped' /\ InOrder'
  <2>1. op[m].env \in DOMAIN sealed
    BY <1>2 DEF UploadNamed, DiscardDeleted, At, Carried, NamedTyped, NamedTypeOK
  <2>2. op' \in [Machines -> Ops]
    BY <1>2 DEF UploadNamed, DiscardDeleted, At, Goes, Idle, NamedTyped, Ops
  <2>3. /\ pending' \in [Machines -> SUBSET Envelopes]
        /\ \A k \in Machines : pending'[k] \subseteq pending[k]
    BY <1>2 DEF UploadNamed, DiscardDeleted, NamedTyped, local
  <2>4. /\ UNCHANGED <<sealed, outbox, vault, sent, gone, revoked, faults, leftovers>>
        /\ taken' \subseteq taken \union {op[m].env} /\ taken \subseteq taken'
    BY <1>2 DEF UploadNamed, DiscardDeleted, local, service
  <2> QED
    BY <2>1, <2>2, <2>3, <2>4, StepTyped DEF InOrder, NamedTyped, NamedTypeOK
<1>3. ASSUME NEW m \in Machines, KeepOutbox(m) PROVE NamedTyped' /\ InOrder'
  <2>1. Nobody \in [People -> Statuses] /\ op[m].env \in DOMAIN sealed
    BY <1>3 DEF Nobody, Statuses, Carried, KeepOutbox, At, NamedTyped, NamedTypeOK
  <2>2. op' \in [Machines -> Ops]
    BY <1>3 DEF KeepOutbox, At, Goes, NamedTyped, Ops
  <2> QED
    BY <1>3, <2>1, <2>2, SaveTyped DEF KeepOutbox, InOrder, NamedTyped, service
<1>4. ASSUME NEW m \in Machines, ForgetPending(m) PROVE NamedTyped' /\ InOrder'
  <2>1. op[m].env \in Envelopes
    BY <1>4 DEF ForgetPending, At, NamedTyped, Ops
  <2>2. op' \in [Machines -> Ops]
    BY <1>4 DEF ForgetPending, Goes, Idle, NamedTyped, Ops
  <2>3. /\ pending' \in [Machines -> SUBSET Envelopes]
        /\ \A k \in Machines : pending'[k] \subseteq pending[k]
    BY <1>4 DEF ForgetPending, NamedTyped
  <2>4. /\ UNCHANGED <<sealed, outbox, vault, taken, gone, revoked, faults>>
        /\ sent' = sent \union {<<op[m].env, p>> : p \in People}
    BY <1>4 DEF ForgetPending, service
  <2>5. leftovers' \in 0 .. MaxLeftovers /\ faults' \in 0 .. MaxFaults
    BY <1>4, <2>4 DEF ForgetPending, NamedAssumption, NamedTyped, NamedTypeOK
  <2>6. sent' \subseteq Envelopes \X People
    BY <2>1, <2>4 DEF NamedTyped, NamedTypeOK
  <2>7. taken' \subseteq DOMAIN sealed /\ gone' \subseteq taken'
    BY <2>4 DEF NamedTyped, NamedTypeOK
  <2> QED
    BY <2>2, <2>3, <2>4, <2>5, <2>6, <2>7, StepTyped DEF InOrder
<1>5. ASSUME NEW m \in Machines, SyncNamed(m) PROVE NamedTyped' /\ InOrder'
  <2>1. UNCHANGED <<sealed, pending, sent, taken, gone, op, revoked, faults, leftovers>>
    BY <1>5 DEF SyncNamed, service
  <2>2. /\ DOMAIN outbox' = Machines
        /\ DOMAIN outbox'[m] = DOMAIN outbox[m] \union DOMAIN vault
        /\ \A n \in DOMAIN outbox[m] : outbox'[m][n] = outbox[m][n]
        /\ \A n \in DOMAIN vault : n \notin DOMAIN outbox[m] => outbox'[m][n] = vault[n]
        /\ \A k \in Machines : k # m => outbox'[k] = outbox[k]
        /\ DOMAIN vault' = DOMAIN outbox[m] \union DOMAIN vault
        /\ \A n \in DOMAIN vault' :
             vault'[n] = IF n \in DOMAIN outbox[m] THEN outbox[m][n] ELSE vault[n]
    BY <1>5, SyncEffect DEF NamedTyped
  <2>3. /\ \A k \in Machines : DOMAIN outbox[k] \subseteq DOMAIN sealed
        /\ \A k \in Machines : \A l \in DOMAIN outbox[k] : outbox[k][l] \in [People -> Statuses]
        /\ DOMAIN vault \subseteq DOMAIN sealed
        /\ \A l \in DOMAIN vault : vault[l] \in [People -> Statuses]
    BY DEF NamedTyped, NamedTypeOK
  <2>4. ASSUME NEW k \in Machines
        PROVE  /\ DOMAIN outbox'[k] \subseteq DOMAIN sealed
               /\ \A l \in DOMAIN outbox'[k] : outbox'[k][l] \in [People -> Statuses]
    <3>1. CASE k = m
      BY <3>1, <2>2, <2>3
    <3>2. CASE k # m
      BY <3>2, <2>2, <2>3
    <3> QED
      BY <3>1, <3>2
  <2>5. /\ DOMAIN vault' \subseteq DOMAIN sealed
        /\ \A n \in DOMAIN vault' : vault'[n] \in [People -> Statuses]
    BY <2>2, <2>3
  <2> QED
    BY <2>1, <2>2, <2>4, <2>5 DEF NamedTyped, NamedTypeOK, InOrder
<1>6. ASSUME NEW m \in Machines, NEW n \in Envelopes, NEW p \in People, Revoke(m, n, p)
      PROVE  NamedTyped' /\ InOrder'
  <2>1. op' \in [Machines -> Ops]
    BY <1>6 DEF Revoke, Goes, NamedTyped, Ops
  <2> QED
    BY <1>6, <2>1 DEF Revoke, NamedTyped, NamedTypeOK, InOrder, local, service
<1>7. ASSUME NEW m \in Machines, NEW n \in Envelopes, NEW r \in BOOLEAN, LookAtShare(m, n, r)
      PROVE  NamedTyped' /\ InOrder'
  BY <1>7 DEF LookAtShare, NamedTyped, NamedTypeOK, InOrder, Ops, Goes, local, people, service
<1>8. ASSUME NEW m \in Machines, WriteRevoked(m) PROVE NamedTyped' /\ InOrder'
  <2> DEFINE n == op[m].env
             p == op[m].person
             status == [outbox[m][n] EXCEPT ![p] = "revoked"]
  <2>1. n \in Envelopes /\ p \in People /\ n \in DOMAIN outbox[m]
    BY <1>8 DEF WriteRevoked, At, NamedTyped, Ops, Carried
  <2>2. status \in [People -> Statuses]
    BY <2>1 DEF NamedTyped, NamedTypeOK, Statuses
  <2>3. op' \in [Machines -> Ops] /\ revoked' \in [Machines -> SUBSET (Envelopes \X People)]
    BY <1>8, <2>1 DEF WriteRevoked, Goes, Idle, NamedTyped, Ops
  <2>4. /\ Save(m, n, status)
        /\ UNCHANGED <<sealed, pending, vault, sent, service, people, grants, faults, leftovers>>
    BY <1>8 DEF WriteRevoked
  <2> HIDE DEF n, p, status
  <2> QED
    BY <2>1, <2>2, <2>3, <2>4, SaveTyped DEF NamedTyped, NamedTypeOK, InOrder, service
<1>9. ASSUME NEW m \in Machines, SaveStatus(m) PROVE NamedTyped' /\ InOrder'
  <2>1. op[m].env \in DOMAIN outbox[m] /\ op[m].status \in [People -> Statuses]
    BY <1>9 DEF SaveStatus, At, NamedTyped, Ops, Carried
  <2>2. op' \in [Machines -> Ops]
    BY <1>9 DEF SaveStatus, Goes, Idle, NamedTyped, Ops
  <2> QED
    BY <1>9, <2>1, <2>2, SaveTyped DEF SaveStatus, NamedTyped, NamedTypeOK, InOrder, service
<1>10. ASSUME NEW m \in Machines, Abandon(m) PROVE NamedTyped' /\ InOrder'
  <2>1. op' \in [Machines -> Ops]
    BY <1>10 DEF Abandon, Goes, Idle, NamedTyped, Ops
  <2>2. faults' \in 0 .. MaxFaults /\ leftovers' \in 0 .. MaxLeftovers
    BY <1>10 DEF Abandon, Fault, NamedAssumption, NamedTyped, NamedTypeOK
  <2>3. UNCHANGED <<sealed, outbox, vault, pending, sent, taken, gone, revoked>>
    BY <1>10 DEF Abandon, local, service
  <2> QED
    BY <2>1, <2>2, <2>3, StepTyped DEF NamedTyped, NamedTypeOK, InOrder
<1>11. ASSUME NEW m \in Machines, NEW p \in People, NEW listed \in Statuses, PassOver(m, p, listed)
       PROVE  NamedTyped' /\ InOrder'
  <2> DEFINE status == Known(op[m].status[p], listed)
             next == [op[m] EXCEPT !.left = @ \ {p}, !.status[p] = status]
  <2>1. op[m] \in [at : {"grant"}, env : Envelopes, status : [People -> Statuses], left : SUBSET People]
    BY <1>11 DEF PassOver, At, NamedTyped, Ops
  <2>2. status \in Statuses
    BY DEF Known, Statuses
  <2>3. next \in [at : {"grant"}, env : Envelopes, status : [People -> Statuses], left : SUBSET People]
    BY <2>1, <2>2
  <2>4. op' = [op EXCEPT ![m] = next]
    BY <1>11 DEF PassOver, Goes
  <2> HIDE DEF next, status
  <2>5. op' \in [Machines -> Ops]
    BY <2>3, <2>4 DEF NamedTyped, Ops
  <2> QED
    BY <1>11, <2>5 DEF PassOver, NamedTyped, NamedTypeOK, InOrder, local, people, service
<1>12. ASSUME NEW m \in Machines, NEW p \in People, NEW c \in Offered, NEW shown \in 1 .. MaxEpoch,
              Grant(m, p, c, shown)
       PROVE  NamedTyped' /\ InOrder'
  <2> DEFINE status == [op[m].status EXCEPT ![p] = "ready"]
             next == [op[m] EXCEPT !.left = @ \ {p}, !.status = status]
  <2>1. /\ op[m] \in [at : {"grant"}, env : Envelopes, status : [People -> Statuses], left : SUBSET People]
        /\ op[m].env \in DOMAIN outbox[m]
    BY <1>12 DEF Grant, At, NamedTyped, Ops, Carried
  <2>2. status \in [People -> Statuses]
    BY <2>1 DEF Statuses
  <2>3. next \in [at : {"grant"}, env : Envelopes, status : [People -> Statuses], left : SUBSET People]
    BY <2>1, <2>2
  <2>4. op' = [op EXCEPT ![m] = next] /\ Save(m, op[m].env, status)
    BY <1>12 DEF Grant, Goes
  <2> HIDE DEF next, status
  <2>5. op' \in [Machines -> Ops]
    BY <2>3, <2>4 DEF NamedTyped, Ops
  <2>6. UNCHANGED <<sealed, pending, vault, sent, service, people, revoked, faults, leftovers>>
    BY <1>12 DEF Grant
  <2> QED
    BY <2>1, <2>2, <2>4, <2>5, <2>6, SaveTyped DEF NamedTyped, NamedTypeOK, InOrder, service
<1>13. ASSUME NEW n \in Envelopes, Remove(n) PROVE NamedTyped' /\ InOrder'
  BY <1>13 DEF Remove, NamedTyped, NamedTypeOK, InOrder, local, people
<1>14. ASSUME NEW p \in People, Rotate(p) \/ \E n \in Envelopes : Accept(n, p)
       PROVE  NamedTyped' /\ InOrder'
  BY <1>14 DEF Rotate, Accept, NamedTyped, NamedTypeOK, InOrder, local, service
<1>15. CASE UNCHANGED vars
  BY <1>15 DEF vars, NamedTyped, NamedTypeOK, InOrder, local, people, service
<1> QED
  BY <1>1, <1>2, <1>3, <1>4, <1>5, <1>6, <1>7, <1>8, <1>9, <1>10, <1>11, <1>12, <1>13, <1>14, <1>15
     DEF Next

\* Every step leaves what a machine is at in its own folder.
LEMMA CarriedNext ==
  ASSUME NamedTyped, InOrder, \A m \in Machines : Carried(m), [Next]_vars
  PROVE  \A m \in Machines : Carried(m)'
<1> USE DEF Carried, At, Goes, Idle, local, service, people
<1>1. ASSUME NEW m \in Machines, NEW t \in Texts, SealNamed(m, t)
      PROVE  \A k \in Machines : Carried(k)'
  BY <1>1, SealEffect DEF NamedTyped
<1>2. ASSUME NEW m \in Machines, UploadNamed(m) \/ DiscardDeleted(m) \/ ForgetPending(m)
      PROVE  \A k \in Machines : Carried(k)'
  <2>1. CASE UploadNamed(m)
    BY <2>1 DEF UploadNamed, NamedTyped
  <2>2. CASE DiscardDeleted(m)
    BY <2>2 DEF DiscardDeleted, NamedTyped
  <2>3. CASE ForgetPending(m)
    <3>1. /\ op' = [op EXCEPT ![m] = Idle] /\ UNCHANGED outbox
          /\ \A k \in Machines : k # m => pending'[k] = pending[k]
      BY <2>3 DEF ForgetPending, NamedTyped
    <3> QED
      BY <3>1 DEF NamedTyped
  <2> QED
    BY <1>2, <2>1, <2>2, <2>3
<1>3. ASSUME NEW m \in Machines, KeepOutbox(m) PROVE \A k \in Machines : Carried(k)'
  BY <1>3, SaveEffect DEF KeepOutbox, NamedTyped
<1>4. ASSUME NEW m \in Machines, SyncNamed(m) PROVE \A k \in Machines : Carried(k)'
  <2>1. UNCHANGED <<pending, op>>
    BY <1>4 DEF SyncNamed
  <2>2. \A k \in Machines : DOMAIN outbox[k] \subseteq DOMAIN outbox'[k]
    BY <1>4, SyncKeeps DEF NamedTyped
  <2> QED
    BY <2>1, <2>2
<1>5. ASSUME NEW m \in Machines, NEW n \in Envelopes,
             (\E p \in People : Revoke(m, n, p)) \/ (\E r \in BOOLEAN : LookAtShare(m, n, r))
      PROVE  \A k \in Machines : Carried(k)'
  BY <1>5 DEF Revoke, LookAtShare, NamedTyped
<1>6. ASSUME NEW m \in Machines, WriteRevoked(m) \/ SaveStatus(m)
      PROVE  \A k \in Machines : Carried(k)'
  BY <1>6, SaveEffect DEF WriteRevoked, SaveStatus, NamedTyped
<1>7. ASSUME NEW m \in Machines, Abandon(m) PROVE \A k \in Machines : Carried(k)'
  BY <1>7 DEF Abandon, NamedTyped
<1>8. ASSUME NEW m \in Machines, NEW p \in People, NEW listed \in Statuses, PassOver(m, p, listed)
      PROVE  \A k \in Machines : Carried(k)'
  BY <1>8 DEF PassOver, NamedTyped
<1>9. ASSUME NEW m \in Machines, NEW p \in People, NEW c \in Offered, NEW shown \in 1 .. MaxEpoch, Grant(m, p, c, shown)
      PROVE  \A k \in Machines : Carried(k)'
  BY <1>9, SaveEffect DEF Grant, NamedTyped
<1>10. CASE UNCHANGED <<pending, outbox, op>>
  BY <1>10
<1> QED
  BY <1>1, <1>2, <1>3, <1>4, <1>5, <1>6, <1>7, <1>8, <1>9, <1>10
     DEF Next, Remove, Accept, Rotate, vars

\* The key of a share the service has is nowhere only once the share is deleted.
LEMMA KeyKeptNext ==
  ASSUME NamedTyped, InOrder, \A m \in Machines : Carried(m), NamedKeyKept, [Next]_vars
  PROVE  NamedKeyKept'
<1> USE DEF NamedKeyKept, Carried, At, local, service, people
<1>1. ASSUME NEW m \in Machines, NEW t \in Texts, SealNamed(m, t) PROVE NamedKeyKept'
  BY <1>1, SealEffect DEF NamedTyped
<1>2. ASSUME NEW m \in Machines, UploadNamed(m) \/ DiscardDeleted(m) \/ ForgetPending(m)
      PROVE  NamedKeyKept'
  BY <1>2 DEF UploadNamed, DiscardDeleted, ForgetPending, NamedTyped
<1>3. ASSUME NEW m \in Machines, NEW n, NEW status, Save(m, n, status), UNCHANGED <<pending, taken, gone>>
      PROVE  NamedKeyKept'
  BY <1>3, SaveEffect DEF NamedTyped
<1>4. ASSUME NEW m \in Machines, SyncNamed(m) PROVE NamedKeyKept'
  <2>1. UNCHANGED <<pending, taken, gone>>
    BY <1>4 DEF SyncNamed
  <2>2. \A k \in Machines : DOMAIN outbox[k] \subseteq DOMAIN outbox'[k]
    BY <1>4, SyncKeeps DEF NamedTyped
  <2> QED
    BY <2>1, <2>2
<1>5. CASE UNCHANGED <<pending, outbox, taken>> /\ gone \subseteq gone'
  BY <1>5
<1>6. ASSUME NEW m \in Machines, KeepOutbox(m) \/ WriteRevoked(m) \/ SaveStatus(m)
      PROVE  NamedKeyKept'
  BY <1>3, <1>6 DEF KeepOutbox, WriteRevoked, SaveStatus
<1>7. ASSUME NEW m \in Machines, NEW p \in People, NEW c \in Offered, NEW shown \in 1 .. MaxEpoch, Grant(m, p, c, shown)
      PROVE  NamedKeyKept'
  BY <1>3, <1>7 DEF Grant
<1>8. ASSUME NEW m \in Machines,
             \/ Abandon(m)
             \/ \E n \in Envelopes : (\E p \in People : Revoke(m, n, p)) \/ (\E r \in BOOLEAN : LookAtShare(m, n, r))
             \/ \E p \in People, listed \in Statuses : PassOver(m, p, listed)
      PROVE  NamedKeyKept'
  BY <1>5, <1>8 DEF Abandon, Revoke, LookAtShare, PassOver
<1>9. ASSUME (\E n \in Envelopes : Remove(n) \/ \E p \in People : Accept(n, p)) \/ (\E p \in People : Rotate(p))
      PROVE  NamedKeyKept'
  BY <1>5, <1>9 DEF Remove, Accept, Rotate
<1> QED
  BY <1>1, <1>2, <1>4, <1>5, <1>6, <1>7, <1>8, <1>9 DEF Next, vars

\* Only a claim proven with what its person was sent is granted; a stranger's is not.
LEMMA InvitedNext ==
  ASSUME OnlyTheInvited, [Next]_vars
  PROVE  OnlyTheInvited'
<1>1. CASE grants' = grants /\ sent \subseteq sent'
  BY <1>1 DEF OnlyTheInvited
<1>2. ASSUME NEW m \in Machines, NEW p \in People, NEW c \in Offered, NEW shown \in 1 .. MaxEpoch, Grant(m, p, c, shown)
      PROVE  OnlyTheInvited'
  <2>1. c.by = p /\ c.secret = <<op[m].env, p>> /\ c.epoch <= shown
    BY <1>2 DEF Grant, Makable, ClaimHolds
  <2>2. c.secret \in sent
    BY <1>2, <2>1 DEF Offered, Grant, Makable, ClaimHolds
  <2>3. /\ grants' = grants \union {[on |-> m, env |-> op[m].env, person |-> p, to |-> c.by, key |-> shown,
                               claimed |-> c.epoch, late |-> <<op[m].env, p>> \in revoked[m]]}
        /\ sent' = sent
    BY <1>2 DEF Grant
  <2> DEFINE new == [on |-> m, env |-> op[m].env, person |-> p, to |-> c.by, key |-> shown,
                     claimed |-> c.epoch, late |-> <<op[m].env, p>> \in revoked[m]]
  <2>4. new.to = new.person /\ <<new.env, new.person>> \in sent /\ new.claimed <= new.key
    BY <2>1, <2>2
  <2>5. grants' = grants \union {new}
    BY <2>3
  <2> HIDE DEF new
  <2> QED
    BY <2>3, <2>4, <2>5 DEF OnlyTheInvited
<1>3. ASSUME NEW m \in Machines,
             \/ \E t \in Texts : SealNamed(m, t)
             \/ UploadNamed(m) \/ DiscardDeleted(m) \/ KeepOutbox(m) \/ ForgetPending(m) \/ SyncNamed(m)
             \/ \E n \in Envelopes : (\E p \in People : Revoke(m, n, p)) \/ (\E r \in BOOLEAN : LookAtShare(m, n, r))
             \/ WriteRevoked(m) \/ SaveStatus(m) \/ Abandon(m)
             \/ \E p \in People, listed \in Statuses : PassOver(m, p, listed)
      PROVE  grants' = grants /\ sent \subseteq sent'
  BY <1>3
     DEF SealNamed, UploadNamed, DiscardDeleted, KeepOutbox, ForgetPending, SyncNamed, Revoke,
         LookAtShare,
              WriteRevoked, SaveStatus, Abandon, PassOver, local
<1>4. ASSUME (\E n \in Envelopes : Remove(n) \/ \E p \in People : Accept(n, p)) \/ (\E p \in People : Rotate(p)) \/ UNCHANGED vars
      PROVE  grants' = grants /\ sent \subseteq sent'
  BY <1>4 DEF Remove, Accept, Rotate, local, vars
<1> QED
  BY <1>1, <1>2, <1>3, <1>4 DEF Next

\* Every step keeps the inductive invariant.
LEMMA NamedInvNext == NamedAssumption /\ NamedInv /\ [Next]_vars => NamedInv'
  BY TypedNext, CarriedNext, KeyKeptNext, InvitedNext DEF NamedInv

-----------------------------------------------------------------------------
\* A count of copies left behind never falls.
LEMMA LeftoversRise ==
  ASSUME NamedTyped, [Next]_vars
  PROVE  leftovers' = leftovers \/ leftovers' = leftovers + 1
<1>1. ASSUME NEW m \in Machines,
             \/ \E t \in Texts : SealNamed(m, t)
             \/ UploadNamed(m) \/ DiscardDeleted(m) \/ KeepOutbox(m) \/ ForgetPending(m) \/ SyncNamed(m)
             \/ \E n \in Envelopes : (\E p \in People : Revoke(m, n, p)) \/ (\E r \in BOOLEAN : LookAtShare(m, n, r))
             \/ WriteRevoked(m) \/ SaveStatus(m) \/ Abandon(m)
      PROVE  leftovers' = leftovers \/ leftovers' = leftovers + 1
  BY <1>1
     DEF SealNamed, UploadNamed, DiscardDeleted, KeepOutbox, ForgetPending, SyncNamed, Revoke,
         LookAtShare,
              WriteRevoked, SaveStatus, Abandon
<1>2. ASSUME NEW m \in Machines, NEW p \in People,
             \/ \E listed \in Statuses : PassOver(m, p, listed)
             \/ \E c \in Offered, shown \in 1 .. MaxEpoch : Grant(m, p, c, shown)
      PROVE  leftovers' = leftovers
  BY <1>2 DEF PassOver, Grant
<1>3. ASSUME (\E n \in Envelopes : Remove(n) \/ \E p \in People : Accept(n, p)) \/ (\E p \in People : Rotate(p)) \/ UNCHANGED vars
      PROVE  leftovers' = leftovers
  BY <1>3 DEF Remove, Accept, Rotate, vars
<1> QED
  BY <1>1, <1>2, <1>3 DEF Next

\* While no copy was left behind, what a machine is writing of an envelope is at least what
\* it wrote before, and every step keeps the revocations it knows.
LEMMA WrittenNext ==
  ASSUME NamedInv, WrittenInv, [Next]_vars, leftovers' = 0
  PROVE  Apart' /\ (\A m \in Machines : Remembered(m)') /\ NeverGrantedAfter' /\ KeepsWhatIsWritten
<1> DEFINE Goal == Apart' /\ (\A m \in Machines : Remembered(m)') /\ NeverGrantedAfter' /\ KeepsWhatIsWritten
<1>1. /\ leftovers = 0 /\ Apart /\ (\A m \in Machines : Remembered(m) /\ Carried(m))
      /\ NeverGrantedAfter
  BY LeftoversRise DEF WrittenInv, NamedInv, NamedTyped, NamedTypeOK
<1>2. /\ DOMAIN outbox = Machines /\ op \in [Machines -> Ops]
      /\ pending \in [Machines -> SUBSET Envelopes]
      /\ \A m \in Machines : pending[m] \subseteq DOMAIN sealed /\ DOMAIN outbox[m] \subseteq DOMAIN sealed
      /\ DOMAIN vault \subseteq DOMAIN sealed
      /\ revoked \in [Machines -> SUBSET (Envelopes \X People)]
      /\ \A m \in Machines : \A n \in DOMAIN outbox[m] : outbox[m][n] \in [People -> Statuses]
  BY DEF NamedInv, NamedTyped, NamedTypeOK
<1> USE DEF At, Goes, Idle
<1>3. ASSUME NEW m \in Machines, NEW t \in Texts, SealNamed(m, t) PROVE Goal
  <2>1. PICK n \in DOMAIN sealed' :
              /\ op' = [op EXCEPT ![m] = [at |-> "upload", env |-> n]]
              /\ n \in pending[m] \/ n \notin DOMAIN sealed
              /\ pending' = [pending EXCEPT ![m] = @ \union {n}]
    BY <1>3, SealEffect DEF NamedInv
  <2>2. /\ UNCHANGED <<outbox, vault, sent, taken, gone, revoked, grants, faults, leftovers>>
        /\ At(m, "idle")
    BY <1>3, SealEffect DEF NamedInv
  <2>3. Apart'
    BY <1>1, <1>2, <2>1, <2>2 DEF Apart
  <2>4. \A k \in Machines : Remembered(k)'
    BY <1>1, <1>2, <2>1, <2>2 DEF Remembered
  <2> QED
    BY <1>1, <2>2, <2>3, <2>4 DEF NeverGrantedAfter, KeepsWhatIsWritten
<1>4. ASSUME NEW m \in Machines, UploadNamed(m) \/ DiscardDeleted(m) \/ ForgetPending(m) PROVE Goal
  <2>1. /\ UNCHANGED <<outbox, vault, revoked, grants>>
        /\ \A k \in Machines : pending'[k] \subseteq pending[k] /\ (k # m => op'[k] = op[k])
    BY <1>2, <1>4 DEF UploadNamed, DiscardDeleted, ForgetPending, local
  <2>2. op'[m].at # "grant" /\ (At(m, "kept") => op[m].env \notin pending'[m])
    <3>1. CASE UploadNamed(m)
      BY <1>2, <3>1 DEF UploadNamed
    <3>2. CASE DiscardDeleted(m)
      BY <1>2, <3>2 DEF DiscardDeleted
    <3>3. CASE ForgetPending(m)
      <4>1. op' = [op EXCEPT ![m] = Idle] /\ pending' = [pending EXCEPT ![m] = @ \ {op[m].env}]
        BY <1>1, <3>3 DEF ForgetPending
      <4> QED
        BY <1>2, <4>1
    <3> QED
      BY <1>4, <3>1, <3>2, <3>3
  <2>3. Apart'
    BY <1>1, <1>2, <2>1, <2>2 DEF Apart
  <2>4. \A k \in Machines : Remembered(k)'
    BY <1>1, <1>2, <2>1, <2>2 DEF Remembered
  <2> QED
    BY <1>1, <2>1, <2>3, <2>4 DEF NeverGrantedAfter, KeepsWhatIsWritten
<1>5. ASSUME NEW m \in Machines, KeepOutbox(m) PROVE Goal
  <2> DEFINE n == op[m].env
  <2>1. n \in pending[m] /\ n \notin DOMAIN outbox[m] /\ n \in Envelopes
    BY <1>1, <1>2, <1>5 DEF KeepOutbox, Carried, Apart
  <2>2. /\ UNCHANGED <<pending, vault, revoked, grants>> /\ op' = [op EXCEPT ![m].at = "kept"]
        /\ Save(m, n, Nobody)
    BY <1>5 DEF KeepOutbox
  <2>3. /\ DOMAIN outbox'[m] = DOMAIN outbox[m] \union {n}
        /\ \A l \in DOMAIN outbox[m] : outbox'[m][l] = outbox[m][l]
        /\ \A k \in Machines : k # m => outbox'[k] = outbox[k]
    BY <1>2, <2>1, <2>2, SaveEffect
  <2>4. /\ op'[m].at = "kept" /\ op'[m].env = n /\ op[m].at = "answered"
        /\ \A k \in Machines : k # m => op'[k] = op[k]
    BY <1>2, <1>5, <2>2 DEF KeepOutbox
  <2> HIDE DEF n
  <2>5. Apart'
    BY <1>1, <1>2, <2>1, <2>2, <2>3, <2>4 DEF Apart
  <2>6. \A k \in Machines : Remembered(k)'
    BY <1>1, <1>2, <2>2, <2>3, <2>4 DEF Remembered, Carried
  <2> QED
    BY <1>1, <2>2, <2>3, <2>5, <2>6 DEF NeverGrantedAfter, KeepsWhatIsWritten
<1>6. ASSUME NEW m \in Machines, SyncNamed(m) PROVE Goal
  <2>1. UNCHANGED <<pending, op, revoked, grants>> /\ op[m].at = "idle"
    BY <1>6 DEF SyncNamed
  <2>2. /\ DOMAIN outbox'[m] = DOMAIN outbox[m] \union DOMAIN vault
        /\ \A k \in Machines : k # m => outbox'[k] = outbox[k]
        /\ DOMAIN vault' = DOMAIN outbox[m] \union DOMAIN vault
    BY <1>2, <1>6, SyncEffect
  <2>3. \A k \in Machines : \A l \in DOMAIN outbox[k] : l \in DOMAIN outbox'[k] /\ outbox'[k][l] = outbox[k][l]
    BY <1>2, <1>6, SyncKeeps
  <2>4. Apart'
    BY <1>1, <1>2, <2>1, <2>2 DEF Apart
  <2>5. \A k \in Machines : Remembered(k)'
    BY <1>1, <1>2, <2>1, <2>3 DEF Remembered, Carried
  <2> QED
    BY <1>1, <2>1, <2>3, <2>4, <2>5 DEF NeverGrantedAfter, KeepsWhatIsWritten
\* What is written of an envelope of this machine is at least what was known of it.
<1>7. ASSUME NEW m \in Machines, NEW n \in DOMAIN outbox[m], NEW status, Save(m, n, status),
             op[m].at \in {"revoke", "grant"}, op[m].env = n,
             \A p \in People : (outbox[m][n][p] = "revoked" => status[p] = "revoked")
                                /\ (outbox[m][n][p] = "ready" => status[p] \in {"ready", "revoked"}),
             UNCHANGED <<pending, vault>>,
             \A k \in Machines : k # m => op'[k] = op[k] /\ revoked'[k] = revoked[k],
             op'[m].at \in {"idle", "grant"},
             op'[m].at = "grant" => op'[m].env = n /\ op'[m].status = status,
             \A l, p : <<l, p>> \in revoked'[m] => <<l, p>> \in revoked[m] \/ (l = n /\ p \in People /\ status[p] = "revoked")
      PROVE  Apart' /\ (\A k \in Machines : Remembered(k)') /\ KeepsWhatIsWritten
  <2>1. /\ DOMAIN outbox'[m] = DOMAIN outbox[m]
        /\ outbox'[m][n] = status
        /\ \A l \in DOMAIN outbox[m] : l # n => outbox'[m][l] = outbox[m][l]
        /\ \A k \in Machines : k # m => outbox'[k] = outbox[k]
    <3>1. DOMAIN outbox'[m] = DOMAIN outbox[m] \union {n}
      BY <1>2, <1>7, SaveEffect
    <3>2. /\ outbox'[m][n] = status
          /\ \A l \in DOMAIN outbox[m] : l # n => outbox'[m][l] = outbox[m][l]
      BY <1>2, <1>7, SaveEffect
    <3>3. \A k \in Machines : k # m => outbox'[k] = outbox[k]
      BY <1>2, <1>7, SaveEffect
    <3> QED
      BY <3>1, <3>2, <3>3
  <2>2. Apart'
    BY <1>1, <1>2, <1>7, <2>1 DEF Apart
  <2>3. Remembered(m)'
    BY <1>1, <1>2, <1>7, <2>1 DEF Remembered
  <2>4. \A k \in Machines : k # m => Remembered(k)'
    BY <1>1, <1>2, <1>7, <2>1 DEF Remembered
  <2> QED
    BY <1>7, <2>1, <2>2, <2>3, <2>4 DEF KeepsWhatIsWritten
<1>8. ASSUME NEW m \in Machines, WriteRevoked(m) PROVE Goal
  <2> DEFINE n == op[m].env
             p == op[m].person
             status == [outbox[m][n] EXCEPT ![p] = "revoked"]
  <2>1. n \in DOMAIN outbox[m] /\ p \in People /\ op[m].at = "revoke"
    BY <1>1, <1>2, <1>8 DEF WriteRevoked, Carried, Ops
  <2>2. /\ \A q \in People : status[q] = IF q = p THEN "revoked" ELSE outbox[m][n][q]
    BY <1>2, <2>1
  <2>3. /\ Save(m, n, status) /\ UNCHANGED <<pending, vault, grants>>
        /\ op' = [op EXCEPT ![m] = Idle]
        /\ revoked' = [revoked EXCEPT ![m] = @ \union {<<n, p>>}]
    BY <1>8 DEF WriteRevoked
  <2> HIDE DEF n, p, status
  <2>4. Apart' /\ (\A k \in Machines : Remembered(k)') /\ KeepsWhatIsWritten
    <3>1. \A k \in Machines : k # m => op'[k] = op[k] /\ revoked'[k] = revoked[k]
      BY <1>2, <2>3
    <3>2. /\ op'[m].at = "idle"
          /\ \A l, q : <<l, q>> \in revoked'[m] => <<l, q>> \in revoked[m] \/ (l = n /\ q = p)
      BY <1>2, <2>3
    <3>3. op[m].env = n
      BY DEF n
    <3> QED
      BY <1>7, <2>1, <2>2, <2>3, <3>1, <3>2, <3>3
  <2> QED
    BY <1>1, <2>3, <2>4 DEF NeverGrantedAfter
<1>9. ASSUME NEW m \in Machines, SaveStatus(m) PROVE Goal
  <2>1. op[m].env \in DOMAIN outbox[m] /\ op[m].at = "grant"
    BY <1>1, <1>9 DEF SaveStatus, Carried
  <2>2. /\ Save(m, op[m].env, op[m].status) /\ UNCHANGED <<pending, vault, grants, revoked>>
        /\ op' = [op EXCEPT ![m] = Idle]
    BY <1>9 DEF SaveStatus
  <2>3. \A k \in Machines : k # m => op'[k] = op[k]
    BY <1>2, <2>2
  <2>4. op'[m].at = "idle"
    BY <1>2, <2>2
  <2>5. Remembered(m)
    BY <1>1
  <2>6. Apart' /\ (\A k \in Machines : Remembered(k)') /\ KeepsWhatIsWritten
    BY <1>7, <2>1, <2>2, <2>3, <2>4, <2>5 DEF Remembered
  <2> QED
    BY <1>1, <2>2, <2>6 DEF NeverGrantedAfter
<1>10. ASSUME NEW m \in Machines, NEW q \in People, NEW c \in Offered, NEW shown \in 1 .. MaxEpoch, Grant(m, q, c, shown)
       PROVE  Goal
  <2> DEFINE status == [op[m].status EXCEPT ![q] = "ready"]
             next == [op[m] EXCEPT !.left = @ \ {q}, !.status = status]
             new == [on |-> m, env |-> op[m].env, person |-> q, to |-> c.by, key |-> shown,
                     claimed |-> c.epoch, late |-> <<op[m].env, q>> \in revoked[m]]
  <2>1. /\ op[m] \in [at : {"grant"}, env : Envelopes, status : [People -> Statuses], left : SUBSET People]
        /\ op[m].env \in DOMAIN outbox[m] /\ Remembered(m)
    BY <1>1, <1>2, <1>10 DEF Grant, Ops, Carried
  <2>2. op[m].status[q] \notin {"revoked", "ready"}
    BY <1>10 DEF Grant, Known
  <2>3. /\ Save(m, op[m].env, status) /\ UNCHANGED <<pending, vault, revoked>>
        /\ op' = [op EXCEPT ![m] = next]
        /\ grants' = grants \union {new}
    BY <1>10 DEF Grant
  <2>4. next.at = "grant" /\ next.env = op[m].env /\ next.status = status
    BY <2>1
  <2>5. \A p \in People : status[p] = IF p = q THEN "ready" ELSE op[m].status[p]
    BY <2>1
  <2>6. <<op[m].env, q>> \notin revoked[m]
    BY <2>1, <2>2 DEF Remembered
  <2>7. ~new.late
    BY <2>6
  <2> HIDE DEF status, next, new
  <2>8. op'[m] = next /\ \A k \in Machines : k # m => op'[k] = op[k]
    BY <1>2, <2>3
  <2>9. \A p \in People : (outbox[m][op[m].env][p] = "revoked" => status[p] = "revoked")
                                /\ (outbox[m][op[m].env][p] = "ready" => status[p] \in {"ready", "revoked"})
    BY <2>1, <2>2, <2>5 DEF Remembered
  <2>10. Apart' /\ (\A k \in Machines : Remembered(k)') /\ KeepsWhatIsWritten
    BY <1>7, <2>1, <2>3, <2>4, <2>8, <2>9
  <2> QED
    BY <1>1, <2>3, <2>7, <2>10 DEF NeverGrantedAfter
<1>11. ASSUME NEW m \in Machines, UNCHANGED <<pending, outbox, vault, revoked, grants>>,
              \A k \in Machines : k # m => op'[k] = op[k],
              op[m].at # "kept",
              op'[m].at = "grant" => Remembered(m)'
       PROVE  Goal
  <2>1. Apart'
    BY <1>1, <1>2, <1>11 DEF Apart
  <2>2. Remembered(m)'
    BY <1>1, <1>11 DEF Remembered
  <2>3. \A k \in Machines : k # m => Remembered(k)'
    BY <1>1, <1>11 DEF Remembered
  <2> QED
    BY <1>1, <1>11, <2>1, <2>2, <2>3 DEF NeverGrantedAfter, KeepsWhatIsWritten
<1>12. ASSUME NEW m \in Machines, NEW n \in Envelopes, NEW p \in People, Revoke(m, n, p) PROVE Goal
  BY <1>2, <1>11, <1>12 DEF Revoke, local
<1>13. ASSUME NEW m \in Machines, NEW n \in Envelopes, NEW r \in BOOLEAN, LookAtShare(m, n, r)
       PROVE  Goal
  <2>1. /\ op' = [op EXCEPT ![m] = [at |-> "grant", env |-> n, status |-> outbox[m][n], left |-> People]]
        /\ UNCHANGED <<pending, outbox, vault, revoked, grants>> /\ op[m].at = "idle"
    BY <1>13 DEF LookAtShare, local
  <2>2. Remembered(m)'
    BY <1>1, <1>2, <2>1 DEF Remembered
  <2> QED
    BY <1>2, <1>11, <2>1, <2>2
<1>14. ASSUME NEW m \in Machines, Abandon(m) PROVE Goal
  <2>1. op[m].at # "kept"
    BY <1>1, <1>14 DEF Abandon
  <2> QED
    BY <1>2, <1>11, <1>14, <2>1 DEF Abandon, local
<1>15. ASSUME NEW m \in Machines, NEW p \in People, NEW listed \in Statuses, PassOver(m, p, listed)
       PROVE  Goal
  <2> DEFINE status == Known(op[m].status[p], listed)
             next == [op[m] EXCEPT !.left = @ \ {p}, !.status[p] = status]
  <2>1. /\ op[m] \in [at : {"grant"}, env : Envelopes, status : [People -> Statuses], left : SUBSET People]
        /\ op[m].env \in DOMAIN outbox[m] /\ Remembered(m)
    BY <1>1, <1>2, <1>15 DEF PassOver, Ops, Carried
  <2>2. op' = [op EXCEPT ![m] = next] /\ UNCHANGED <<pending, outbox, vault, revoked, grants>>
    BY <1>15 DEF PassOver, local
  <2>3. /\ next.env = op[m].env
        /\ \A q \in People : next.status[q] = IF q = p THEN status ELSE op[m].status[q]
    BY <2>1
  <2>4. /\ (op[m].status[p] = "revoked" => status = "revoked")
        /\ (op[m].status[p] = "ready" => status \in {"ready", "revoked"})
    BY DEF Known
  <2> HIDE DEF status, next
  <2>5. Remembered(m)'
    BY <1>2, <2>1, <2>2, <2>3, <2>4 DEF Remembered
  <2> QED
    BY <1>2, <1>11, <2>1, <2>2, <2>5
<1>16. CASE UNCHANGED <<pending, outbox, vault, revoked, grants, op>>
  BY <1>1, <1>16 DEF Apart, Remembered, NeverGrantedAfter, KeepsWhatIsWritten
<1>17. ASSUME (\E n \in Envelopes : Remove(n) \/ \E p \in People : Accept(n, p)) \/ (\E p \in People : Rotate(p)) \/ UNCHANGED vars
       PROVE  Goal
  BY <1>16, <1>17 DEF Remove, Accept, Rotate, vars, local
<1> QED
  BY <1>3, <1>4, <1>5, <1>6, <1>8, <1>9, <1>10, <1>12, <1>13, <1>14, <1>15, <1>17 DEF Next

-----------------------------------------------------------------------------
\* The inductive invariant holds in every reachable state, whatever answers the service
\* loses and whoever dies on the way.
THEOREM NamedInvariance == NamedAssumption => (Spec => []NamedInv)
<1> SUFFICES ASSUME NamedAssumption PROVE Spec => []NamedInv
  OBVIOUS
<1>1. Init => NamedInv
  BY NamedInvInit
<1>2. NamedInv /\ [Next]_vars => NamedInv'
  BY NamedInvNext
<1> QED
  BY <1>1, <1>2, PTL DEF Spec

\* An envelope has a text, a machine's folders hold sealed envelopes, and statuses are ones
\* that named.rs knows.
THEOREM NamedTypes == NamedAssumption => (Spec => []NamedTypeOK)
<1> SUFFICES ASSUME NamedAssumption PROVE Spec => []NamedTypeOK
  OBVIOUS
<1>1. Spec => []NamedInv
  BY NamedInvariance
<1>2. NamedInv => NamedTypeOK
  BY DEF NamedInv, NamedTyped
<1> QED
  BY <1>1, <1>2, PTL

\* named.rs, publish_named: the key is kept before the upload, and the outbox written before
\* the pending copy goes, so no share that is online is ever without its key.
THEOREM KeyIsKept == NamedAssumption => (Spec => []NamedKeyKept)
<1> SUFFICES ASSUME NamedAssumption PROVE Spec => []NamedKeyKept
  OBVIOUS
<1>1. Spec => []NamedInv
  BY NamedInvariance
<1>2. NamedInv => NamedKeyKept
  BY DEF NamedInv
<1> QED
  BY <1>1, <1>2, PTL

\* named.rs, verify_claim: a service that lists any claim it likes gets no key for anyone
\* but the person invited.
THEOREM OnlyInvitedGetKeys == NamedAssumption => (Spec => []OnlyTheInvited)
<1> SUFFICES ASSUME NamedAssumption PROVE Spec => []OnlyTheInvited
  OBVIOUS
<1>1. Spec => []NamedInv
  BY NamedInvariance
<1>2. NamedInv => OnlyTheInvited
  BY DEF NamedInv
<1> QED
  BY <1>1, <1>2, PTL

\* Until a pending copy is left behind, what is written of a person is what was last done.
THEOREM WrittenInvariance == NamedAssumption => (Spec => [](NamedInv /\ WrittenInv))
<1> SUFFICES ASSUME NamedAssumption PROVE Spec => [](NamedInv /\ WrittenInv)
  OBVIOUS
<1>1. Init => NamedInv /\ WrittenInv
  BY NamedInvInit
<1>2. NamedInv /\ WrittenInv /\ [Next]_vars => (NamedInv /\ WrittenInv)'
  BY NamedInvNext, WrittenNext DEF WrittenInv
<1> QED
  BY <1>1, <1>2, PTL DEF Spec

\* named.rs: "this machine never grants the person a key afterwards", as long as no pending
\* copy was left behind by a death or a failed removal.
THEOREM NoGrantAfterRevoking ==
  NamedAssumption => (Spec => [](leftovers = 0 => NeverGrantedAfter))
<1> SUFFICES ASSUME NamedAssumption PROVE Spec => [](leftovers = 0 => NeverGrantedAfter)
  OBVIOUS
<1>1. Spec => [](NamedInv /\ WrittenInv)
  BY WrittenInvariance
<1>2. WrittenInv => (leftovers = 0 => NeverGrantedAfter)
  BY DEF WrittenInv
<1> QED
  BY <1>1, <1>2, PTL

\* What a machine wrote down of a person stays, under the same condition.
THEOREM WrittenStays ==
  NamedAssumption => (Spec => [][leftovers' = 0 => KeepsWhatIsWritten]_vars)
<1> SUFFICES ASSUME NamedAssumption PROVE Spec => [][leftovers' = 0 => KeepsWhatIsWritten]_vars
  OBVIOUS
<1>1. Spec => [](NamedInv /\ WrittenInv)
  BY WrittenInvariance
<1>2. NamedInv /\ WrittenInv /\ [Next]_vars => [leftovers' = 0 => KeepsWhatIsWritten]_vars
  BY WrittenNext
<1> QED
  BY <1>1, <1>2, PTL DEF Spec

\* With no copy left behind, the two hold as the run checks them.
COROLLARY WrittenStaysForGood ==
  NamedAssumption /\ MaxLeftovers = 0 => (Spec => []NeverGrantedAfter /\ [][KeepsWhatIsWritten]_vars)
<1> SUFFICES ASSUME NamedAssumption, MaxLeftovers = 0
             PROVE  Spec => []NeverGrantedAfter /\ [][KeepsWhatIsWritten]_vars
  OBVIOUS
<1>1. Spec => [](NamedInv /\ WrittenInv)
  BY WrittenInvariance
<1>2. NamedInv => leftovers = 0
  BY DEF NamedInv, NamedTyped, NamedTypeOK
<1>3. NamedInv /\ WrittenInv => NeverGrantedAfter
  BY <1>2 DEF WrittenInv
<1>4. (NamedInv /\ WrittenInv) /\ (NamedInv /\ WrittenInv)' /\ [Next]_vars => [KeepsWhatIsWritten]_vars
  <2> SUFFICES ASSUME NamedInv, WrittenInv, NamedInv', [Next]_vars PROVE [KeepsWhatIsWritten]_vars
    OBVIOUS
  <2>1. leftovers' = 0
    BY DEF NamedInv, NamedTyped, NamedTypeOK
  <2> QED
    BY <2>1, WrittenNext
<1> QED
  BY <1>1, <1>3, <1>4, PTL DEF Spec
=============================================================================
