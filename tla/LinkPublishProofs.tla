-------------------------- MODULE LinkPublishProofs --------------------------
(***************************************************************************)
(* Proofs about LinkPublish, for every set of processes, servers and texts *)
(* and any number of failures: the key of everything online is kept, a     *)
(* link a person was given has its receipt, nothing is sent that was not   *)
(* agreed to, and a retry sends what an attempt before it sealed.          *)
(*                                                                         *)
(* What makes the invariant inductive is what an upload carries from step  *)
(* to step (Carried): an envelope of its own text, agreed to, whose key is *)
(* on the machine, and in shares/ before its pending receipt goes.         *)
(***************************************************************************)
EXTENDS LinkPublish, FiniteSetTheorems, TLAPS

Sending == {"send", "answered", "saved", "kept"}
Carrying == {"found"} \union Sending

Ops ==
  [at : {"idle"}]
    \union [at : {"asked", "looks"}, server : Servers, text : Publishable]
    \union [at : Carrying, server : Servers, text : Publishable, env : SUBSET AllEnvelopes]
    \union [at : {"delete", "deleted"}, env : SUBSET AllEnvelopes]

LinkTyped ==
  /\ file \in Texts /\ agreed \subseteq Servers \X Texts
  /\ drawn \in 0 .. MaxSealed /\ faults \in 0 .. MaxFaults
  /\ pending \subseteq AllEnvelopes /\ shares \subseteq AllEnvelopes
  /\ online \subseteq AllEnvelopes /\ gone \subseteq AllEnvelopes
  /\ links \subseteq AllEnvelopes /\ offline \subseteq AllEnvelopes
  /\ op \in [Processes -> Ops]

\* What a process carries is on the machine, and is what its person agreed to.
Carried(p) ==
  /\ op[p].at \in {"looks"} \union Carrying => <<op[p].server, op[p].text>> \in agreed
  /\ op[p].at \in Carrying =>
       /\ op[p].env \subseteq pending \union shares
       /\ \A e \in op[p].env : e.server = op[p].server /\ e.text = op[p].text
       /\ \A e, f \in op[p].env : e = f
  /\ op[p].at \in {"saved", "kept"} => op[p].env \subseteq shares

\* The inductive invariant.
LinkInv ==
  /\ LinkTyped
  /\ \A p \in Processes : Carried(p)
  /\ KeyNeverLost /\ LinkHasReceipt /\ OnlyWhatWasAgreed

-----------------------------------------------------------------------------
\* The invariant holds at first.
LEMMA LinkInvInit == PublishAssumption /\ Init => LinkInv
  BY DEF PublishAssumption, Init, LinkInv, LinkTyped, Carried, Ops, Carrying, Sending, Idle,
         KeyNeverLost, LinkHasReceipt, OnlyWhatWasAgreed

\* Every step of a process, of the service and of the session's agent keeps it.
LEMMA LinkInvNext == PublishAssumption /\ LinkInv /\ [Next]_vars => LinkInv'
<1> SUFFICES ASSUME PublishAssumption, LinkInv, [Next]_vars PROVE LinkInv'
  OBVIOUS
<1> USE DEF PublishAssumption, LinkInv, LinkTyped, Carried, Ops, Carrying, Sending, At, Goes,
            Step, service, KeyNeverLost, LinkHasReceipt, OnlyWhatWasAgreed
<1>1. CASE Rewrite
  BY <1>1 DEF Rewrite
<1>2. ASSUME NEW p \in Processes, NEW s \in Servers, Inspect(p, s) PROVE LinkInv'
  BY <1>2 DEF Inspect
<1>3. ASSUME NEW p \in Processes, Confirm(p) PROVE LinkInv'
  BY <1>3 DEF Confirm
<1>4. ASSUME NEW p \in Processes, Upload(p) PROVE LinkInv'
  <2>1. CASE Look(p)
    BY <2>1 DEF Look, Kept
  <2>2. CASE Resume(p)
    BY <2>2 DEF Resume
  <2>3. CASE Seal(p)
    <3> DEFINE e == Envelope(drawn + 1, op[p].server, op[p].text)
    <3>1. /\ op[p] \in [at : Carrying, server : Servers, text : Publishable, env : SUBSET AllEnvelopes]
          /\ <<op[p].server, op[p].text>> \in agreed
      BY <2>3 DEF Seal
    <3>2. e \in AllEnvelopes /\ e.server = op[p].server /\ e.text = op[p].text
      BY <2>3, <3>1 DEF Seal, Envelope, AllEnvelopes
    <3> HIDE DEF e
    <3> DEFINE sealing == [op[p] EXCEPT !.at = "send", !.env = {e}]
    <3>3. op' = [op EXCEPT ![p] = sealing] /\ pending' = pending \union {e}
      BY <2>3 DEF Seal, e
    <3>4. /\ sealing \in [at : Carrying, server : Servers, text : Publishable, env : SUBSET AllEnvelopes]
          /\ sealing.at = "send" /\ sealing.env = {e}
          /\ sealing.server = op[p].server /\ sealing.text = op[p].text
      BY <3>1, <3>2
    <3> HIDE DEF sealing
    <3>5. LinkTyped'
      BY <2>3, <3>2, <3>3, <3>4 DEF Seal
    <3>6. Carried(p)'
      <4>1. op'[p] = sealing
        BY <3>3
      <4> QED
        BY ZenonT(60), <2>3, <3>1, <3>2, <3>3, <3>4, <4>1 DEF Seal
    <3>7. ASSUME NEW q \in Processes \ {p} PROVE Carried(q)'
      <4>1. op'[q] = op[q]
        BY <3>3
      <4> QED
        BY <2>3, <3>3, <4>1 DEF Seal
    <3> QED
      BY <2>3, <3>3, <3>5, <3>6, <3>7 DEF Seal
  <2>4. CASE Taken(p)
    BY <2>4 DEF Taken
  <2>5. CASE SaveReceipt(p)
    BY <2>5 DEF SaveReceipt
  <2>6. CASE Forget(p)
    BY <2>6 DEF Forget
  <2>7. CASE Show(p)
    BY ZenonT(60), <2>7 DEF Show, Idle
  <2> QED
    BY <1>4, <2>1, <2>2, <2>3, <2>4, <2>5, <2>6, <2>7 DEF Upload
<1>5. ASSUME NEW p \in Processes, Decline(p) \/ Refused(p) \/ Fails(p) PROVE LinkInv'
  BY <1>5 DEF Decline, Refused, Fails, Idle
<1>6. ASSUME NEW p \in Processes, Delete(p) \/ Deleted(p) \/ SayOffline(p) PROVE LinkInv'
  BY <1>6 DEF Delete, Deleted, SayOffline, Idle
<1>7. CASE UNCHANGED vars
  BY <1>7 DEF vars
<1> QED
  BY <1>1, <1>2, <1>3, <1>4, <1>5, <1>6, <1>7 DEF Next

-----------------------------------------------------------------------------
\* The process is about to seal a new envelope of the text.
Sealer(p, s, t) ==
  /\ At(p, "found") /\ op[p].server = s /\ op[p].text = t
  /\ ~(op[p].env # {} /\ op[p].env \subseteq pending)

\* Receipts of a text and processes about to add one are together no more than the processes.
FewOf(a, b, s, t) ==
  /\ \A e, f, g \in Kept(s, t) : e = f \/ f = g \/ e = g
  /\ a = b \/ Sealer(a, s, t) \/ Sealer(b, s, t) => \A e, f \in Kept(s, t) : e = f
  /\ Sealer(a, s, t) /\ Sealer(b, s, t) => Kept(s, t) = {}
FewReceipts(a, b) == \A s \in Servers, t \in Texts : FewOf(a, b, s, t)

\* Every step of either process keeps them few: who looks finds a receipt that is there.
LEMMA FewReceiptsNext ==
  ASSUME NEW a \in Processes, NEW b \in Processes, Processes = {a, b},
         PublishAssumption, LinkInv, FewReceipts(a, b), [Next]_vars
  PROVE  FewReceipts(a, b)'
<1> SUFFICES ASSUME NEW s \in Servers, NEW t \in Texts PROVE FewOf(a, b, s, t)'
  BY DEF FewReceipts
<1>0. FewOf(a, b, s, t)
  BY DEF FewReceipts
<1> USE <1>0 DEF FewOf, PublishAssumption, LinkInv, LinkTyped, Carried, Ops, Carrying, Sending, At,
            Goes, Step, service
<1>1. CASE Rewrite \/ UNCHANGED vars
  BY <1>1 DEF Rewrite, vars, Kept, Sealer
<1>2. ASSUME NEW p \in Processes, Upload(p) PROVE FewOf(a, b, s, t)'
  <2>1. CASE Look(p)
    BY <2>1 DEF Look, Kept, Sealer
  <2>2. CASE Resume(p)
    BY <2>2 DEF Resume, Kept, Sealer
  <2>3. CASE Seal(p)
    BY <2>3 DEF Seal, Kept, Sealer, Envelope
  <2>4. CASE Taken(p)
    BY <2>4 DEF Taken, Kept, Sealer
  <2>5. CASE SaveReceipt(p)
    BY <2>5 DEF SaveReceipt, Kept, Sealer
  <2>6. CASE Forget(p)
    BY <2>6 DEF Forget, Kept, Sealer
  <2>7. CASE Show(p)
    BY <2>7 DEF Show, Idle, Kept, Sealer
  <2> QED
    BY <1>2, <2>1, <2>2, <2>3, <2>4, <2>5, <2>6, <2>7 DEF Upload
<1>3. ASSUME NEW p \in Processes, Decline(p) \/ Refused(p) \/ Fails(p) PROVE FewOf(a, b, s, t)'
  BY <1>3 DEF Decline, Refused, Fails, Idle, Kept, Sealer
<1>4. ASSUME NEW p \in Processes,
             (\E r \in Servers : Inspect(p, r)) \/ Confirm(p) \/ Delete(p) \/ Deleted(p) \/ SayOffline(p)
      PROVE  FewOf(a, b, s, t)'
  BY <1>4 DEF Inspect, Confirm, Delete, Deleted, SayOffline, Idle, Kept, Sealer
<1> QED
  BY <1>1, <1>2, <1>3, <1>4 DEF Next

\* At first there are none.
LEMMA FewReceiptsInit == ASSUME NEW a, NEW b PROVE Init => FewReceipts(a, b)
  BY DEF Init, FewReceipts, FewOf, Kept

\* A set of which no two elements differ has no more than one.
LEMMA AtMostOne ==
  ASSUME NEW S, \A e, f \in S : e = f
  PROVE  IsFiniteSet(S) /\ Cardinality(S) <= 1
<1>1. CASE S = {}
  BY <1>1, FS_EmptySet
<1>2. ASSUME NEW e \in S PROVE IsFiniteSet(S) /\ Cardinality(S) <= 1
  <2>1. S = {e}
    OBVIOUS
  <2>2. IsFiniteSet({e}) /\ Cardinality({e}) = 1
    BY FS_Singleton
  <2> QED
    BY <2>1, <2>2
<1> QED
  BY <1>1, <1>2

\* A set of which no three elements differ has no more than two.
LEMMA AtMostTwo ==
  ASSUME NEW S, \A e, f, g \in S : e = f \/ f = g \/ e = g
  PROVE  Cardinality(S) <= 2
<1>1. CASE S = {}
  BY <1>1, FS_EmptySet
<1>2. ASSUME NEW e \in S PROVE Cardinality(S) <= 2
  <2> DEFINE R == S \ {e}
  <2>1. \A f, g \in R : f = g
    OBVIOUS
  <2>2. IsFiniteSet(R) /\ Cardinality(R) <= 1
    BY <2>1, AtMostOne
  <2>3. S = R \union {e} /\ e \notin R
    OBVIOUS
  <2> HIDE DEF R
  <2>4. Cardinality(R) \in Nat
    BY <2>2, FS_CardinalityType
  <2> QED
    BY <2>2, <2>3, <2>4, FS_AddElement
<1> QED
  BY <1>1, <1>2

\* A set of one or two elements, by name.
LEMMA OneOrTwo ==
  ASSUME NEW S, IsFiniteSet(S), Cardinality(S) <= 2, S # {}
  PROVE  \E a, b \in S : S = {a, b} /\ (a # b => Cardinality(S) = 2)
<1>1. PICK a \in S : TRUE
  OBVIOUS
<1> DEFINE R == S \ {a}
<1>2. /\ IsFiniteSet(R) /\ Cardinality(R) = Cardinality(S) - 1 /\ Cardinality(S) \in Nat
      /\ Cardinality(R) \in Nat
  BY FS_RemoveElement, FS_CardinalityType
<1>3. CASE R = {}
  BY <1>3
<1>4. CASE R # {}
  <2>1. Cardinality(R) = 1 /\ Cardinality(S) = 2
    BY <1>2, <1>4, FS_EmptySet
  <2>2. PICK b : R = {b}
    BY <1>2, <2>1, FS_Singleton
  <2> QED
    BY <2>1, <2>2
<1> QED
  BY <1>3, <1>4

\* One or two processes leave no more receipts of a text than they are.
LEMMA FewReceiptsIsReuse ==
  ASSUME PublishAssumption, NEW a \in Processes, NEW b \in Processes,
         Processes = {a, b}, a # b => Cardinality(Processes) = 2, LinkInv, FewReceipts(a, b)
  PROVE  RetriesReuse
<1>1. \A p \in Processes : At(p, "found") => op[p].env \subseteq pending \union shares
  BY DEF LinkInv, Carried, Carrying, At
<1>2. ASSUME NEW s \in Servers, NEW t \in Texts
      PROVE  Cardinality(Kept(s, t)) <= Cardinality(Processes)
  <2>1. CASE a = b
    <3>1. Cardinality(Kept(s, t)) <= 1
      BY <2>1, AtMostOne DEF FewReceipts, FewOf
    <3>2. Cardinality(Processes) = 1
      BY <2>1, FS_Singleton
    <3> QED
      BY <3>1, <3>2
  <2>2. CASE a # b
    BY <2>2, AtMostTwo DEF FewReceipts, FewOf
  <2> QED
    BY <2>1, <2>2
<1> QED
  BY <1>1, <1>2 DEF RetriesReuse

-----------------------------------------------------------------------------
\* The invariant holds in every reachable state.
THEOREM LinkInvariance == PublishAssumption => (Spec => []LinkInv)
<1> SUFFICES ASSUME PublishAssumption PROVE Spec => []LinkInv
  OBVIOUS
<1> QED
  BY LinkInvInit, LinkInvNext, PTL DEF Spec

\* Files, receipts, envelopes and steps are of their kinds.
LEMMA LinkInvTypes == LinkInv => LinkTypeOK
  BY DEF LinkInv, LinkTyped, LinkTypeOK, Ops, Carrying, Sending, Steps

\* Values are of their kinds, in every state of every upload and deletion.
THEOREM LinkTypes == PublishAssumption => (Spec => []LinkTypeOK)
  BY LinkInvTypes, LinkInvariance, PTL

\* publish.rs: an envelope's key is in pending-shares/ before the upload and in shares/
\* before that receipt goes, so whatever fails, races or is lost, this home has the key of
\* every envelope the service serves for it.
THEOREM LinkKeyNeverLost == PublishAssumption => (Spec => []KeyNeverLost)
<1>1. LinkInv => KeyNeverLost
  BY DEF LinkInv
<1> QED
  BY <1>1, LinkInvariance, PTL

\* publish.rs: the receipt is saved before the link is shown.
THEOREM LinksHaveReceipts == PublishAssumption => (Spec => []LinkHasReceipt)
<1>1. LinkInv => LinkHasReceipt
  BY DEF LinkInv
<1> QED
  BY <1>1, LinkInvariance, PTL

\* publish.rs: what a person agreed to is what was read, so that a session file written on
\* meanwhile, a retry, or another server never puts another text online.
THEOREM OnlyAgreedTextsOnline == PublishAssumption => (Spec => []OnlyWhatWasAgreed)
<1>1. LinkInv => OnlyWhatWasAgreed
  BY DEF LinkInv
<1> QED
  BY <1>1, LinkInvariance, PTL

\* publish.rs: "is sent again, as the same ciphertext, when the same session is published":
\* so it is with two processes, which never leave three receipts of one text.
THEOREM LinkRetriesReuse == PublishAssumption => (Spec => []RetriesReuse)
<1> SUFFICES ASSUME PublishAssumption PROVE Spec => []RetriesReuse
  OBVIOUS
<1>1. CASE ~(Cardinality(Processes) <= 2)
  <2>1. LinkInv => RetriesReuse
    BY <1>1 DEF LinkInv, Carried, Carrying, At, RetriesReuse
  <2> QED
    BY <2>1, LinkInvariance, PTL
<1>2. CASE Processes = {}
  <2>1. Init => pending = {}
    BY DEF Init
  <2>2. pending = {} /\ [Next]_vars => (pending = {})'
    BY <1>2 DEF Next, Rewrite, vars
  <2>3. pending = {} => RetriesReuse
    BY <1>2, FS_EmptySet DEF RetriesReuse, Kept
  <2> QED
    BY <2>1, <2>2, <2>3, PTL DEF Spec
<1>3. CASE Cardinality(Processes) <= 2 /\ Processes # {}
  <2>1. PICK a \in Processes, b \in Processes :
          Processes = {a, b} /\ (a # b => Cardinality(Processes) = 2)
    BY <1>3, OneOrTwo DEF PublishAssumption
  <2>2. Init => FewReceipts(a, b)
    BY FewReceiptsInit
  <2>3. LinkInv /\ FewReceipts(a, b) /\ [Next]_vars => FewReceipts(a, b)'
    BY <2>1, FewReceiptsNext
  <2>4. LinkInv /\ FewReceipts(a, b) => RetriesReuse
    BY <2>1, FewReceiptsIsReuse
  <2> QED
    BY <2>2, <2>3, <2>4, LinkInvariance, PTL DEF Spec
<1> QED
  BY <1>1, <1>2, <1>3

=============================================================================
