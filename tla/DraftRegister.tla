---------------------------- MODULE DraftRegister ----------------------------
(* What the drafts of a saved preview promise: one register that is changed *)
(* only from the value whoever changes it was shown, and history is kept.   *)
EXTENDS Naturals, Sequences

CONSTANTS Edits, MaxRevisions

VARIABLE saved  \* the edits saved, in order; the newest is the draft

\* An edit made of the newest draft, as a whole, comes after it.
SaveNext ==
  /\ Len(saved) < MaxRevisions
  /\ \E e \in Edits : e.base = Len(saved) /\ saved' = Append(saved, e)

RegisterSpec == saved = <<>> /\ [][SaveNext]_saved
=============================================================================
