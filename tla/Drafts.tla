-------------------------------- MODULE Drafts --------------------------------
(***************************************************************************)
(* The draft of an excerpt (src/crates/slink-local: drafts.rs;             *)
(* src/crates/slink/src/server.rs: compose).                               *)
(*                                                                         *)
(* Several viewers may run on one home, each with several tabs open on one *)
(* preview.  A draft is a directory of numbered revisions; the newest is   *)
(* the draft.  A save names the revision it was edited from.  In a viewer  *)
(* a lock is held from the reading of the newest revision to the writing   *)
(* of the next; between viewers the hard link decides, which fails on a    *)
(* number already taken.  The temporary file a link is made of is named    *)
(* for the process and the revision.                                       *)
(***************************************************************************)
EXTENDS Naturals, FiniteSets, Sequences

CONSTANTS
  Tabs, Viewers,
  ViewerOf,      \* tab |-> the viewer that serves it
  MaxRevisions,  \* bound: revisions
  MaxFaults      \* bound: viewers that stop, and files that cannot be written

\* What the constants must satisfy.
DraftsAssumption ==
  /\ ViewerOf \in [Tabs -> Viewers] /\ MaxRevisions \in Nat /\ MaxFaults \in Nat

VARIABLES
  files,   \* revision |-> the edit installed under that number
  temp,    \* viewer |-> revision |-> the edit in that temporary file
  lock,    \* viewer |-> the tab whose save holds it, in a set of at most one
  tab,     \* tab |-> [base, at]: the revision it was shown, and how far its save is
  acked,   \* history: the edits a tab was told are saved, with their revision
  faults

vars == <<files, temp, lock, tab, acked, faults>>

\* An edit is told apart by who made it, of what.
Edit(t) == [by |-> t, base |-> tab[t].base]
Newest == Cardinality(DOMAIN files)
Next1(t) == tab[t].base + 1
Numbered(f, k, v) == [x \in DOMAIN f \union {k} |-> IF x = k THEN v ELSE f[x]]
Step(t, at) == tab' = [tab EXCEPT ![t].at = at]
Free(t) == lock' = [lock EXCEPT ![ViewerOf[t]] = {}]
Fault == faults < MaxFaults /\ faults' = faults + 1

-----------------------------------------------------------------------------
\* GET compose: the newest revision and its number (read_draft).
Load(t) ==
  /\ tab[t].at \in {"shown", "refused"}
  /\ tab' = [tab EXCEPT ![t] = [base |-> Newest, at |-> "shown"]]
  /\ UNCHANGED <<files, temp, lock, acked, faults>>

\* Mutant: the lock is not waited for.
CompareUnlocked(t) ==
  /\ tab[t].at = "shown"
  /\ Next1(t) <= MaxRevisions
  /\ IF Newest = tab[t].base
     THEN lock' = [lock EXCEPT ![ViewerOf[t]] = @ \union {t}] /\ Step(t, "agreed")
     ELSE UNCHANGED lock /\ Step(t, "refused")
  /\ UNCHANGED <<files, temp, acked, faults>>

\* PUT draft, with the lock: the revision it names must be the newest.
Compare(t) ==
  /\ tab[t].at = "shown" /\ lock[ViewerOf[t]] = {}
  /\ Next1(t) <= MaxRevisions
  /\ IF Newest = tab[t].base
     THEN lock' = [lock EXCEPT ![ViewerOf[t]] = {t}] /\ Step(t, "agreed")
     ELSE UNCHANGED lock /\ Step(t, "refused")
  /\ UNCHANGED <<files, temp, acked, faults>>

\* Mutant: a temporary file left behind is in the way.
WriteTempNew(t) ==
  /\ tab[t].at = "agreed" /\ Next1(t) \notin DOMAIN temp[ViewerOf[t]] /\ Step(t, "written")
  /\ temp' = [temp EXCEPT ![ViewerOf[t]] = Numbered(@, Next1(t), Edit(t))]
  /\ UNCHANGED <<files, lock, acked, faults>>

\* write_draft: the temporary file, whole.
WriteTemp(t) ==
  /\ tab[t].at = "agreed" /\ Step(t, "written")
  /\ temp' = [temp EXCEPT ![ViewerOf[t]] = Numbered(@, Next1(t), Edit(t))]
  /\ UNCHANGED <<files, lock, acked, faults>>

\* Mutant: the temporary file is renamed over the revision.
Rename(t) ==
  /\ tab[t].at = "written" /\ Step(t, "linked")
  /\ files' = Numbered(files, Next1(t), temp[ViewerOf[t]][Next1(t)])
  /\ UNCHANGED <<temp, lock, acked, faults>>

\* The link is made of whatever that file holds, if the number is unused.
Link(t) ==
  /\ tab[t].at = "written"
  /\ IF Next1(t) \in DOMAIN files
     THEN UNCHANGED files /\ Step(t, "taken")
     ELSE /\ files' = Numbered(files, Next1(t), temp[ViewerOf[t]][Next1(t)])
          /\ Step(t, "linked")
  /\ UNCHANGED <<temp, lock, acked, faults>>

\* The temporary file is removed, and the tab told.
Reply(t) ==
  /\ tab[t].at \in {"linked", "taken"} /\ Free(t)
  /\ IF tab[t].at = "linked"
     THEN /\ acked' = acked \union {[rev |-> Next1(t), edit |-> Edit(t)]}
          /\ tab' = [tab EXCEPT ![t] = [base |-> Next1(t), at |-> "shown"]]
     ELSE UNCHANGED acked /\ Step(t, "refused")
  /\ UNCHANGED <<files, temp, faults>>

\* The temporary file or the link cannot be made.
CannotWrite(t) ==
  /\ tab[t].at \in {"agreed", "written"} /\ Fault /\ Free(t) /\ Step(t, "shown")
  /\ UNCHANGED <<files, temp, acked>>

\* A viewer stops, and one is started again: its tabs are not answered, and keep their edits.
Stop(v) ==
  /\ Fault /\ lock' = [lock EXCEPT ![v] = {}]
  /\ tab' = [t \in Tabs |-> IF ViewerOf[t] = v THEN [tab[t] EXCEPT !.at = "shown"] ELSE tab[t]]
  /\ temp' = [temp EXCEPT ![v] = <<>>]   \* another process, other names
  /\ UNCHANGED <<files, acked>>

Init ==
  /\ files = <<>> /\ temp = [v \in Viewers |-> <<>>] /\ lock = [v \in Viewers |-> {}]
  /\ tab = [t \in Tabs |-> [base |-> 0, at |-> "shown"]]
  /\ acked = {} /\ faults = 0

Install(t) == WriteTemp(t) \/ Link(t) \/ Reply(t)

Next ==
  \/ \E t \in Tabs : Load(t) \/ Compare(t) \/ Install(t) \/ CannotWrite(t)
  \/ \E v \in Viewers : Stop(v)

\* A save that was begun goes on; nobody need edit or reload.
Fairness == \A t \in Tabs : WF_vars(Install(t))

Spec == Init /\ [][Next]_vars
FairSpec == Spec /\ Fairness

-----------------------------------------------------------------------------
(* Properties.                                                             *)

DraftsTypeOK ==
  /\ DOMAIN files = 1 .. Newest
  /\ \A v \in Viewers : lock[v] \subseteq {t \in Tabs : ViewerOf[t] = v} /\ Cardinality(lock[v]) <= 1
  /\ \A t \in Tabs :
       /\ tab[t].base \in 0 .. MaxRevisions
       /\ tab[t].at \in {"shown", "refused", "agreed", "written", "linked", "taken"}

\* An edit a tab was told is saved is the one installed under the number it was given,
\* and stays so, whoever saves in this viewer or another meanwhile.
AckedIsKept == \A a \in acked : a.rev \in DOMAIN files /\ files[a.rev] = a.edit

\* The numbered files implement the register: every revision was edited from the one
\* before it, so nobody's words are replaced by someone who was not shown them.
Register == INSTANCE DraftRegister WITH
  Edits <- [by : Tabs, base : 0 .. MaxRevisions],
  saved <- [r \in 1 .. Newest |-> files[r]]
ImplementsRegister == Register!RegisterSpec

\* Tabs that save at once cannot all be turned away: once a save was allowed, its revision
\* is installed, by it or by a rival, when nothing fails any more.
SomeSaveLands ==
  \A n \in 0 .. MaxRevisions - 1 :
    (/\ faults = MaxFaults /\ Newest = n
     /\ \E t \in Tabs : tab[t].at = "agreed" /\ tab[t].base = n) ~> (Newest > n)
=============================================================================
