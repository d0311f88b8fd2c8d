---------------------------- MODULE LinkPublish -----------------------------
(***************************************************************************)
(* Publishing a session as an encrypted link, and taking it offline        *)
(* (src/crates/slink-client: publish.rs, delete.rs; src/crates/slink:      *)
(* publish.rs, account.rs).                                                *)
(*                                                                         *)
(* Processes are slink commands and viewers that share one home.  Each     *)
(* reads a session file, shows it, asks, and uploads what it read; the     *)
(* content key is kept in pending-shares/ before a byte is sent, and in    *)
(* shares/ once the service acknowledges.  An envelope is the text sealed  *)
(* in it, the server it was sealed for, and a number drawn with its key;   *)
(* its name in pending-shares/ is a hash, so any of several may come first.*)
(*                                                                         *)
(* The service is external: it knows an envelope by its bytes, answers     *)
(* with the same share each time, and takes a deleted share back when its  *)
(* bytes come again.  The pending name with no envelope in it, which only  *)
(* an older client wrote, is left out.                                     *)
(***************************************************************************)
EXTENDS Naturals, FiniteSets

CONSTANTS
  Processes,
  Servers,
  Texts,       \* what a session file may hold
  Publishable, \* those that are valid sessions with no credential in them
  MaxSealed,   \* bound: envelopes
  MaxFaults    \* bound: deaths and failing calls

\* What the constants must satisfy.
PublishAssumption ==
  /\ IsFiniteSet(Processes) /\ Publishable \subseteq Texts
  /\ MaxSealed \in Nat /\ MaxFaults \in Nat

VARIABLES
  file,      \* what the session file holds
  agreed,    \* history: the texts a person agreed to publish, and where
  drawn,     \* keys drawn
  pending,   \* envelopes with a receipt in pending-shares/
  shares,    \* envelopes with a receipt in shares/
  online, gone, \* envelopes the service serves, and those it was told to delete
  op,        \* what each process is doing
  links,     \* history: the links people were given
  offline,   \* history: the links a person was told are offline
  faults

service == <<online, gone>>
vars == <<file, agreed, drawn, pending, shares, service, op, links, offline, faults>>

Idle == [at |-> "idle"]
At(p, step) == op[p].at = step
Goes(p, next) == op' = [op EXCEPT ![p] = next]
Step(p, step) == Goes(p, [op[p] EXCEPT !.at = step])
Envelope(n, s, t) == [n |-> n, server |-> s, text |-> t]

\* The receipts kept for a text on a server: their names start with a hash of both.
Kept(s, t) == {e \in pending : e.server = s /\ e.text = t}

-----------------------------------------------------------------------------
(* Publishing.                                                             *)

\* inspect: the file is read once, validated and scanned; what passes is shown.
Inspect(p, s) ==
  /\ At(p, "idle") /\ file \in Publishable
  /\ Goes(p, [at |-> "asked", server |-> s, text |-> file])
  /\ UNCHANGED <<file, agreed, drawn, pending, shares, service, links, offline, faults>>

\* Mutant: the file is read again once the person has said yes.
ConfirmReread(p) ==
  /\ At(p, "asked")
  /\ agreed' = agreed \union {<<op[p].server, op[p].text>>}
  /\ Goes(p, [op[p] EXCEPT !.at = "looks", !.text = file])
  /\ UNCHANGED <<file, drawn, pending, shares, service, links, offline, faults>>

\* The person says yes, or passed --yes.
Confirm(p) ==
  /\ At(p, "asked")
  /\ agreed' = agreed \union {<<op[p].server, op[p].text>>}
  /\ Step(p, "looks")
  /\ UNCHANGED <<file, drawn, pending, shares, service, links, offline, faults>>

Decline(p) ==
  /\ At(p, "asked") /\ Goes(p, Idle)
  /\ UNCHANGED <<file, agreed, drawn, pending, shares, service, links, offline, faults>>

\* pending_file: the directory is listed for a receipt of this text on this server.
Look(p) ==
  /\ At(p, "looks")
  /\ LET s == op[p].server
         t == op[p].text
         next(e) == [at |-> "found", server |-> s, text |-> t, env |-> e]
     IN  IF Kept(s, t) = {} THEN Goes(p, next({}))
         ELSE \E e \in Kept(s, t) : Goes(p, next({e}))
  /\ UNCHANGED <<file, agreed, drawn, pending, shares, service, links, offline, faults>>

\* Mutant: a text with a receipt is taken to be published already.
ResumeStops(p) ==
  /\ At(p, "found") /\ op[p].env # {} /\ op[p].env \subseteq pending
  /\ Goes(p, Idle)
  /\ UNCHANGED <<file, agreed, drawn, pending, shares, service, links, offline, faults>>

\* The receipt is read; it opens to this text.
Resume(p) ==
  /\ At(p, "found") /\ op[p].env # {} /\ op[p].env \subseteq pending
  /\ Step(p, "send")
  /\ UNCHANGED <<file, agreed, drawn, pending, shares, service, links, offline, faults>>

\* Mutant: the key is only in memory while the envelope is sent.
SealUnsaved(p) ==
  /\ At(p, "found") /\ ~(op[p].env # {} /\ op[p].env \subseteq pending)
  /\ drawn < MaxSealed /\ drawn' = drawn + 1
  /\ Goes(p, [op[p] EXCEPT !.at = "send", !.env = {Envelope(drawn + 1, op[p].server, op[p].text)}])
  /\ UNCHANGED <<file, agreed, pending, shares, service, links, offline, faults>>

\* There was none, or it went meanwhile: a new key, saved before anything is sent.
Seal(p) ==
  /\ At(p, "found") /\ ~(op[p].env # {} /\ op[p].env \subseteq pending)
  /\ drawn < MaxSealed /\ drawn' = drawn + 1
  /\ LET e == Envelope(drawn + 1, op[p].server, op[p].text)
     IN  /\ pending' = pending \union {e}
         /\ Goes(p, [op[p] EXCEPT !.at = "send", !.env = {e}])
  /\ UNCHANGED <<file, agreed, shares, service, links, offline, faults>>

\* The service takes the upload, new or known; its answer may be lost.
Taken(p) ==
  /\ At(p, "send")
  /\ online' = online \union op[p].env /\ gone' = gone \ op[p].env
  /\ Step(p, "answered")
  /\ UNCHANGED <<file, agreed, drawn, pending, shares, links, offline, faults>>

\* The service refuses, or an answer does not acknowledge this envelope: the receipt stays.
Refused(p) ==
  /\ At(p, "send") /\ faults < MaxFaults /\ faults' = faults + 1
  /\ Goes(p, Idle)
  /\ UNCHANGED <<file, agreed, drawn, pending, shares, service, links, offline>>

\* The complete link is saved as the share's receipt.
SaveReceipt(p) ==
  /\ At(p, "answered")
  /\ shares' = shares \union op[p].env
  /\ Step(p, "saved")
  /\ UNCHANGED <<file, agreed, drawn, pending, service, links, offline, faults>>

\* The pending receipt goes, or its removal fails unnoticed.
Forget(p) ==
  /\ At(p, "saved")
  /\ \/ pending' = pending \ op[p].env /\ UNCHANGED faults
     \/ faults < MaxFaults /\ faults' = faults + 1 /\ UNCHANGED pending
  /\ Step(p, "kept")
  /\ UNCHANGED <<file, agreed, drawn, shares, service, links, offline>>

\* The key is backed up (module Identity), which decides nothing here, and the link is printed.
Show(p) ==
  /\ At(p, "kept")
  /\ links' = links \union op[p].env
  /\ Goes(p, Idle)
  /\ UNCHANGED <<file, agreed, drawn, pending, shares, service, offline, faults>>

\* A crash, a lost request or answer, or a receipt that cannot be written.
Fails(p) ==
  /\ ~At(p, "idle") /\ faults < MaxFaults /\ faults' = faults + 1
  /\ Goes(p, Idle)
  /\ UNCHANGED <<file, agreed, drawn, pending, shares, service, links, offline>>

-----------------------------------------------------------------------------
(* Taking a link offline.                                                  *)

Delete(p) ==
  /\ At(p, "idle")
  /\ \E e \in links \ offline : Goes(p, [at |-> "delete", env |-> {e}])
  /\ UNCHANGED <<file, agreed, drawn, pending, shares, service, links, offline, faults>>

Deleted(p) ==
  /\ At(p, "delete")
  /\ online' = online \ op[p].env /\ gone' = gone \union op[p].env
  /\ Step(p, "deleted")
  /\ UNCHANGED <<file, agreed, drawn, pending, shares, links, offline, faults>>

\* A success, or 410 for a share that is gone already.
SayOffline(p) ==
  /\ At(p, "deleted")
  /\ offline' = offline \union op[p].env
  /\ Goes(p, Idle)
  /\ UNCHANGED <<file, agreed, drawn, pending, shares, service, links, faults>>

-----------------------------------------------------------------------------
\* A recorder or an editor rewrites the session file.
Rewrite ==
  /\ \E t \in Texts \ {file} : file' = t
  /\ UNCHANGED <<agreed, drawn, pending, shares, service, op, links, offline, faults>>

Init ==
  /\ file \in Texts
  /\ agreed = {} /\ drawn = 0 /\ pending = {} /\ shares = {}
  /\ online = {} /\ gone = {} /\ links = {} /\ offline = {} /\ faults = 0
  /\ op = [p \in Processes |-> Idle]

Upload(p) ==
  \/ Look(p) \/ Resume(p) \/ Seal(p) \/ Taken(p)
  \/ SaveReceipt(p) \/ Forget(p) \/ Show(p)

Next ==
  \/ Rewrite
  \/ \E p \in Processes :
       \/ \E s \in Servers : Inspect(p, s)
       \/ Confirm(p) \/ Decline(p) \/ Upload(p) \/ Refused(p) \/ Fails(p)
       \/ Delete(p) \/ Deleted(p) \/ SayOffline(p)

\* A command that is not killed goes on, a service that is asked answers, and a person
\* who wants a link asks for it again and says yes (the file left alone).
Fairness ==
  \A p \in Processes :
    /\ WF_vars(Upload(p)) /\ WF_vars(Deleted(p) \/ SayOffline(p)) /\ WF_vars(Confirm(p))

Spec == Init /\ [][Next]_vars
FairSpec == Spec /\ Fairness

-----------------------------------------------------------------------------
(* Properties.                                                             *)

AllEnvelopes == [n : 1 .. MaxSealed, server : Servers, text : Publishable]
Steps == {"idle", "asked", "looks", "found", "send", "answered", "saved", "kept", "delete", "deleted"}

LinkTypeOK ==
  /\ file \in Texts /\ agreed \subseteq Servers \X Texts
  /\ drawn \in 0 .. MaxSealed /\ faults \in 0 .. MaxFaults
  /\ \A s \in {pending, shares, online, gone, links, offline} : s \subseteq AllEnvelopes
  /\ \A p \in Processes : op[p].at \in Steps

\* Whatever is lost, interrupted or raced, this home can open every envelope the service
\* serves for it: its key is in pending-shares/ or in shares/.
KeyNeverLost == online \subseteq pending \union shares

\* A link a person was given has its receipt, so that it can be shown and backed up again.
LinkHasReceipt == links \subseteq shares

\* What reaches a server is what its person saw and agreed to send there, though the
\* session file is rewritten while they read it.
OnlyWhatWasAgreed == \A e \in online : <<e.server, e.text>> \in agreed

\* Retries do not multiply shares: a receipt that an upload found is sent again, as the same
\* ciphertext, unless its link was saved meanwhile; and one or two processes never leave more
\* unacknowledged envelopes of a text than they are (three can: README).
RetriesReuse ==
  /\ \A p \in Processes : At(p, "found") => op[p].env \subseteq pending \union shares
  /\ Cardinality(Processes) <= 2 =>
       \A s \in Servers, t \in Texts : Cardinality(Kept(s, t)) <= Cardinality(Processes)

\* A text that a person agreed to publish, however many tries failed before, ends as a link
\* to that text once nothing fails any more (and keys are left to draw).
EndsInLink ==
  \A p \in Processes, s \in Servers, t \in Publishable :
    (/\ At(p, "looks") /\ op[p].server = s /\ op[p].text = t
     /\ faults = MaxFaults /\ drawn + Cardinality(Processes) <= MaxSealed)
      ~> \E e \in links : e.server = s /\ e.text = t

=============================================================================
