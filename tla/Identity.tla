----------------------------- MODULE Identity -------------------------------
(***************************************************************************)
(* A machine's part in its account's devices and vault                     *)
(* (src/crates/slink-client: identity.rs, device.rs, vault.rs).            *)
(*                                                                         *)
(* Each action of a machine reads the record the service holds, verifies   *)
(* it, checks it against the pins in the device file, and writes one event *)
(* and the vault made for it against the head and revision it read.  A     *)
(* machine takes one action at a time (identity/.lock); machines           *)
(* interleave between requests.  A request or its answer may be lost, a    *)
(* process may die, and the service may be restored from a copy of its     *)
(* disk.                                                                   *)
(*                                                                         *)
(* The service is external: it verifies each write and takes it only       *)
(* against the head and revision it holds.  A person types the code and    *)
(* the recovery key they were shown.  The lifetime of an approval request, *)
(* names, size limits and named shares in the vault (module NamedShare)    *)
(* are left out.                                                           *)
(***************************************************************************)
EXTENDS DeviceHistory

CONSTANTS
  Machines,     \* homes signed in to the account
  Links,        \* the links they may publish
  MaxDrawn,     \* bound: keys drawn
  MaxRevision,  \* bound: vault writes the service takes
  MaxRestores   \* bound: restores of the service

\* What the constants must satisfy.
IdentityAssumption == MaxDrawn \in Nat /\ MaxRevision \in Nat /\ MaxRestores \in Nat

VARIABLES
  record,     \* what the service holds for the account
  requests,   \* the approval requests it lists
  copy,       \* the copy of its disk a restore returns to
  restores,
  file,       \* each machine's device file
  receipts,   \* the links in each machine's shares/ directory
  op,         \* the action each machine is taking
  drawn,      \* keys are numbered as they are drawn
  shown,      \* the recovery keys a person was shown, by their root
  opened,     \* history: the vault and incoming-share keys each device has held
  backedUp    \* history: the links some machine was told are in the vault

service == <<record, requests, copy, restores>>
history == <<shown, opened, backedUp>>
vars == <<service, file, receipts, op, drawn, history>>

-----------------------------------------------------------------------------
NoRecord == [events |-> <<>>, vault |-> [revision |-> 0, inboxes |-> {}]]
NoFile == [id |-> None]
Idle == [at |-> "idle"]
NoEvent == <<>>

At(m, step) == op[m].at = step
Post(m, act, update) ==
  [at |-> "post", act |-> act, update |-> update,
   tries |-> IF At(m, "again") THEN op[m].tries + 1 ELSE 1]
Stop(m) == op' = [op EXCEPT ![m] = Idle]
Save(m, f) == file' = [file EXCEPT ![m] = f]

-----------------------------------------------------------------------------
(* The device file and its pins.                                           *)

Device(id) ==
  [id |-> id, root |-> None, head |-> <<>>, revision |-> 0, recovery |-> None, setup |-> <<>>]

Approved(f, rec) == f # NoFile /\ f.id \in Devices(State(rec))

\* A setup made here that the service never acknowledged, while the account has an
\* identity this device's keys are not in.
SetupConflict(f, rec) ==
  f.setup # <<>> /\ f.root # State(rec).root /\ ~Approved(f, rec)

\* Device::pin refuses another root, an older history or vault, and a history
\* that leaves the one it saw.
Prefix(s, t) == Len(s) <= Len(t) /\ SubSeq(t, 1, Len(s)) = s
SameHead(f, rec) == f.head = SubSeq(rec.events, 1, Len(f.head))
\* Mutant: any history that is long enough will do.
PinHoldsOnAnyBranch(f, rec) ==
  /\ ~SetupConflict(f, rec)
  /\ f.recovery \in {None, State(rec).root}
  /\ f.root \in {None, State(rec).root}
  /\ Len(f.head) <= Len(rec.events) /\ f.revision <= rec.vault.revision

PinHolds(f, rec) ==
  /\ ~SetupConflict(f, rec)
  /\ f.recovery \in {None, State(rec).root}
  /\ f.root \in {None, State(rec).root}
  /\ Len(f.head) <= Len(rec.events) /\ f.revision <= rec.vault.revision
  /\ SameHead(f, rec)

Pinned(f, rec) ==
  [f EXCEPT !.root = State(rec).root, !.head = rec.events,
            !.revision = rec.vault.revision, !.setup = <<>>]

\* Device::wrote: the pins move on to what the service has just taken.
Wrote(f, update) ==
  [f EXCEPT !.head = IF update.event = NoEvent THEN @ ELSE update.vault.head,
            !.revision = update.expectedRevision + 1]

-----------------------------------------------------------------------------
(* Writes.                                                                 *)

\* rotate_inbox: a new incoming-share key joins those the vault has, which stay for the
\* grants already made to them.
Inboxes(old, state) == old.vault.inboxes \union ({state.inbox} \ {None})

\* prepare: the vault sealed for the state after the event, as a write against old.
Prepared(old, event, key, links, signer) ==
  LET events == old.events \o event
  IN  [expectedHead |-> old.events, expectedRevision |-> old.vault.revision, event |-> event,
       vault |-> [revision |-> old.vault.revision + 1, head |-> events,
                  epoch |-> events[Len(events)].epoch, signer |-> signer,
                  key |-> key, links |-> links,
                  inboxes |-> Inboxes(old, events[Len(events)])]]

After(rec, update) == [events |-> rec.events \o update.event, vault |-> update.vault]

\* Mutant: the vault's links are replaced by this machine's.
MergedOver(m, rec) == receipts[m]

\* Contents::open: a vault is bound to its state by the incoming-share key in it.
Readable(rec) ==
  LET inbox == State(rec).inbox
  IN  IF inbox = None THEN rec.vault.inboxes = {} ELSE inbox \in rec.vault.inboxes

\* Contents::merge: this machine's receipts added to the vault's.
Merged(m, rec) == rec.vault.links \union receipts[m]

\* genesis: a new identity with this device as its first, under one drawn number
\* for the recovery keys and the vault key.
Genesis(m, id, n) ==
  LET wrap == [key |-> n, epoch |-> 1]
      first == [kind |-> "init", signer |-> RootKey, root |-> n, epoch |-> 1,
                wraps |-> [d \in {id} |-> wrap], recoveryWrap |-> wrap, inbox |-> None]
  IN  Prepared(NoRecord, <<first>>, n, receipts[m], RootKey)

\* The state with a device added, its wrapper made for the current epoch.
Enrolled(state, id, key, kind, signer) ==
  [state EXCEPT !.kind = kind, !.signer = signer,
                !.wraps = [d \in Devices(state) \union {id} |->
                             IF d = id THEN Wrap(key, state) ELSE state.wraps[d]]]

\* Mutant: the recovery key keeps the wrapper of the epoch before.
RevokedKeepingRecoveryWrap(state, id, key, signer) ==
  LET next == [state EXCEPT !.epoch = @ + 1]
  IN  [next EXCEPT !.kind = "revoke", !.signer = signer,
                   !.inbox = IF @ = None THEN None ELSE key,
                   !.wraps = [d \in Devices(state) \ {id} |-> Wrap(key, next)]]

\* The state without a device: a new epoch, and a new vault key wrapped for it to
\* each device that stays and to the recovery key; a new incoming-share key if there was one.
Revoked(state, id, key, signer) ==
  LET next == [state EXCEPT !.epoch = @ + 1]
  IN  [next EXCEPT !.kind = "revoke", !.signer = signer,
                   !.inbox = IF @ = None THEN None ELSE key,
                   !.wraps = [d \in Devices(state) \ {id} |-> Wrap(key, next)],
                   !.recoveryWrap = Wrap(key, next)]

Shared(state, key, signer) ==
  [state EXCEPT !.kind = "sharing", !.signer = signer, !.inbox = key]

-----------------------------------------------------------------------------
(* Taking an action.  A machine that reads the record goes on with what it  *)
(* read in the same step: until it writes, nothing else depends on it.     *)

\* The machine has read the record to take an action, or again after losing a race.
Starts(m, act) == At(m, "idle") \/ (act = "sync" /\ At(m, "again"))

\* A first setup: the identity is pinned and the exact request kept before it is sent.
SetUp(m) ==
  /\ Starts(m, "setup") /\ record = NoRecord
  /\ file[m] = NoFile /\ drawn + 2 <= MaxDrawn
  /\ LET update == Genesis(m, drawn + 1, drawn + 2)
     IN  /\ Save(m, [Device(drawn + 1) EXCEPT
                       !.root = drawn + 2, !.head = update.vault.head, !.revision = 1,
                       !.setup = <<update>>, !.recovery = drawn + 2])
         /\ op' = [op EXCEPT ![m] = Post(m, "setup", update)]
  /\ drawn' = drawn + 2
  /\ UNCHANGED <<service, receipts, history>>

\* A setup sent before, whose answer never came: the same request again.
SetUpAgain(m) ==
  /\ Starts(m, "setup") /\ record = NoRecord
  /\ file[m] # NoFile /\ file[m].setup # <<>>
  /\ op' = [op EXCEPT ![m] = Post(m, "setup", file[m].setup[1])]
  /\ UNCHANGED <<service, file, receipts, drawn, history>>

\* An identity made elsewhere won: the keys of the setup go, and this is a new device.
Discard(m) ==
  /\ Starts(m, "discard-setup") /\ record # NoRecord /\ file[m] # NoFile
  /\ SetupConflict(file[m], record)
  /\ Save(m, NoFile)
  /\ UNCHANGED <<service, receipts, op, drawn, history>>

\* The record is there, and is the one this device pinned or one that goes on from it.
Reads(m, act) ==
  /\ Starts(m, act) /\ record # NoRecord
  /\ file[m] # NoFile => PinHolds(file[m], record)

\* Any other action of a device that is not approved, and a discard with no unfinished setup:
\* the pins move on.
Locked(m) ==
  /\ \/ \E act \in {"status", "sync"} : Reads(m, act) /\ ~Approved(file[m], record)
     \/ Reads(m, "discard-setup")
  /\ file[m] # NoFile /\ Save(m, Pinned(file[m], record))
  /\ Stop(m)
  /\ UNCHANGED <<service, receipts, drawn, history>>

\* Mutant: the device file is saved before the record is pinned in it.
AskUnpinned(m) ==
  /\ Reads(m, "request") /\ ~Approved(file[m], record)
  /\ LET new == file[m] = NoFile
         f == IF new THEN Device(drawn + 1) ELSE file[m]
     IN  /\ new => drawn < MaxDrawn
         /\ drawn' = IF new THEN drawn + 1 ELSE drawn
         /\ Save(m, f)
         /\ op' = [op EXCEPT ![m] = [at |-> "ask"]]
  /\ UNCHANGED <<service, receipts, history>>

\* Asking to be approved, with the device's keys or, on a new machine, with new ones.
Ask(m) ==
  /\ Reads(m, "request") /\ ~Approved(file[m], record)
  /\ LET new == file[m] = NoFile
         f == IF new THEN Device(drawn + 1) ELSE file[m]
     IN  /\ new => drawn < MaxDrawn
         /\ drawn' = IF new THEN drawn + 1 ELSE drawn
         /\ Save(m, Pinned(f, record))
         /\ op' = [op EXCEPT ![m] = [at |-> "ask"]]
  /\ UNCHANGED <<service, receipts, history>>

\* Recovering with a recovery key the person was shown: fresh keys, saved before
\* they are enrolled by an event of the root key.
Recover(m) ==
  /\ Reads(m, "recover") /\ ~Approved(file[m], record)
  /\ LET state == State(record)
         key == record.vault.key
         event == Enrolled(state, drawn + 1, key, "recover", RootKey)
     IN  /\ state.root \in shown /\ Opens(state.recoveryWrap, record) /\ Readable(record)
         /\ drawn < MaxDrawn /\ drawn' = drawn + 1
         /\ Save(m, Pinned(Device(drawn + 1), record))
         /\ op' = [op EXCEPT ![m] =
                     Post(m, "recover", Prepared(record, <<event>>, key, Merged(m, record), RootKey))]
  /\ UNCHANGED <<service, receipts, history>>

\* A recovery key that is missing or does not open the record: the machine is left
\* with new keys, pinned, if it had none.
CannotRecover(m) ==
  /\ Reads(m, "recover") /\ ~Approved(file[m], record)
  /\ LET new == file[m] = NoFile
         f == IF new THEN Device(drawn + 1) ELSE file[m]
     IN  /\ new => drawn < MaxDrawn
         /\ drawn' = IF new THEN drawn + 1 ELSE drawn
         /\ Save(m, Pinned(f, record))
  /\ UNCHANGED <<service, receipts, op, history>>

-----------------------------------------------------------------------------
(* The actions of an approved device.  Each first pins the record, opens   *)
(* the vault, and writes its links out to shares/.                         *)

Own(m) == State(record).wraps[file[m].id]

Entitled(m, act) ==
  /\ Reads(m, act) /\ Approved(file[m], record)
  /\ Opens(Own(m), record) /\ Readable(record)

Enter(m, f) ==
  /\ Save(m, f)
  /\ receipts' = [receipts EXCEPT ![m] = @ \union record.vault.links]
  /\ opened' = opened \union
                 {<<file[m].id, k>> : k \in {record.vault.key} \union record.vault.inboxes}

\* status, or an action with nothing to do.
Look(m) ==
  /\ Entitled(m, "status")
  /\ Enter(m, Pinned(file[m], record))
  /\ UNCHANGED <<service, op, drawn, shown, backedUp>>

\* setup, once more: the recovery key is shown until its owner says it is saved.
ShowRecovery(m) ==
  /\ Entitled(m, "setup") /\ file[m].recovery # None
  /\ Enter(m, Pinned(file[m], record))
  /\ shown' = shown \union {file[m].recovery}
  /\ UNCHANGED <<service, op, drawn, backedUp>>

\* The person says they have saved the recovery key.  The command takes their word: that they
\* were shown it is the person's doing.
ConfirmRecovery(m) ==
  /\ Entitled(m, "confirm-recovery")
  /\ file[m].recovery \in shown
  /\ Enter(m, [Pinned(file[m], record) EXCEPT !.recovery = None])
  /\ UNCHANGED <<service, op, drawn, shown, backedUp>>

\* The merge reads shares/ after the vault's links were written there.
Writes(m, act, event, key) ==
  /\ Enter(m, Pinned(file[m], record))
  /\ op' = [op EXCEPT ![m] =
              Post(m, act, Prepared(record, event, key, Merged(m, record), file[m].id))]
  /\ UNCHANGED <<service, shown, backedUp>>

Sync(m) ==
  /\ Entitled(m, "sync")
  /\ Writes(m, "sync", NoEvent, record.vault.key)
  /\ UNCHANGED drawn

\* The code typed is the one of a listed request.
Approve(m) ==
  /\ Entitled(m, "approve")
  /\ \E id \in requests :
       LET key == Own(m).key
       IN  Writes(m, "approve", <<Enrolled(State(record), id, key, "approve", file[m].id)>>, key)
  /\ UNCHANGED drawn

Revoke(m) ==
  /\ Entitled(m, "revoke") /\ drawn < MaxDrawn
  /\ \E id \in Devices(State(record)) \ {file[m].id} :
       Writes(m, "revoke", <<Revoked(State(record), id, drawn + 1, file[m].id)>>, drawn + 1)
  /\ drawn' = drawn + 1

ShareOn(m) ==
  /\ Entitled(m, "sharing") /\ State(record).inbox = None /\ drawn < MaxDrawn
  /\ Writes(m, "sharing", <<Shared(State(record), drawn + 1, file[m].id)>>, record.vault.key)
  /\ drawn' = drawn + 1

-----------------------------------------------------------------------------
(* The request, the service and the answer.                                *)

\* Mutant: the history is compared and the revision is not.
CurrentHead(update) == update.expectedHead = record.events

\* The service takes a write only against what it holds, and within its limits.
Current(update) ==
  update.expectedHead = record.events /\ update.expectedRevision = record.vault.revision
Takes(update) ==
  /\ Current(update)
  /\ update.vault.revision <= MaxRevision
  /\ RecordOK(After(record, update))

\* The service takes the write; its answer may be lost.
Taken(m) ==
  /\ At(m, "post") /\ Takes(op[m].update)
  /\ record' = After(record, op[m].update)
  /\ requests' = requests \ Devices(State(record'))
  /\ op' = [op EXCEPT ![m] = [@ EXCEPT !.at = "answered"]]
  /\ UNCHANGED <<copy, restores, file, receipts, drawn, history>>

\* A backup that lost a race is made again from the newer vault, three times in all.
RefusedWrite(m) ==
  /\ At(m, "post") /\ ~Takes(op[m].update)
  /\ op' = [op EXCEPT ![m] = IF @.act = "sync" /\ ~Current(@.update) /\ @.tries < 3
                                THEN [at |-> "again", tries |-> @.tries] ELSE Idle]
  /\ UNCHANGED <<service, file, receipts, drawn, history>>

\* The answer to a write: the pins move on, and a status follows.
Acknowledged(m) ==
  /\ At(m, "answered") /\ op[m].act # "setup"
  /\ Save(m, Wrote(file[m], op[m].update))
  /\ backedUp' = backedUp \union op[m].update.vault.links
  /\ Stop(m)
  /\ UNCHANGED <<service, receipts, drawn, shown, opened>>

\* The answer to a setup is the record, which is read as any other.
SetupAnswered(m) ==
  /\ At(m, "answered") /\ op[m].act = "setup"
  /\ LET f == file[m]
         rec == After(NoRecord, op[m].update)
     IN  /\ PinHolds(f, rec)
         /\ Save(m, Pinned(f, rec))
         /\ shown' = shown \union {f.recovery}
         /\ opened' = opened \union {<<f.id, rec.vault.key>>}
         /\ backedUp' = backedUp \union rec.vault.links
  /\ Stop(m)
  /\ UNCHANGED <<service, receipts, drawn>>

RequestStored(m) ==
  /\ At(m, "ask")
  /\ requests' = IF record # NoRecord /\ file[m].id \notin Devices(State(record))
                 THEN requests \union {file[m].id} ELSE requests
  /\ Stop(m)
  /\ UNCHANGED <<record, copy, restores, file, receipts, drawn, history>>

\* The process dies, or a request or an answer is lost: what was saved stays.
Fails(m) ==
  /\ ~At(m, "idle")
  /\ Stop(m)
  /\ UNCHANGED <<service, file, receipts, drawn, history>>

-----------------------------------------------------------------------------
(* What happens around them.                                               *)

\* A link is published and its receipt kept (module LinkPublish).
Publish(m, l) ==
  /\ l \notin receipts[m] /\ \A n \in Machines : l \notin receipts[n]
  /\ receipts' = [receipts EXCEPT ![m] = @ \union {l}]
  /\ UNCHANGED <<service, file, op, drawn, history>>

Copy ==
  /\ restores < MaxRestores /\ copy # record
  /\ copy' = record
  /\ UNCHANGED <<record, requests, restores, file, receipts, op, drawn, history>>

Restore ==
  /\ restores < MaxRestores /\ copy # record
  /\ record' = copy /\ requests' = {}
  /\ restores' = restores + 1
  /\ UNCHANGED <<copy, file, receipts, op, drawn, history>>

Init ==
  /\ record = NoRecord /\ requests = {} /\ copy = NoRecord /\ restores = 0
  /\ file = [m \in Machines |-> NoFile]
  /\ receipts = [m \in Machines |-> {}]
  /\ op = [m \in Machines |-> Idle]
  /\ drawn = 0 /\ shown = {} /\ opened = {} /\ backedUp = {}

Act(m) ==
  \/ SetUp(m) \/ SetUpAgain(m) \/ Discard(m) \/ Locked(m)
  \/ Ask(m) \/ Recover(m) \/ CannotRecover(m)
  \/ Look(m) \/ ShowRecovery(m) \/ ConfirmRecovery(m)
  \/ Sync(m) \/ Approve(m) \/ Revoke(m) \/ ShareOn(m)

Deliver(m) ==
  Taken(m) \/ RefusedWrite(m) \/ Acknowledged(m) \/ SetupAnswered(m) \/ RequestStored(m)

Next ==
  \/ \E m \in Machines :
       \/ Act(m) \/ Deliver(m) \/ Fails(m)
       \/ \E l \in Links : Publish(m, l)
  \/ Copy \/ Restore

Spec == Init /\ [][Next]_vars

-----------------------------------------------------------------------------
(* Properties.                                                             *)

Keys == 1 .. MaxDrawn
FileType(f) ==
  /\ f.id \in Keys /\ f.root \in Keys /\ f.recovery \in Keys \union {None}
  /\ Len(f.head) \in 1 .. MaxEvents /\ f.revision \in 1 .. MaxRevision + 1
  /\ Len(f.setup) \in 0 .. 1

\* Device files are pinned from the start; steps, keys and links are of their kinds.
IdentityTypeOK ==
  /\ Len(record.events) \in 0 .. MaxEvents /\ record.vault.revision \in 0 .. MaxRevision
  /\ requests \subseteq Keys /\ restores \in 0 .. MaxRestores
  /\ \A m \in Machines :
       /\ file[m] = NoFile \/ FileType(file[m])
       /\ receipts[m] \subseteq Links
       /\ op[m].at \in {"idle", "post", "ask", "answered", "again"}
  /\ drawn \in 0 .. MaxDrawn
  /\ shown \subseteq Keys /\ backedUp \subseteq Links
  /\ opened \subseteq Keys \X Keys

\* A machine never accepts a history that does not extend the one it accepted, nor an
\* older vault, whatever was lost, retried, recovered or restored in between.
KeepsItsPins ==
  \A m \in Machines :
    file[m] # NoFile /\ file'[m] # NoFile =>
      /\ file'[m].root = file[m].root
      /\ Prefix(file[m].head, file'[m].head)
      /\ file'[m].revision >= file[m].revision

\* A device that was removed never holds the vault key or the incoming-share key
\* in use after it, not even through a write that was under way (service never restored).
RevokedLockedOut ==
  restores = 0 /\ record # NoRecord =>
    \A held \in opened :
      /\ \E i \in DOMAIN record.events : held[1] \in Devices(record.events[i])
      /\ held[1] \notin Devices(State(record))
      => held[2] \notin {record.vault.key, State(record).inbox}

\* While the service loses nothing, a device the account lists is never refused by
\* its own pins, and its wrapper opens the vault.
NeverLockedOut ==
  restores = 0 /\ record # NoRecord =>
    \A m \in Machines :
      Approved(file[m], record) =>
        PinHolds(file[m], record) /\ Opens(Own(m), record) /\ Readable(record)

\* The recovery key of the account is never stranded: it was shown, or is still kept in
\* a device file; it opens the vault, and a key once shown stays the account's.
RecoveryKeyWorks ==
  restores = 0 /\ record # NoRecord =>
    /\ shown \subseteq {State(record).root}
    /\ State(record).root \in shown \union {file[m].recovery : m \in {n \in Machines : file[n] # NoFile}}
    /\ Opens(State(record).recoveryWrap, record)

\* A link that a machine was told is backed up is in the vault, whoever wrote it since, and
\* so is every incoming-share key the account has had: a grant made to one still opens.
BackedUpStays ==
  restores = 0 =>
    /\ backedUp \subseteq (IF record = NoRecord THEN {} ELSE record.vault.links)
    /\ \A i \in DOMAIN record.events : record.events[i].inbox \in {None} \union record.vault.inboxes

\* What a client sends, the readers' rules take, unless something moved or a limit is met:
\* no action leaves the account with a record nobody accepts.
HonestWritesVerify ==
  \A m \in Machines :
    At(m, "post") /\ Current(op[m].update) =>
      LET after == After(record, op[m].update)
      IN  \/ RecordOK(after)
          \/ Len(after.events) > MaxEvents
          \/ Cardinality(Devices(State(after))) > MaxDevices

\* The service's record is an account: members join and leave it one at a time, a removal
\* changes the key for one never used, and links are only added (service never restored).
Promise == INSTANCE Account WITH
  Ids <- Keys, KeySet <- Keys, LinkSet <- Links,
  members <- IF record = NoRecord THEN {} ELSE Devices(State(record)),
  key <- IF record = NoRecord THEN 0 ELSE record.vault.key,
  retired <- {record.events[i].recoveryWrap.key : i \in DOMAIN record.events}
               \ (IF record = NoRecord THEN {} ELSE {record.vault.key}),
  links <- IF record = NoRecord THEN {} ELSE record.vault.links
=============================================================================
