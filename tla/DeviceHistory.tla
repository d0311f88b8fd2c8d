--------------------------- MODULE DeviceHistory ----------------------------
(***************************************************************************)
(* An account's signed device history and the vault written for it, as     *)
(* every reader verifies them (src/crates/slink-protocol: history.rs,      *)
(* record.rs).                                                             *)
(*                                                                         *)
(* A history is a sequence of events, each the whole state after it.  An   *)
(* event names its predecessor by hash and hashes do not collide, so a     *)
(* head is the sequence it ends.  Keys, wrappers and signatures are terms: *)
(* a key is the number it was drawn under, a wrapper the key inside and    *)
(* the epoch it is bound to, and a statement says who signed it.  Payload  *)
(* parsing and the shape of the encoded keys are left out.                 *)
(***************************************************************************)
EXTENDS Naturals, Sequences, FiniteSets

CONSTANTS
  MaxEvents,  \* MAX_EVENTS
  MaxDevices  \* MAX_DEVICES

\* What the constants must satisfy.
LimitAssumption == MaxEvents \in Nat \ {0} /\ MaxDevices \in Nat \ {0}

None == 0      \* no key; keys are numbered from 1
RootKey == 0   \* as a signer: the recovery key

Devices(state) == DOMAIN state.wraps
Wrap(key, state) == [key |-> key, epoch |-> state.epoch]

\* The context a wrapper is bound to holds the epoch: one made for an epoch does not open in the next.
Unwraps(wrap, state) == wrap.epoch = state.epoch

Added(old, new) == Devices(new) \ Devices(old)
Removed(old, new) == Devices(old) \ Devices(new)
Kept(old, new) == Devices(old) \intersect Devices(new)
SameWraps(old, new) ==
  /\ \A d \in Kept(old, new) : new.wraps[d] = old.wraps[d]
  /\ new.recoveryWrap = old.recoveryWrap
SameDevices(old, new) == Added(old, new) = {} /\ Removed(old, new) = {}

SharingStep(old, new) ==
  /\ old.inbox = None /\ new.inbox # None
  /\ SameDevices(old, new) /\ new.epoch = old.epoch /\ SameWraps(old, new)

EnrollStep(old, new) ==
  /\ new.inbox = old.inbox
  /\ Cardinality(Added(old, new)) = 1 /\ Removed(old, new) = {}
  /\ new.epoch = old.epoch /\ SameWraps(old, new)

\* The removed device knew the old vault key: every wrapper is replaced.
RevokeStep(old, new) ==
  /\ (old.inbox = None) = (new.inbox = None)
  /\ old.inbox # None => new.inbox # old.inbox
  /\ Added(old, new) = {} /\ Cardinality(Removed(old, new)) = 1
  /\ new.epoch = old.epoch + 1
  /\ \A d \in Kept(old, new) : new.wraps[d] # old.wraps[d]
  /\ new.recoveryWrap # old.recoveryWrap
  /\ new.signer \in Devices(new)

\* Only recovery is the root key's to sign, after the first event.
SignedFor(old, new) ==
  IF new.kind = "recover" THEN new.signer = RootKey ELSE new.signer \in Devices(old)

StepOK(old, new) ==
  /\ new.root = old.root
  /\ SignedFor(old, new)
  /\ \/ new.kind = "sharing" /\ SharingStep(old, new)
     \/ new.kind \in {"approve", "recover"} /\ EnrollStep(old, new)
     \/ new.kind = "revoke" /\ RevokeStep(old, new)

FirstOK(state) ==
  /\ state.kind = "init" /\ state.signer = RootKey /\ state.epoch = 1
  /\ Cardinality(Devices(state)) = 1

\* The incoming-share key an event brings in, if it does.
Introduces(events, i) ==
  events[i].inbox # None /\ (i = 1 \/ events[i].inbox # events[i - 1].inbox)

\* verify_history: every state follows from the one before, and a retired
\* incoming-share key never returns.
HistoryOK(events) ==
  /\ Len(events) \in 1 .. MaxEvents
  /\ FirstOK(events[1])
  /\ \A i \in DOMAIN events : Cardinality(Devices(events[i])) \in 1 .. MaxDevices
  /\ \A i \in 2 .. Len(events) : StepOK(events[i - 1], events[i])
  /\ \A i, j \in DOMAIN events :
       i # j /\ Introduces(events, i) /\ Introduces(events, j) => events[i].inbox # events[j].inbox

State(record) == record.events[Len(record.events)]

\* verify_record: the vault was written for the last state, by someone that state lets write it.
RecordOK(record) ==
  /\ HistoryOK(record.events)
  /\ record.vault.head = record.events
  /\ record.vault.epoch = State(record).epoch
  /\ record.vault.revision >= 1
  /\ IF record.vault.signer = RootKey
     THEN State(record).kind \in {"init", "recover"}
     ELSE record.vault.signer \in Devices(State(record))

\* A wrapper of the record's state that opens, to the key its vault is sealed under.
Opens(wrap, record) == Unwraps(wrap, State(record)) /\ wrap.key = record.vault.key
=============================================================================
