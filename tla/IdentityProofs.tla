--------------------------- MODULE IdentityProofs ---------------------------
(***************************************************************************)
(* Proofs about a machine's part in its account's devices and vault, for   *)
(* every number of machines, links, events, devices and keys.              *)
(***************************************************************************)
EXTENDS Identity, FiniteSetTheorems, TLAPS

-----------------------------------------------------------------------------
(* Types.  Keys are numbered as they are drawn, so that a value typed with *)
(* the n keys drawn so far holds no key drawn later.                       *)

Kinds == {"init", "approve", "recover", "revoke", "sharing"}
Acts == {"setup", "sync", "approve", "recover", "revoke", "sharing"}

Wrappers(n) == [key : 1 .. n, epoch : Nat]
WrapMaps(n) == UNION {[D -> Wrappers(n)] : D \in SUBSET (1 .. n)}
States(n) ==
  [kind : Kinds, signer : 0 .. n, root : 1 .. n, epoch : Nat,
   wraps : WrapMaps(n), recoveryWrap : Wrappers(n), inbox : 0 .. n]
Vaults(n) ==
  [revision : Nat, head : Seq(States(n)), epoch : Nat, signer : 0 .. n, key : 1 .. n,
   links : SUBSET Links, inboxes : SUBSET (1 .. n)]
Records(n) == [events : Seq(States(n)), vault : Vaults(n)]
Updates(n) ==
  [expectedHead : Seq(States(n)), expectedRevision : Nat, event : Seq(States(n)),
   vault : Vaults(n)]
Files(n) ==
  [id : 1 .. n, root : 1 .. n, head : Seq(States(n)), revision : Nat, recovery : 0 .. n,
   setup : Seq(Updates(n))]
Ops(n) ==
  [at : {"idle", "ask"}] \union [at : {"again"}, tries : Nat]
    \union [at : {"post", "answered"}, act : Acts, update : Updates(n), tries : Nat]

\* What the service may hold.
Holdable(rec) ==
  rec # NoRecord =>
    rec \in Records(drawn) /\ RecordOK(rec) /\ rec.vault.revision <= MaxRevision

Typed ==
  /\ drawn \in 0 .. MaxDrawn /\ restores \in 0 .. MaxRestores
  /\ Holdable(record) /\ Holdable(copy)
  /\ requests \subseteq 1 .. drawn
  /\ file \in [Machines -> {NoFile} \union Files(drawn)]
  /\ receipts \in [Machines -> SUBSET Links]
  /\ op \in [Machines -> Ops(drawn)]
  /\ shown \subseteq 1 .. drawn /\ opened \subseteq (1 .. drawn) \X (1 .. drawn)
  /\ backedUp \subseteq Links

-----------------------------------------------------------------------------
(* Files and the writes under way, even if the service was restored.       *)

U(m) == op[m].update
Posting(m) == op[m].at \in {"post", "answered"}

\* The first event of an identity, and the write that sets it up with these links.
First(id, n) ==
  LET wrap == [key |-> n, epoch |-> 1]
  IN  [kind |-> "init", signer |-> RootKey, root |-> n, epoch |-> 1,
       wraps |-> [d \in {id} |-> wrap], recoveryWrap |-> wrap, inbox |-> None]
SetupWrite(id, n, S) == Prepared(NoRecord, <<First(id, n)>>, n, S, RootKey)

\* A device file whose setup the service has not acknowledged.
Unacknowledged(f) ==
  /\ f.root = f.id + 1 /\ f.recovery = f.root
  /\ f.head = <<First(f.id, f.root)>> /\ f.revision = 1
  /\ \E S \in SUBSET Links : f.setup = <<SetupWrite(f.id, f.root, S)>>

\* A write goes on from what its machine has pinned.
FileInv(m) ==
  /\ file[m] # NoFile =>
       /\ Len(file[m].head) \in 1 .. MaxEvents
       /\ file[m].revision \in 1 .. MaxRevision + 1
       /\ file[m].setup # <<>> => Unacknowledged(file[m])
  /\ op[m].at # "idle" => file[m] # NoFile
  /\ op[m].at = "ask" => file[m].setup = <<>>
  /\ Posting(m) /\ op[m].act = "setup" => file[m].setup = <<U(m)>>
  /\ Posting(m) /\ op[m].act # "setup" =>
       /\ file[m].setup = <<>>
       /\ file[m].head = U(m).expectedHead
       /\ file[m].revision = U(m).expectedRevision /\ file[m].revision <= MaxRevision
       /\ U(m).vault.head = U(m).expectedHead \o U(m).event
       /\ op[m].at = "answered" => Len(U(m).vault.head) <= MaxEvents

\* No two machines have the same device.
OwnIds ==
  \A m, n \in Machines :
    m # n /\ file[m] # NoFile /\ file[n] # NoFile => file[m].id # file[n].id

\* The readers' rules take a write, unless a limit is met.
WriteOK(u) ==
  LET after == [events |-> u.expectedHead \o u.event, vault |-> u.vault]
  IN  \/ RecordOK(after)
      \/ Len(after.events) > MaxEvents
      \/ Cardinality(Devices(State(after))) > MaxDevices

\* Who is on the list is not in the account.
Outside == requests \subseteq
  IF record = NoRecord THEN {} ELSE (1 .. drawn) \ Devices(State(record))

PinsInv ==
  /\ Typed /\ Outside /\ OwnIds
  /\ \A m \in Machines : FileInv(m) /\ (Posting(m) => WriteOK(U(m)))

-----------------------------------------------------------------------------
(* What holds while the service loses nothing.                             *)

\* Before the account has an identity there are only setups.
Unset ==
  /\ shown = {} /\ opened = {} /\ backedUp = {}
  /\ \A m \in Machines :
       /\ op[m].at = "idle" \/ (op[m].at = "post" /\ op[m].act = "setup")
       /\ file[m] # NoFile => file[m].setup # <<>>

\* The vault is open to every device and to the recovery key, and to nobody who left.
Now == State(record)
CurrentWrap == [key |-> record.vault.key, epoch |-> Now.epoch]

KeysInv ==
  /\ \A d \in Devices(Now) : Now.wraps[d] = CurrentWrap
  /\ Now.recoveryWrap = CurrentWrap
  /\ Readable(record)
  /\ \A i \in DOMAIN record.events : record.events[i].inbox \in {None} \union record.vault.inboxes
  /\ shown \subseteq {Now.root}
  /\ Now.root \in shown \union {file[m].recovery : m \in {n \in Machines : file[n] # NoFile}}
  /\ \A held \in opened : held[1] \in Devices(Now) \/ held[2] \notin {record.vault.key, Now.inbox}
  /\ backedUp \subseteq record.vault.links

\* A setup that lost against another identity.
Lost(m) == file[m] # NoFile /\ file[m].root # Now.root

\* A key that was drawn for a write and is in no record yet.
Unused(k) ==
  /\ k \in 1 .. drawn
  /\ k # record.vault.key /\ k \notin record.vault.inboxes
  /\ \A held \in opened : held[2] # k
  /\ \A i \in DOMAIN record.events :
       record.events[i].recoveryWrap.key # k /\ record.events[i].inbox # k

\* A write of the record the service holds, that loses no link.
Writing(m, event, k, signer) ==
  \E S \in SUBSET Links :
    record.vault.links \subseteq S /\ U(m) = Prepared(record, event, k, S, signer)

\* The write a machine made of the record the service still holds.
Made(m) ==
  LET id == file[m].id
      key == record.vault.key
      member == id \in Devices(Now)
  IN  \/ /\ op[m].act = "sync" /\ member
         /\ Writing(m, NoEvent, key, id)
      \/ /\ op[m].act = "approve" /\ member
         /\ \E d \in (1 .. drawn) \ Devices(Now) :
              /\ \A n \in Machines : Lost(n) => file[n].id # d
              /\ Writing(m, <<Enrolled(Now, d, key, "approve", id)>>, key, id)
      \/ /\ op[m].act = "recover" /\ ~member /\ shown # {}
         /\ Writing(m, <<Enrolled(Now, id, key, "recover", RootKey)>>, key, RootKey)
      \/ /\ op[m].act = "revoke" /\ member
         /\ \E d \in Devices(Now) \ {id} : \E k \in 1 .. drawn :
              Unused(k) /\ Writing(m, <<Revoked(Now, d, k, id)>>, k, id)
      \/ /\ op[m].act = "sharing" /\ member /\ Now.inbox = None
         /\ \E k \in 1 .. drawn :
              Unused(k) /\ Writing(m, <<Shared(Now, k, id)>>, key, id)

MachineInv(m) ==
  /\ file[m] # NoFile /\ ~Lost(m) =>
       /\ file[m].recovery \in {None, Now.root}
       /\ Len(file[m].head) <= Len(record.events) /\ SameHead(file[m], record)
       /\ file[m].revision <= record.vault.revision
  /\ Lost(m) =>
       /\ file[m].setup # <<>>
       /\ file[m].id \notin Devices(Now) \union requests
       /\ op[m].at = "idle" \/ (op[m].at = "post" /\ op[m].act = "setup")
  /\ op[m].at = "answered" /\ op[m].act = "setup" =>
       record = After(NoRecord, U(m)) /\ shown = {}
  /\ op[m].at = "answered" /\ op[m].act # "setup" =>
       /\ Prefix(U(m).vault.head, record.events)
       /\ U(m).expectedRevision < record.vault.revision
       /\ U(m).vault.links \subseteq record.vault.links
  /\ op[m].at = "post" /\ op[m].act # "setup" =>
       /\ U(m).expectedRevision <= record.vault.revision
       /\ U(m).expectedRevision = record.vault.revision => Made(m)

AccountKept ==
  restores = 0 =>
    IF record = NoRecord THEN Unset ELSE KeysInv /\ \A m \in Machines : MachineInv(m)

IdentityInv == PinsInv /\ AccountKept

-----------------------------------------------------------------------------
(* Steps.                                                                  *)

\* A machine reads the record and pins it, and maybe goes on to a request or a write.
PinStep(m) ==
  /\ record # NoRecord /\ (At(m, "idle") \/ At(m, "again"))
  /\ file[m] # NoFile => PinHolds(file[m], record)
  /\ UNCHANGED <<service, backedUp>>
  /\ drawn' \in drawn .. MaxDrawn
  /\ receipts' \in [Machines -> SUBSET Links]
  /\ \E g \in Files(drawn') :
       /\ file' = [file EXCEPT ![m] = g]
       /\ g.root = Now.root /\ g.head = record.events
       /\ g.revision = record.vault.revision /\ g.setup = <<>>
       /\ (file[m] # NoFile /\ g.id = file[m].id) \/ g.id \in drawn + 1 .. drawn'
       /\ \/ file[m] # NoFile /\ g.recovery = file[m].recovery
          \/ g.recovery = None /\ (file[m] = NoFile \/ Now.root \in shown)
  /\ \/ shown' = shown
     \/ /\ Approved(file[m], record) /\ file[m].recovery # None
        /\ shown' = shown \union {file[m].recovery}
  /\ \/ opened' = opened
     \/ /\ Approved(file[m], record)
        /\ opened' = opened \union
                       {<<file[m].id, k>> : k \in {record.vault.key} \union record.vault.inboxes}
  /\ \/ op' = op \/ op' = [op EXCEPT ![m] = Idle] \/ op' = [op EXCEPT ![m] = [at |-> "ask"]]
     \/ \E act \in Acts \ {"setup"}, u \in Updates(drawn'), tries \in Nat :
          /\ op' = [op EXCEPT ![m] =
                      [at |-> "post", act |-> act, update |-> u, tries |-> tries]]
          /\ u.expectedHead = record.events /\ u.expectedRevision = record.vault.revision
          /\ u.vault.head = u.expectedHead \o u.event /\ WriteOK(u)

-----------------------------------------------------------------------------
(* Typed values.                                                           *)

\* What is typed with the keys drawn so far stays typed when more are drawn.
LEMMA StatesGrow ==
  ASSUME NEW n \in Nat, NEW k \in Nat, n <= k
  PROVE  /\ Wrappers(n) \subseteq Wrappers(k) /\ States(n) \subseteq States(k)
         /\ Seq(States(n)) \subseteq Seq(States(k))
<1>1. 1 .. n \subseteq 1 .. k /\ 0 .. n \subseteq 0 .. k
  OBVIOUS
<1>2. Wrappers(n) \subseteq Wrappers(k)
  BY <1>1 DEF Wrappers
<1>3. WrapMaps(n) \subseteq WrapMaps(k)
  <2> SUFFICES ASSUME NEW D \in SUBSET (1 .. n), NEW f \in [D -> Wrappers(n)]
               PROVE  f \in WrapMaps(k)
    BY DEF WrapMaps
  <2>1. f \in [D -> Wrappers(k)] /\ D \in SUBSET (1 .. k)
    BY <1>1, <1>2
  <2> QED
    BY <2>1 DEF WrapMaps
<1>4. States(n) \subseteq States(k)
  BY <1>1, <1>2, <1>3 DEF States
<1> QED
  BY <1>2, <1>4

\* So do vaults, writes, files and steps.
LEMMA TypesGrow ==
  ASSUME NEW n \in Nat, NEW k \in Nat, n <= k
  PROVE  /\ Vaults(n) \subseteq Vaults(k) /\ Records(n) \subseteq Records(k)
         /\ Updates(n) \subseteq Updates(k) /\ Files(n) \subseteq Files(k)
         /\ Ops(n) \subseteq Ops(k)
<1>1. 1 .. n \subseteq 1 .. k /\ 0 .. n \subseteq 0 .. k
  OBVIOUS
<1>2. Seq(States(n)) \subseteq Seq(States(k))
  BY StatesGrow
<1>3. Vaults(n) \subseteq Vaults(k)
  BY <1>1, <1>2 DEF Vaults
<1>4. Records(n) \subseteq Records(k)
  BY <1>2, <1>3 DEF Records
<1>5. Updates(n) \subseteq Updates(k)
  BY <1>2, <1>3 DEF Updates
<1>6. Seq(Updates(n)) \subseteq Seq(Updates(k))
  BY <1>5
<1>7. Files(n) \subseteq Files(k)
  BY <1>1, <1>2, <1>6 DEF Files
<1> QED
  BY <1>3, <1>4, <1>5, <1>7 DEF Ops

\* What a state is made of.
LEMMA StateParts ==
  ASSUME NEW n, NEW s \in States(n)
  PROVE  /\ Devices(s) \subseteq 1 .. n /\ s.wraps \in [Devices(s) -> Wrappers(n)]
         /\ s.recoveryWrap \in Wrappers(n) /\ s.inbox \in 0 .. n /\ s.root \in 1 .. n
         /\ s.epoch \in Nat /\ s.signer \in 0 .. n /\ s.kind \in Kinds
<1>1. PICK D \in SUBSET (1 .. n) : s.wraps \in [D -> Wrappers(n)]
  BY DEF States, WrapMaps
<1> QED
  BY <1>1 DEF States, Devices

\* A function from some of the keys to wrappers is a state's.
LEMMA WrapMapTyped ==
  ASSUME NEW n, NEW D, D \subseteq 1 .. n, NEW f \in [D -> Wrappers(n)]
  PROVE  f \in WrapMaps(n)
  BY DEF WrapMaps

\* The state with a device added.
LEMMA EnrolledParts ==
  ASSUME NEW n \in Nat, NEW s \in States(n), NEW id \in 1 .. n, NEW key \in 1 .. n,
         NEW kind \in Kinds, NEW signer \in 0 .. n, NEW e, e = Enrolled(s, id, key, kind, signer)
  PROVE  /\ e \in States(n) /\ Devices(e) = Devices(s) \union {id}
         /\ e.kind = kind /\ e.signer = signer /\ e.root = s.root /\ e.epoch = s.epoch
         /\ e.inbox = s.inbox /\ e.recoveryWrap = s.recoveryWrap
         /\ e.wraps[id] = Wrap(key, s)
         /\ \A d \in Devices(s) \ {id} : e.wraps[d] = s.wraps[d]
<1> DEFINE D == Devices(s) \union {id}
           f == [d \in D |-> IF d = id THEN Wrap(key, s) ELSE s.wraps[d]]
<1>1. Wrap(key, s) \in Wrappers(n)
  BY StateParts DEF Wrap, Wrappers
<1>2. f \in WrapMaps(n)
  <2>1. D \subseteq 1 .. n /\ f \in [D -> Wrappers(n)]
    BY <1>1, StateParts
  <2> QED
    BY <2>1, WrapMapTyped
<1>3. e = [s EXCEPT !.kind = kind, !.signer = signer, !.wraps = f]
  BY DEF Enrolled
<1>4. e = [kind |-> kind, signer |-> signer, root |-> s.root, epoch |-> s.epoch, wraps |-> f,
           recoveryWrap |-> s.recoveryWrap, inbox |-> s.inbox]
  <2> HIDE DEF f
  <2> QED
    BY <1>3 DEF States
<1>5. e \in States(n)
  <2> HIDE DEF f
  <2> QED
    BY <1>2, <1>4, StateParts DEF States
<1> QED
  BY <1>4, <1>5 DEF Devices

\* The state without a device: every wrapper is new.
LEMMA RevokedParts ==
  ASSUME NEW n \in Nat, NEW s \in States(n), NEW id, NEW key \in 1 .. n, NEW signer \in 0 .. n
  PROVE  LET e == Revoked(s, id, key, signer)
             wrap == [key |-> key, epoch |-> s.epoch + 1]
         IN  /\ e \in States(n) /\ Devices(e) = Devices(s) \ {id}
             /\ e.kind = "revoke" /\ e.signer = signer /\ e.root = s.root
             /\ e.epoch = s.epoch + 1
             /\ s.inbox = None => e.inbox = None
             /\ s.inbox # None => e.inbox = key
             /\ e.recoveryWrap = wrap
             /\ \A d \in Devices(e) : e.wraps[d] = wrap
<1> DEFINE D == Devices(s) \ {id}
           wrap == [key |-> key, epoch |-> s.epoch + 1]
           f == [d \in D |-> wrap]
           inbox == IF s.inbox = None THEN None ELSE key
           e == Revoked(s, id, key, signer)
           next == [s EXCEPT !.epoch = @ + 1]
<1>1. wrap \in Wrappers(n)
  BY StateParts DEF Wrappers
<1>2. f \in WrapMaps(n)
  BY <1>1, StateParts, WrapMapTyped
<1>3. next = [kind |-> s.kind, signer |-> s.signer, root |-> s.root, epoch |-> s.epoch + 1,
              wraps |-> s.wraps, recoveryWrap |-> s.recoveryWrap, inbox |-> s.inbox]
  BY DEF States
<1>4. Wrap(key, next) = wrap
  BY <1>3 DEF Wrap
<1>5. e = [next EXCEPT !.kind = "revoke", !.signer = signer, !.inbox = inbox, !.wraps = f,
                       !.recoveryWrap = wrap]
  BY <1>3, <1>4 DEF Revoked
<1>6. e = [kind |-> "revoke", signer |-> signer, root |-> s.root, epoch |-> s.epoch + 1,
           wraps |-> f, recoveryWrap |-> wrap, inbox |-> inbox]
  <2> HIDE DEF f, wrap, inbox, e
  <2> QED
    BY <1>3, <1>5
<1>7. inbox \in 0 .. n
  BY StateParts DEF None
<1>8. e \in States(n)
  <2> HIDE DEF f, wrap, inbox, e
  <2> QED
    BY <1>1, <1>2, <1>6, <1>7, StateParts DEF States, Kinds
<1> QED
  BY <1>6, <1>8 DEF Devices

\* The state with its first incoming-share key.
LEMMA SharedParts ==
  ASSUME NEW n \in Nat, NEW s \in States(n), NEW key \in 1 .. n, NEW signer \in 0 .. n
  PROVE  LET e == Shared(s, key, signer)
         IN  /\ e \in States(n) /\ e.wraps = s.wraps /\ e.kind = "sharing" /\ e.signer = signer
             /\ e.root = s.root /\ e.epoch = s.epoch /\ e.inbox = key
             /\ e.recoveryWrap = s.recoveryWrap
<1> DEFINE e == Shared(s, key, signer)
<1>1. e = [kind |-> "sharing", signer |-> signer, root |-> s.root, epoch |-> s.epoch,
           wraps |-> s.wraps, recoveryWrap |-> s.recoveryWrap, inbox |-> key]
  <2>1. e = [s EXCEPT !.kind = "sharing", !.signer = signer, !.inbox = key]
    BY DEF Shared
  <2> QED
    BY <2>1 DEF States
<1>2. s.wraps \in WrapMaps(n)
  BY DEF States
<1>3. e \in States(n)
  <2> HIDE DEF e
  <2> QED
    BY <1>1, <1>2, StateParts DEF States, Kinds
<1> QED
  BY <1>1, <1>3

-----------------------------------------------------------------------------
(* Writes and histories.                                                   *)

\* What a write is made of.
LEMMA PreparedParts ==
  ASSUME NEW old, NEW event, NEW k, NEW S, NEW signer
  PROVE  LET u == Prepared(old, event, k, S, signer)
             all == old.events \o event
         IN  /\ u.expectedHead = old.events /\ u.expectedRevision = old.vault.revision
             /\ u.event = event
             /\ u.vault.revision = old.vault.revision + 1 /\ u.vault.head = all
             /\ u.vault.epoch = all[Len(all)].epoch /\ u.vault.signer = signer
             /\ u.vault.key = k /\ u.vault.links = S
             /\ u.vault.inboxes = Inboxes(old, all[Len(all)])
  BY DEF Prepared

\* The same of a write under another name.
LEMMA PreparedIs ==
  ASSUME NEW old, NEW event, NEW k, NEW S, NEW signer, NEW u,
         u = Prepared(old, event, k, S, signer)
  PROVE  /\ u.event = event /\ u.vault.revision = old.vault.revision + 1
         /\ u.vault.key = k /\ u.vault.links = S
  BY DEF Prepared

\* And its incoming-share keys.
LEMMA PreparedInboxes ==
  ASSUME NEW old, NEW event, NEW k, NEW S, NEW signer, NEW u,
         u = Prepared(old, event, k, S, signer)
  PROVE  u.vault.inboxes = Inboxes(old, (old.events \o event)[Len(old.events \o event)])
  BY DEF Prepared

\* It is typed with the keys it is made of.
LEMMA PreparedTyped ==
  ASSUME NEW n \in Nat, NEW old, old.events \in Seq(States(n)), old.vault.revision \in Nat,
         old.vault.inboxes \subseteq 1 .. n, NEW event \in Seq(States(n)),
         NEW k \in 1 .. n, NEW S \in SUBSET Links, NEW signer \in 0 .. n,
         Len(old.events \o event) > 0
  PROVE  Prepared(old, event, k, S, signer) \in Updates(n)
<1> DEFINE all == old.events \o event
           last == all[Len(all)]
           v == [revision |-> old.vault.revision + 1, head |-> all, epoch |-> last.epoch,
                 signer |-> signer, key |-> k, links |-> S, inboxes |-> Inboxes(old, last)]
<1>1. all \in Seq(States(n)) /\ last \in States(n)
  OBVIOUS
<1>2. Prepared(old, event, k, S, signer) =
        [expectedHead |-> old.events, expectedRevision |-> old.vault.revision,
         event |-> event, vault |-> v]
  BY DEF Prepared
<1>3. last.epoch \in Nat /\ last.inbox \in 0 .. n
  BY <1>1, StateParts
<1> HIDE DEF all, last
<1>4. v \in Vaults(n)
  BY <1>1, <1>3 DEF Vaults, Inboxes, None
<1> HIDE DEF v
<1> QED
  BY <1>2, <1>4 DEF Updates

\* The parts of a record.
LEMMA RecordParts ==
  ASSUME NEW n \in Nat, NEW rec \in Records(n), RecordOK(rec)
  PROVE  /\ rec.events \in Seq(States(n)) /\ Len(rec.events) \in 1 .. MaxEvents
         /\ rec.vault \in Vaults(n) /\ rec.vault.revision \in Nat /\ rec.vault.revision >= 1
         /\ rec.vault.inboxes \subseteq 1 .. n /\ rec.vault.key \in 1 .. n
         /\ rec.vault.links \in SUBSET Links
         /\ rec.vault.head = rec.events /\ State(rec) \in States(n)
         /\ rec # NoRecord /\ rec = [events |-> rec.events, vault |-> rec.vault]
<1>1. rec.events \in Seq(States(n)) /\ rec.vault \in Vaults(n) /\ Len(rec.events) \in 1 .. MaxEvents
  BY DEF Records, RecordOK, HistoryOK
<1>2. State(rec) \in States(n)
  BY <1>1 DEF State
<1>3. rec.vault.revision >= 1 /\ rec.vault.head = rec.events
  BY DEF RecordOK
<1>4. rec # NoRecord
  BY <1>3 DEF NoRecord
<1> QED
  BY <1>1, <1>2, <1>3, <1>4 DEF Records, Vaults

\* A history goes on with a step and no incoming-share key that was there before.
LEMMA HistoryGoesOn ==
  ASSUME NEW n \in Nat, NEW events \in Seq(States(n)), HistoryOK(events), NEW s \in States(n),
         StepOK(events[Len(events)], s),
         s.inbox \notin {None, events[Len(events)].inbox} =>
           \A i \in DOMAIN events : events[i].inbox # s.inbox,
         Len(events) + 1 <= MaxEvents, LimitAssumption,
         Cardinality(Devices(s)) \in 1 .. MaxDevices
  PROVE  HistoryOK(events \o <<s>>)
<1> DEFINE all == events \o <<s>>
           l == Len(events)
<1>1. /\ l \in Nat /\ l >= 1 /\ Len(all) = l + 1 /\ all[l + 1] = s
      /\ \A i \in 1 .. l : all[i] = events[i]
      /\ DOMAIN all = 1 .. (l + 1) /\ DOMAIN events = 1 .. l
  BY DEF HistoryOK
<1> HIDE DEF all, l
<1>2. Len(all) \in 1 .. MaxEvents
  BY <1>1 DEF LimitAssumption, l
<1>3. FirstOK(all[1])
  BY <1>1 DEF HistoryOK
<1>4. \A i \in DOMAIN all : Cardinality(Devices(all[i])) \in 1 .. MaxDevices
  BY <1>1 DEF HistoryOK
<1>5. \A i \in 2 .. Len(all) : StepOK(all[i - 1], all[i])
  <2> SUFFICES ASSUME NEW i \in 2 .. Len(all) PROVE StepOK(all[i - 1], all[i])
    OBVIOUS
  <2>1. CASE i = l + 1
    <3>1. all[i] = s /\ all[i - 1] = events[l]
      BY <1>1, <2>1
    <3> QED
      BY <3>1 DEF l
  <2>2. CASE i # l + 1
    <3>1. i \in 2 .. l /\ all[i] = events[i] /\ all[i - 1] = events[i - 1]
      BY <1>1, <2>2
    <3> QED
      BY <3>1 DEF HistoryOK, l
  <2> QED
    BY <2>1, <2>2
<1>6. \A i \in 1 .. l : Introduces(all, i) <=> Introduces(events, i)
  <2> SUFFICES ASSUME NEW i \in 1 .. l PROVE Introduces(all, i) <=> Introduces(events, i)
    OBVIOUS
  <2>1. all[i] = events[i] /\ (i # 1 => all[i - 1] = events[i - 1])
    BY <1>1
  <2> QED
    BY <2>1 DEF Introduces
<1>7. Introduces(all, l + 1) => \A i \in 1 .. l : events[i].inbox # s.inbox
  <2>1. all[(l + 1) - 1] = events[l] /\ l + 1 # 1
    BY <1>1
  <2> QED
    BY <1>1, <2>1 DEF Introduces, l
<1>8. \A i, j \in DOMAIN all :
        i # j /\ Introduces(all, i) /\ Introduces(all, j) => all[i].inbox # all[j].inbox
  <2> SUFFICES ASSUME NEW i \in 1 .. (l + 1), NEW j \in 1 .. (l + 1), i # j,
                      Introduces(all, i), Introduces(all, j)
               PROVE  all[i].inbox # all[j].inbox
    BY <1>1
  <2>1. CASE i \in 1 .. l /\ j \in 1 .. l
    BY <1>1, <1>6, <2>1 DEF HistoryOK
  <2>2. CASE i = l + 1
    <3>1. j \in 1 .. l
      BY <1>1, <2>2
    <3> QED
      BY <1>1, <1>7, <2>2, <3>1
  <2>3. CASE j = l + 1
    <3>1. i \in 1 .. l
      BY <1>1, <2>3
    <3> QED
      BY <1>1, <1>7, <2>3, <3>1
  <2> QED
    BY <1>1, <2>1, <2>2, <2>3
<1> QED
  BY <1>2, <1>3, <1>4, <1>5, <1>8 DEF HistoryOK, all

\* A state has finitely many devices.
LEMMA DevicesCount ==
  ASSUME NEW n \in Nat, NEW s \in States(n)
  PROVE  /\ IsFiniteSet(Devices(s)) /\ Cardinality(Devices(s)) \in Nat
         /\ Devices(s) # {} => Cardinality(Devices(s)) >= 1
<1>1. IsFiniteSet(1 .. n)
  BY FS_Interval
<1>2. IsFiniteSet(Devices(s))
  BY <1>1, StateParts, FS_Subset
<1> QED
  BY <1>2, FS_CardinalityType, FS_EmptySet

\* The readers take a write of one more event that follows from the last, unless a limit is met.
LEMMA EventWriteOK ==
  ASSUME NEW n \in Nat, NEW rec \in Records(n), RecordOK(rec), LimitAssumption,
         NEW s \in States(n), StepOK(State(rec), s), Devices(s) # {},
         s.inbox \notin {None, State(rec).inbox} =>
           \A i \in DOMAIN rec.events : rec.events[i].inbox # s.inbox,
         NEW k \in 1 .. n, NEW S \in SUBSET Links, NEW signer \in 0 .. n,
         IF signer = RootKey THEN s.kind = "recover" ELSE signer \in Devices(s)
  PROVE  WriteOK(Prepared(rec, <<s>>, k, S, signer))
<1> DEFINE u == Prepared(rec, <<s>>, k, S, signer)
           after == [events |-> u.expectedHead \o u.event, vault |-> u.vault]
<1>1. /\ rec.events \in Seq(States(n)) /\ Len(rec.events) \in 1 .. MaxEvents
      /\ rec.vault.revision \in Nat
  BY RecordParts
<1>2. rec.vault.inboxes \subseteq 1 .. n /\ <<s>> \in Seq(States(n))
  BY RecordParts
<1>3. /\ Len(rec.events \o <<s>>) = Len(rec.events) + 1
      /\ (rec.events \o <<s>>)[Len(rec.events \o <<s>>)] = s
  BY <1>1
<1>4. /\ u.expectedHead = rec.events /\ u.event = <<s>> /\ u.vault.head = rec.events \o <<s>>
      /\ u.vault.epoch = s.epoch /\ u.vault.revision = rec.vault.revision + 1
      /\ u.vault.signer = signer
  BY SMTT(60), <1>3, PreparedParts
<1> HIDE DEF u
<1>5. /\ after.events = rec.events \o <<s>> /\ State(after) = s /\ after.vault = u.vault
      /\ Len(after.events) = Len(rec.events) + 1
  BY <1>3, <1>4 DEF State
<1> HIDE DEF after
<1>6. ASSUME Len(after.events) <= MaxEvents, Cardinality(Devices(s)) <= MaxDevices
      PROVE  RecordOK(after)
  <2>1. Cardinality(Devices(s)) \in 1 .. MaxDevices
    BY <1>6, DevicesCount DEF LimitAssumption
  <2>2. HistoryOK(after.events)
    BY <1>1, <1>5, <1>6, <2>1, HistoryGoesOn DEF RecordOK, State
  <2> QED
    BY SMTT(60), <1>1, <1>4, <1>5, <2>2 DEF RecordOK
<1>7. Len(after.events) \in Nat /\ Cardinality(Devices(s)) \in Nat
  BY <1>1, <1>5, DevicesCount
<1> QED
  <2>1. \/ RecordOK(after) \/ Len(after.events) > MaxEvents
        \/ Cardinality(Devices(State(after))) > MaxDevices
    BY <1>5, <1>6, <1>7 DEF LimitAssumption
  <2> QED
    BY <2>1 DEF WriteOK, after, u

\* Nor do they refuse a vault written for the same history by one of its devices.
LEMMA SyncWriteOK ==
  ASSUME NEW n \in Nat, NEW rec \in Records(n), RecordOK(rec), NEW k \in 1 .. n,
         NEW S \in SUBSET Links, NEW signer \in 1 .. n, signer \in Devices(State(rec))
  PROVE  WriteOK(Prepared(rec, NoEvent, k, S, signer))
<1> DEFINE u == Prepared(rec, NoEvent, k, S, signer)
           after == [events |-> u.expectedHead \o u.event, vault |-> u.vault]
<1>1. /\ rec.events \in Seq(States(n)) /\ Len(rec.events) \in 1 .. MaxEvents
      /\ rec.vault.revision \in Nat /\ rec.vault.inboxes \subseteq 1 .. n
  BY RecordParts
<1>2. NoEvent \in Seq(States(n)) /\ rec.events \o NoEvent = rec.events
  BY <1>1 DEF NoEvent
<1>3. /\ u.expectedHead = rec.events /\ u.event = NoEvent /\ u.vault.head = rec.events
      /\ u.vault.epoch = State(rec).epoch /\ u.vault.revision = rec.vault.revision + 1
      /\ u.vault.signer = signer
  <2>1. /\ u.expectedHead = rec.events /\ u.event = NoEvent /\ u.vault.head = rec.events \o NoEvent
        /\ u.vault.epoch = (rec.events \o NoEvent)[Len(rec.events \o NoEvent)].epoch
        /\ u.vault.revision = rec.vault.revision + 1 /\ u.vault.signer = signer
    BY DEF Prepared
  <2> HIDE DEF u
  <2> QED
    BY <1>2, <2>1 DEF State
<1> HIDE DEF u
<1>4. after.events = rec.events /\ State(after) = State(rec) /\ after.vault = u.vault
  BY <1>2, <1>3 DEF State
<1> HIDE DEF after
<1>5. RecordOK(after)
  BY <1>1, <1>3, <1>4 DEF RecordOK, RootKey
<1> QED
  BY <1>5 DEF WriteOK, after, u

\* The readers take the write that adds a device.
LEMMA EnrollOK ==
  ASSUME NEW n \in Nat, NEW rec \in Records(n), RecordOK(rec), LimitAssumption,
         NEW id \in (1 .. n) \ Devices(State(rec)), NEW k \in 1 .. n, NEW S \in SUBSET Links,
         NEW kind, NEW signer \in 0 .. n,
         \/ kind = "approve" /\ signer \in Devices(State(rec))
         \/ kind = "recover" /\ signer = RootKey
  PROVE  /\ Enrolled(State(rec), id, k, kind, signer) \in States(n)
         /\ WriteOK(Prepared(rec, <<Enrolled(State(rec), id, k, kind, signer)>>, k, S, signer))
<1> DEFINE old == State(rec)
           e == Enrolled(old, id, k, kind, signer)
<1>1. old \in States(n)
  BY RecordParts
<1>2. kind \in Kinds
  BY DEF Kinds
<1> HIDE DEF old
<1>3. /\ e \in States(n) /\ Devices(e) = Devices(old) \union {id}
      /\ e.kind = kind /\ e.signer = signer /\ e.root = old.root /\ e.epoch = old.epoch
      /\ e.inbox = old.inbox /\ e.recoveryWrap = old.recoveryWrap
      /\ \A d \in Devices(old) \ {id} : e.wraps[d] = old.wraps[d]
  BY <1>1, <1>2, EnrolledParts
<1> HIDE DEF e
<1>4. id \notin Devices(old)
  BY DEF old
<1>5. Added(old, e) = {id} /\ Removed(old, e) = {}
  BY <1>3, <1>4 DEF Added, Removed
<1>6. Cardinality(Added(old, e)) = 1
  BY <1>5, FS_Singleton
<1>7. SameWraps(old, e)
  BY <1>3, <1>4 DEF SameWraps, Kept
<1>8. SignedFor(old, e)
  BY <1>3 DEF SignedFor, old
<1>9. StepOK(old, e)
  BY <1>3, <1>5, <1>6, <1>7, <1>8 DEF StepOK, EnrollStep
<1>10. IF signer = RootKey THEN kind = "recover" ELSE signer \in Devices(e)
  <2>1. 0 \notin Devices(old)
    BY <1>1, StateParts
  <2> QED
    BY <1>3, <2>1 DEF RootKey, old
<1>11. WriteOK(Prepared(rec, <<e>>, k, S, signer))
  <2>1. Devices(e) # {} /\ e.inbox = State(rec).inbox /\ StepOK(State(rec), e)
    BY <1>3, <1>9 DEF old
  <2> QED
    BY <1>3, <1>10, <2>1, EventWriteOK
<1> QED
  BY <1>3, <1>11 DEF e, old

\* And the write that removes one, under a key never used before.
LEMMA RevokeOK ==
  ASSUME NEW n \in Nat, NEW rec \in Records(n), RecordOK(rec), LimitAssumption,
         NEW signer \in Devices(State(rec)), NEW id \in Devices(State(rec)) \ {signer},
         NEW k \in 1 .. n, NEW S \in SUBSET Links,
         State(rec).recoveryWrap.key # k,
         \A d \in Devices(State(rec)) : State(rec).wraps[d].key # k,
         \A i \in DOMAIN rec.events : rec.events[i].inbox # k
  PROVE  /\ Revoked(State(rec), id, k, signer) \in States(n)
         /\ WriteOK(Prepared(rec, <<Revoked(State(rec), id, k, signer)>>, k, S, signer))
<1> DEFINE old == State(rec)
           e == Revoked(old, id, k, signer)
           wrap == [key |-> k, epoch |-> old.epoch + 1]
<1>1. old \in States(n) /\ Len(rec.events) >= 1
  BY RecordParts
<1>2. signer \in 0 .. n /\ signer # 0 /\ old.inbox # k
  <2>1. Len(rec.events) \in DOMAIN rec.events
    BY RecordParts
  <2> QED
    BY <1>1, <2>1, StateParts DEF State
<1> HIDE DEF old
<1>3. /\ e \in States(n) /\ Devices(e) = Devices(old) \ {id}
      /\ e.kind = "revoke" /\ e.signer = signer /\ e.root = old.root /\ e.epoch = old.epoch + 1
      /\ old.inbox = None => e.inbox = None
      /\ old.inbox # None => e.inbox = k
      /\ e.recoveryWrap = wrap
      /\ \A d \in Devices(e) : e.wraps[d] = wrap
  <2>1. n \in Nat /\ k \in 1 .. n /\ old \in States(n) /\ signer \in 0 .. n
    BY <1>1, <1>2
  <2> HIDE DEF wrap
  <2> QED
    BY ONLY <2>1, RevokedParts DEF e, wrap
<1> HIDE DEF e
<1>4. signer \in Devices(old) /\ id \in Devices(old) /\ id # signer /\ k # None
  BY DEF old, None
<1>5. Added(old, e) = {} /\ Removed(old, e) = {id}
  BY <1>3, <1>4 DEF Added, Removed
<1>6. Cardinality(Removed(old, e)) = 1
  BY <1>5, FS_Singleton
<1>7. \A d \in Kept(old, e) : e.wraps[d] # old.wraps[d]
  BY <1>3 DEF Kept, old
<1>8. e.recoveryWrap # old.recoveryWrap
  BY <1>3 DEF old
<1>9. StepOK(old, e)
  BY <1>2, <1>3, <1>4, <1>5, <1>6, <1>7, <1>8 DEF StepOK, RevokeStep, SignedFor
<1>10. WriteOK(Prepared(rec, <<e>>, k, S, signer))
  <2>1. /\ Devices(e) # {} /\ StepOK(State(rec), e)
        /\ e.inbox \notin {None, State(rec).inbox} =>
             \A i \in DOMAIN rec.events : rec.events[i].inbox # e.inbox
    BY <1>3, <1>4, <1>9 DEF old
  <2>2. IF signer = RootKey THEN e.kind = "recover" ELSE signer \in Devices(e)
    BY <1>2, <1>3, <1>4 DEF RootKey
  <2> QED
    BY <1>2, <1>3, <2>1, <2>2, EventWriteOK
<1> QED
  BY <1>3, <1>10 DEF e, old

\* And the write that brings in an incoming-share key.
LEMMA ShareOK ==
  ASSUME NEW n \in Nat, NEW rec \in Records(n), RecordOK(rec), LimitAssumption,
         NEW signer \in Devices(State(rec)), State(rec).inbox = None,
         NEW new \in 1 .. n, NEW k \in 1 .. n, NEW S \in SUBSET Links,
         \A i \in DOMAIN rec.events : rec.events[i].inbox # new
  PROVE  /\ Shared(State(rec), new, signer) \in States(n)
         /\ WriteOK(Prepared(rec, <<Shared(State(rec), new, signer)>>, k, S, signer))
<1> DEFINE old == State(rec)
           e == Shared(old, new, signer)
<1>1. old \in States(n)
  BY RecordParts
<1>2. signer \in 0 .. n /\ signer # 0
  BY <1>1, StateParts
<1> HIDE DEF old
<1>3. /\ e \in States(n) /\ Devices(e) = Devices(old) /\ e.wraps = old.wraps
      /\ e.kind = "sharing" /\ e.signer = signer /\ e.root = old.root /\ e.epoch = old.epoch
      /\ e.inbox = new /\ e.recoveryWrap = old.recoveryWrap
  <2>1. new \in 1 .. n
    OBVIOUS
  <2> HIDE DEF e
  <2>2. e = Shared(old, new, signer)
    BY DEF e
  <2>3. /\ e \in States(n) /\ e.wraps = old.wraps /\ e.kind = "sharing" /\ e.signer = signer
        /\ e.root = old.root /\ e.epoch = old.epoch /\ e.inbox = new
        /\ e.recoveryWrap = old.recoveryWrap
    BY ONLY <1>1, <1>2, <2>1, <2>2, n \in Nat, SharedParts
  <2> QED
    BY <2>3 DEF Devices
<1> HIDE DEF e
<1>4. signer \in Devices(old) /\ old.inbox = None /\ new # None
  BY DEF old, None
<1>5. SameDevices(old, e) /\ SameWraps(old, e)
  BY <1>3 DEF SameDevices, SameWraps, Added, Removed, Kept
<1>6. StepOK(old, e)
  BY <1>3, <1>4, <1>5 DEF StepOK, SharingStep, SignedFor
<1>7. WriteOK(Prepared(rec, <<e>>, k, S, signer))
  <2>1. /\ Devices(e) # {} /\ StepOK(State(rec), e)
        /\ e.inbox \notin {None, State(rec).inbox} =>
             \A i \in DOMAIN rec.events : rec.events[i].inbox # e.inbox
    BY <1>3, <1>4, <1>6 DEF old
  <2>2. IF signer = RootKey THEN e.kind = "recover" ELSE signer \in Devices(e)
    BY <1>2, <1>3, <1>4 DEF RootKey
  <2> QED
    BY <1>2, <1>3, <2>1, <2>2, EventWriteOK
<1> QED
  BY <1>3, <1>7 DEF e, old

\* The write that sets an identity up.
LEMMA SetupParts ==
  ASSUME NEW n \in Nat, NEW id \in 1 .. n, NEW k \in 1 .. n, NEW S \in SUBSET Links
  PROVE  LET u == SetupWrite(id, k, S)
         IN  /\ u \in Updates(n) /\ u.expectedHead = <<>> /\ u.expectedRevision = 0
             /\ u.event = <<First(id, k)>> /\ First(id, k) \in States(n)
             /\ u.vault \in Vaults(n) /\ u.vault.revision = 1 /\ u.vault.head = <<First(id, k)>>
             /\ u.vault.epoch = 1 /\ u.vault.signer = RootKey /\ u.vault.key = k
             /\ u.vault.links = S /\ u.vault.inboxes = {}
             /\ After(NoRecord, u) = [events |-> <<First(id, k)>>, vault |-> u.vault]
<1> DEFINE f == First(id, k)
           u == SetupWrite(id, k, S)
<1>1. f \in States(n) /\ f.epoch = 1 /\ f.inbox = None
  <2>1. [key |-> k, epoch |-> 1] \in Wrappers(n)
    BY DEF Wrappers
  <2>2. [d \in {id} |-> [key |-> k, epoch |-> 1]] \in WrapMaps(n)
    <3>1. {id} \subseteq 1 .. n
      OBVIOUS
    <3> QED
      BY <2>1, <3>1, WrapMapTyped
  <2> QED
    BY <2>1, <2>2 DEF First, States, Kinds, RootKey, None
<1> HIDE DEF f
<1>2. /\ NoRecord.events = <<>> /\ NoRecord.vault.revision = 0 /\ NoRecord.vault.inboxes = {}
  BY DEF NoRecord
<1>3. /\ <<>> \o <<f>> = <<f>> /\ Len(<<f>>) = 1 /\ <<f>>[1] = f /\ <<f>> \in Seq(States(n))
      /\ <<>> \in Seq(States(n))
  BY <1>1
<1>4. Inboxes(NoRecord, f) = {}
  BY <1>1, <1>2 DEF Inboxes
<1>5. u = Prepared(NoRecord, <<f>>, k, S, RootKey)
  BY DEF SetupWrite, f
<1>6. u \in Updates(n)
  <2>1. RootKey \in 0 .. n /\ Len(NoRecord.events \o <<f>>) > 0
    BY <1>2, <1>3 DEF RootKey
  <2>2. Prepared(NoRecord, <<f>>, k, S, RootKey) \in Updates(n)
    <3>1. /\ NoRecord.events \in Seq(States(n)) /\ NoRecord.vault.revision \in Nat
          /\ NoRecord.vault.inboxes \subseteq 1 .. n /\ <<f>> \in Seq(States(n))
      BY <1>2, <1>3
    <3> QED
      BY ONLY n \in Nat, k \in 1 .. n, S \in SUBSET Links, <2>1, <3>1, PreparedTyped
  <2> HIDE DEF u
  <2> QED
    BY <1>5, <2>2
<1>7. /\ u.expectedHead = <<>> /\ u.expectedRevision = 0 /\ u.event = <<f>>
      /\ u.vault.revision = 1 /\ u.vault.head = <<f>> /\ u.vault.epoch = 1
      /\ u.vault.signer = RootKey /\ u.vault.key = k /\ u.vault.links = S
      /\ u.vault.inboxes = {}
  <2> HIDE DEF u
  <2> QED
    BY <1>1, <1>2, <1>3, <1>4, <1>5 DEF Prepared
<1>8. After(NoRecord, u) = [events |-> <<f>>, vault |-> u.vault]
  <2> HIDE DEF u
  <2> QED
    BY <1>2, <1>3, <1>7 DEF After
<1> HIDE DEF u
<1>9. u.vault \in Vaults(n)
  BY <1>6 DEF Updates
<1> QED
  BY <1>1, <1>6, <1>7, <1>8, <1>9 DEF u, f

\* The readers take it, unless a limit is met.
LEMMA SetupOK ==
  ASSUME NEW n \in Nat, NEW id \in 1 .. n, NEW k \in 1 .. n, NEW S \in SUBSET Links,
         LimitAssumption
  PROVE  RecordOK(After(NoRecord, SetupWrite(id, k, S))) /\ WriteOK(SetupWrite(id, k, S))
<1> DEFINE f == First(id, k)
           u == SetupWrite(id, k, S)
           rec == [events |-> <<f>>, vault |-> u.vault]
<1>1. /\ u.expectedHead = <<>> /\ u.event = <<f>> /\ u.vault.head = <<f>> /\ u.vault.epoch = 1
      /\ u.vault.signer = RootKey /\ u.vault.revision = 1 /\ After(NoRecord, u) = rec
  BY SetupParts
<1>2. f.kind = "init" /\ f.signer = RootKey /\ f.epoch = 1 /\ Devices(f) = {id}
  BY DEF First, Devices
<1>3. Cardinality(Devices(f)) = 1
  BY <1>2, FS_Singleton
<1> HIDE DEF f, u
<1>4. <<>> \o <<f>> = <<f>> /\ Len(<<f>>) = 1 /\ <<f>>[1] = f /\ DOMAIN <<f>> = {1}
  OBVIOUS
<1>5. HistoryOK(<<f>>)
  BY <1>2, <1>3, <1>4 DEF HistoryOK, FirstOK, LimitAssumption
<1>6. rec.events = <<f>> /\ State(rec) = f /\ rec.vault = u.vault
  BY <1>4 DEF State
<1>7. RecordOK(rec)
  <2> HIDE DEF rec
  <2> QED
    BY <1>1, <1>2, <1>5, <1>6 DEF RecordOK
<1> QED
  BY <1>1, <1>4, <1>7 DEF WriteOK, u

-----------------------------------------------------------------------------
(* A machine that reads the record.                                        *)

\* A file before its first record is pinned.
Unpinned(n) ==
  [id : 1 .. n, root : 0 .. n, head : Seq(States(n)), revision : Nat, recovery : 0 .. n,
   setup : Seq(Updates(n))]

\* Device files, pinned or new, are such files.
LEMMA FileParts ==
  ASSUME NEW n \in Nat
  PROVE  /\ Files(n) \subseteq Unpinned(n)
         /\ \A id \in 1 .. n : /\ Device(id) \in Unpinned(n) /\ Device(id).id = id
                               /\ Device(id).recovery = None
<1>1. Files(n) \subseteq Unpinned(n)
  BY DEF Files, Unpinned
<1>2. ASSUME NEW id \in 1 .. n
      PROVE  /\ Device(id) \in Unpinned(n) /\ Device(id).id = id /\ Device(id).recovery = None
  <2>1. <<>> \in Seq(States(n)) /\ <<>> \in Seq(Updates(n))
    OBVIOUS
  <2> QED
    BY <2>1 DEF Device, Unpinned, None
<1> QED
  BY <1>1, <1>2

\* What pinning leaves.
LEMMA PinnedParts ==
  ASSUME NEW n \in Nat, NEW f \in Unpinned(n), NEW rec \in Records(n), RecordOK(rec)
  PROVE  LET g == Pinned(f, rec)
         IN  /\ g \in Files(n) /\ g.id = f.id /\ g.recovery = f.recovery
             /\ g.root = State(rec).root /\ g.head = rec.events
             /\ g.revision = rec.vault.revision /\ g.setup = <<>>
<1>1. State(rec).root \in 1 .. n /\ rec.events \in Seq(States(n)) /\ rec.vault.revision \in Nat
  <2>1. State(rec) \in States(n)
    BY RecordParts
  <2> QED
    BY <2>1, RecordParts, StateParts
<1>2. <<>> \in Seq(Updates(n))
  OBVIOUS
<1> DEFINE g == Pinned(f, rec)
           a == State(rec).root
           b == rec.events
           c == rec.vault.revision
           d == <<>>
<1>3. a \in 1 .. n /\ b \in Seq(States(n)) /\ c \in Nat /\ d \in Seq(Updates(n))
  BY <1>1, <1>2
<1>4. g = [f EXCEPT !.root = a, !.head = b, !.revision = c, !.setup = d]
  BY DEF Pinned
<1>5. /\ g \in Files(n) /\ g.id = f.id /\ g.recovery = f.recovery
      /\ g.root = a /\ g.head = b /\ g.revision = c /\ g.setup = d
  <2> HIDE DEF g, a, b, c, d
  <2> QED
    BY <1>3, <1>4 DEF Unpinned, Files
<1> QED
  BY <1>5

\* The types, where a record is there.
LEMMA HeldRecord ==
  ASSUME IdentityAssumption, Typed, record # NoRecord
  PROVE  /\ drawn \in Nat /\ record \in Records(drawn) /\ RecordOK(record)
         /\ Now \in States(drawn) /\ Devices(Now) \subseteq 1 .. drawn
  BY RecordParts, StateParts DEF Typed, Holdable, Now, IdentityAssumption

\* A device the record lists, that opens the vault.
LEMMA EntitledParts ==
  ASSUME IdentityAssumption, PinsInv, NEW m \in Machines, NEW act, Entitled(m, act)
  PROVE  /\ record # NoRecord /\ (At(m, "idle") \/ (act = "sync" /\ At(m, "again")))
         /\ file[m] # NoFile /\ PinHolds(file[m], record) /\ file[m] \in Files(drawn)
         /\ file[m].id \in Devices(Now) /\ file[m].id \in 1 .. drawn
         /\ Approved(file[m], record) /\ Own(m).key = record.vault.key
<1>1. file[m] # NoFile /\ file[m].id \in Devices(Now)
  BY DEF Entitled, Approved, Now
<1>2. file[m] \in Files(drawn)
  BY <1>1 DEF PinsInv, Typed
<1> QED
  BY <1>1, <1>2 DEF Entitled, Reads, Starts, Opens, Files

\* Reading with a file, pinning it and nothing more.
LEMMA EnterStep ==
  ASSUME IdentityAssumption, PinsInv, NEW m \in Machines, NEW act, Entitled(m, act),
         NEW n \in Nat, n >= drawn
  PROVE  LET g == Pinned(file[m], record)
         IN  /\ g \in Files(n) /\ g.id = file[m].id /\ g.recovery = file[m].recovery
             /\ g.root = Now.root /\ g.head = record.events
             /\ g.revision = record.vault.revision /\ g.setup = <<>>
             /\ \A f : Enter(m, f) =>
                  /\ receipts' \in [Machines -> SUBSET Links]
                  /\ file' = [file EXCEPT ![m] = f]
                  /\ opened' = opened \union {<<file[m].id, k>> :
                                               k \in {record.vault.key} \union record.vault.inboxes}
<1>1. record # NoRecord /\ file[m] \in Files(drawn) /\ drawn \in Nat
  BY EntitledParts, HeldRecord DEF PinsInv
<1>2. record \in Records(drawn) /\ RecordOK(record)
  BY <1>1, HeldRecord DEF PinsInv
<1>3. file[m] \in Unpinned(n) /\ record \in Records(n)
  BY <1>1, <1>2, TypesGrow, FileParts
<1>4. record.vault.links \in SUBSET Links
  BY <1>1, <1>2, RecordParts
<1>5. receipts \in [Machines -> SUBSET Links]
  BY DEF PinsInv, Typed
<1>6. \A f : Enter(m, f) => receipts' \in [Machines -> SUBSET Links]
  BY <1>4, <1>5 DEF Enter
<1>7. \A f : Enter(m, f) =>
        /\ file' = [file EXCEPT ![m] = f]
        /\ opened' = opened \union {<<file[m].id, k>> :
                                     k \in {record.vault.key} \union record.vault.inboxes}
  BY DEF Enter, Save
<1> QED
  BY <1>2, <1>3, <1>6, <1>7, PinnedParts DEF Now

\* Looking pins.
LEMMA LookPins ==
  ASSUME IdentityAssumption, PinsInv, NEW m \in Machines, Look(m) PROVE PinStep(m)
<1>1. Entitled(m, "status") /\ Enter(m, Pinned(file[m], record))
      /\ UNCHANGED <<service, op, drawn, shown, backedUp>>
  BY DEF Look
<1>2. drawn \in 0 .. MaxDrawn /\ MaxDrawn \in Nat
  BY DEF PinsInv, Typed, IdentityAssumption
<1> QED
  BY <1>1, <1>2, EntitledParts, EnterStep DEF PinStep

\* Showing the recovery key pins.
LEMMA ShowRecoveryPins ==
  ASSUME IdentityAssumption, PinsInv, NEW m \in Machines, ShowRecovery(m) PROVE PinStep(m)
<1>1. Entitled(m, "setup") /\ Enter(m, Pinned(file[m], record))
      /\ file[m].recovery # None /\ shown' = shown \union {file[m].recovery}
      /\ UNCHANGED <<service, op, drawn, backedUp>>
  BY DEF ShowRecovery
<1>2. drawn \in 0 .. MaxDrawn /\ MaxDrawn \in Nat
  BY DEF PinsInv, Typed, IdentityAssumption
<1> QED
  BY <1>1, <1>2, EntitledParts, EnterStep DEF PinStep

\* So does confirming it: it was shown, and no longer kept.
LEMMA ConfirmRecoveryPins ==
  ASSUME IdentityAssumption, PinsInv, NEW m \in Machines, ConfirmRecovery(m) PROVE PinStep(m)
<1> DEFINE p == Pinned(file[m], record)
           g == [p EXCEPT !.recovery = None]
<1>1. Entitled(m, "confirm-recovery") /\ file[m].recovery \in shown /\ Enter(m, g)
      /\ UNCHANGED <<service, op, drawn, shown, backedUp>>
  BY DEF ConfirmRecovery
<1>2. drawn \in 0 .. MaxDrawn /\ MaxDrawn \in Nat /\ shown \subseteq 1 .. drawn
  BY DEF PinsInv, Typed, IdentityAssumption
<1>3. /\ p \in Files(drawn) /\ p.id = file[m].id
      /\ p.root = Now.root /\ p.head = record.events
      /\ p.revision = record.vault.revision /\ p.setup = <<>>
      /\ receipts' \in [Machines -> SUBSET Links] /\ file' = [file EXCEPT ![m] = g]
      /\ opened' = opened \union {<<file[m].id, k>> :
                                   k \in {record.vault.key} \union record.vault.inboxes}
  BY <1>1, <1>2, EnterStep
<1> HIDE DEF p
<1>4. /\ g \in Files(drawn) /\ g.id = file[m].id /\ g.recovery = None
      /\ g.root = Now.root /\ g.head = record.events
      /\ g.revision = record.vault.revision /\ g.setup = <<>>
  <2>1. p = [id |-> p.id, root |-> p.root, head |-> p.head, revision |-> p.revision,
             recovery |-> p.recovery, setup |-> p.setup]
    BY <1>3 DEF Files
  <2>2. g = [id |-> p.id, root |-> p.root, head |-> p.head, revision |-> p.revision,
             recovery |-> None, setup |-> p.setup]
    BY ONLY <2>1
  <2>3. None \in 0 .. drawn
    BY <1>2 DEF None
  <2> QED
    BY <1>3, <2>2, <2>3 DEF Files
<1>5. Now.root \in shown
  BY <1>1, <1>2, EntitledParts DEF PinHolds, Now, None
<1> HIDE DEF g
<1>6. /\ file[m] # NoFile /\ PinHolds(file[m], record) /\ Approved(file[m], record)
      /\ record # NoRecord /\ At(m, "idle")
  BY <1>1, EntitledParts
<1>7. drawn' = drawn /\ drawn' \in drawn .. MaxDrawn /\ g \in Files(drawn')
  BY <1>1, <1>2, <1>4
<1> QED
  BY <1>1, <1>3, <1>4, <1>5, <1>6, <1>7 DEF PinStep

\* A device that is not approved pins what it reads.
LEMMA LockedPins ==
  ASSUME IdentityAssumption, PinsInv, NEW m \in Machines, Locked(m) PROVE PinStep(m)
<1>1. /\ record # NoRecord /\ (At(m, "idle") \/ At(m, "again")) /\ file[m] # NoFile
      /\ PinHolds(file[m], record) /\ file' = [file EXCEPT ![m] = Pinned(file[m], record)]
      /\ op' = [op EXCEPT ![m] = Idle] /\ UNCHANGED <<service, receipts, drawn, history>>
  BY DEF Locked, Reads, Starts, Save, Stop
<1>2. drawn \in 0 .. MaxDrawn /\ MaxDrawn \in Nat /\ receipts \in [Machines -> SUBSET Links]
      /\ file[m] \in Files(drawn)
  BY <1>1 DEF PinsInv, Typed, IdentityAssumption
<1>3. record \in Records(drawn) /\ RecordOK(record)
  BY <1>1, HeldRecord DEF PinsInv
<1>4. Pinned(file[m], record) \in Files(drawn)
      /\ Pinned(file[m], record).id = file[m].id
      /\ Pinned(file[m], record).recovery = file[m].recovery
      /\ Pinned(file[m], record).root = Now.root /\ Pinned(file[m], record).head = record.events
      /\ Pinned(file[m], record).revision = record.vault.revision
      /\ Pinned(file[m], record).setup = <<>>
  BY <1>2, <1>3, FileParts, PinnedParts DEF Now
<1>5. drawn' = drawn /\ drawn' \in drawn .. MaxDrawn /\ Pinned(file[m], record) \in Files(drawn')
  BY <1>1, <1>2, <1>4
<1> QED
  BY <1>1, <1>2, <1>4, <1>5 DEF PinStep, history

\* With new keys or its own, a machine that is not approved pins what it reads.
LEMMA NewPins ==
  ASSUME IdentityAssumption, PinsInv, NEW m \in Machines, NEW f, record # NoRecord,
         \/ file[m] # NoFile /\ f = file[m] /\ drawn' = drawn
         \/ f = Device(drawn + 1) /\ drawn < MaxDrawn /\ drawn' = drawn + 1
  PROVE  LET g == Pinned(f, record)
         IN  /\ drawn' \in drawn .. MaxDrawn /\ g \in Files(drawn')
             /\ g.id = f.id /\ g.recovery = f.recovery /\ g.root = Now.root
             /\ g.head = record.events /\ g.revision = record.vault.revision /\ g.setup = <<>>
<1>1. drawn \in 0 .. MaxDrawn /\ MaxDrawn \in Nat
      /\ (file[m] # NoFile => file[m] \in Files(drawn))
  BY DEF PinsInv, Typed, IdentityAssumption
<1>2. record \in Records(drawn) /\ RecordOK(record) /\ drawn \in Nat
  BY HeldRecord DEF PinsInv
<1>3. drawn' \in Nat /\ drawn' \in drawn .. MaxDrawn /\ drawn <= drawn' /\ f \in Unpinned(drawn')
  BY <1>1, FileParts
<1>4. record \in Records(drawn')
  BY <1>2, <1>3, TypesGrow
<1> QED
  BY <1>2, <1>3, <1>4, PinnedParts DEF Now

\* Asking pins.
LEMMA AskPins ==
  ASSUME IdentityAssumption, PinsInv, NEW m \in Machines, Ask(m) PROVE PinStep(m)
<1> DEFINE f == IF file[m] = NoFile THEN Device(drawn + 1) ELSE file[m]
<1>1. /\ record # NoRecord /\ At(m, "idle") /\ (file[m] # NoFile => PinHolds(file[m], record))
      /\ file' = [file EXCEPT ![m] = Pinned(f, record)]
      /\ op' = [op EXCEPT ![m] = [at |-> "ask"]] /\ UNCHANGED <<service, receipts, history>>
      /\ (file[m] = NoFile => drawn < MaxDrawn)
      /\ drawn' = IF file[m] = NoFile THEN drawn + 1 ELSE drawn
  BY DEF Ask, Reads, Starts, Save
<1>2. receipts \in [Machines -> SUBSET Links] /\ drawn \in Nat
  BY DEF PinsInv, Typed, IdentityAssumption
<1>3. \/ file[m] # NoFile /\ f = file[m] /\ drawn' = drawn
      \/ /\ f = Device(drawn + 1) /\ drawn < MaxDrawn /\ drawn' = drawn + 1 /\ file[m] = NoFile
         /\ f.id = drawn + 1 /\ f.recovery = None
  <2>1. drawn + 1 \in 1 .. drawn + 1 /\ drawn + 1 \in Nat
    BY <1>2
  <2> QED
    BY <1>1, <2>1, FileParts
<1> HIDE DEF f
<1>4. /\ drawn' \in drawn .. MaxDrawn /\ Pinned(f, record) \in Files(drawn')
      /\ Pinned(f, record).id = f.id /\ Pinned(f, record).recovery = f.recovery
      /\ Pinned(f, record).root = Now.root /\ Pinned(f, record).head = record.events
      /\ Pinned(f, record).revision = record.vault.revision /\ Pinned(f, record).setup = <<>>
  BY <1>1, <1>3, NewPins
<1>5. (file[m] # NoFile /\ f.id = file[m].id) \/ f.id \in drawn + 1 .. drawn'
  BY <1>2, <1>3
<1>6. (file[m] # NoFile /\ f.recovery = file[m].recovery) \/ (f.recovery = None /\ file[m] = NoFile)
  BY <1>3
<1> QED
  BY <1>1, <1>2, <1>4, <1>5, <1>6 DEF PinStep, history

\* So does a recovery that does not go on.
LEMMA CannotRecoverPins ==
  ASSUME IdentityAssumption, PinsInv, NEW m \in Machines, CannotRecover(m) PROVE PinStep(m)
<1> DEFINE f == IF file[m] = NoFile THEN Device(drawn + 1) ELSE file[m]
<1>1. /\ record # NoRecord /\ At(m, "idle") /\ (file[m] # NoFile => PinHolds(file[m], record))
      /\ file' = [file EXCEPT ![m] = Pinned(f, record)]
      /\ UNCHANGED <<service, receipts, op, history>>
      /\ (file[m] = NoFile => drawn < MaxDrawn)
      /\ drawn' = IF file[m] = NoFile THEN drawn + 1 ELSE drawn
  BY DEF CannotRecover, Reads, Starts, Save
<1>2. receipts \in [Machines -> SUBSET Links] /\ drawn \in Nat
  BY DEF PinsInv, Typed, IdentityAssumption
<1>3. \/ file[m] # NoFile /\ f = file[m] /\ drawn' = drawn
      \/ /\ f = Device(drawn + 1) /\ drawn < MaxDrawn /\ drawn' = drawn + 1 /\ file[m] = NoFile
         /\ f.id = drawn + 1 /\ f.recovery = None
  <2>1. drawn + 1 \in 1 .. drawn + 1 /\ drawn + 1 \in Nat
    BY <1>2
  <2> QED
    BY <1>1, <2>1, FileParts
<1> HIDE DEF f
<1>4. /\ drawn' \in drawn .. MaxDrawn /\ Pinned(f, record) \in Files(drawn')
      /\ Pinned(f, record).id = f.id /\ Pinned(f, record).recovery = f.recovery
      /\ Pinned(f, record).root = Now.root /\ Pinned(f, record).head = record.events
      /\ Pinned(f, record).revision = record.vault.revision /\ Pinned(f, record).setup = <<>>
  BY <1>1, <1>3, NewPins
<1>5. (file[m] # NoFile /\ f.id = file[m].id) \/ f.id \in drawn + 1 .. drawn'
  BY <1>2, <1>3
<1>6. (file[m] # NoFile /\ f.recovery = file[m].recovery) \/ (f.recovery = None /\ file[m] = NoFile)
  BY <1>3
<1> QED
  BY <1>1, <1>2, <1>4, <1>5, <1>6 DEF PinStep, history

\* What a machine sends, and how often it tried.
LEMMA PostParts ==
  ASSUME PinsInv, NEW m \in Machines, NEW act, NEW u
  PROVE  /\ \E tries \in Nat :
              Post(m, act, u) = [at |-> "post", act |-> act, update |-> u, tries |-> tries]
         /\ Post(m, act, u).at = "post" /\ Post(m, act, u).act = act
         /\ Post(m, act, u).update = u
<1>1. At(m, "again") => op[m].tries \in Nat
  BY DEF PinsInv, Typed, At, Ops
<1> QED
  BY <1>1 DEF Post

\* A device that enters the vault and makes a write.
LEMMA WritesPins ==
  ASSUME IdentityAssumption, PinsInv, NEW m \in Machines, NEW act \in Acts \ {"setup"},
         Entitled(m, act), NEW event, NEW key, Writes(m, act, event, key),
         drawn' \in drawn .. MaxDrawn, event \in Seq(States(drawn')), key \in 1 .. drawn',
         WriteOK(Prepared(record, event, key, Merged(m, record), file[m].id))
  PROVE  /\ PinStep(m) /\ record' = record /\ restores' = restores /\ requests' = requests
         /\ shown' = shown
         /\ file'[m].id = file[m].id /\ op'[m].at = "post" /\ op'[m].act = act
         /\ op'[m].update = Prepared(record, event, key, Merged(m, record), file[m].id)
         /\ Merged(m, record) \in SUBSET Links /\ record.vault.links \subseteq Merged(m, record)
         /\ opened' = opened \union {<<file[m].id, k>> :
                                      k \in {record.vault.key} \union record.vault.inboxes}
<1> DEFINE u == Prepared(record, event, key, Merged(m, record), file[m].id)
           g == Pinned(file[m], record)
<1>1. /\ Enter(m, g) /\ op' = [op EXCEPT ![m] = Post(m, act, u)]
      /\ UNCHANGED <<service, shown, backedUp>>
  BY DEF Writes
<1>2. /\ drawn \in Nat /\ drawn' \in Nat /\ drawn' >= drawn
      /\ record # NoRecord /\ (At(m, "idle") \/ At(m, "again"))
      /\ file[m] # NoFile /\ PinHolds(file[m], record) /\ Approved(file[m], record)
      /\ file[m].id \in 1 .. drawn
  BY SMTT(60), EntitledParts DEF PinsInv, Typed, IdentityAssumption
<1>3. record \in Records(drawn) /\ RecordOK(record)
  BY <1>2, HeldRecord DEF PinsInv
<1>4. /\ g \in Files(drawn') /\ g.id = file[m].id /\ g.recovery = file[m].recovery
      /\ g.root = Now.root /\ g.head = record.events
      /\ g.revision = record.vault.revision /\ g.setup = <<>>
      /\ receipts' \in [Machines -> SUBSET Links] /\ file' = [file EXCEPT ![m] = g]
      /\ opened' = opened \union {<<file[m].id, k>> :
                                   k \in {record.vault.key} \union record.vault.inboxes}
  BY <1>1, <1>2, EnterStep
<1>5. Merged(m, record) \in SUBSET Links /\ record.vault.links \subseteq Merged(m, record)
  <2>1. receipts[m] \subseteq Links /\ record.vault.links \in SUBSET Links
    BY <1>3, <1>2, RecordParts DEF PinsInv, Typed
  <2> QED
    BY <2>1 DEF Merged
<1>6. u \in Updates(drawn')
  <2>1. record \in Records(drawn')
    BY <1>2, <1>3, TypesGrow
  <2>2. /\ record.events \in Seq(States(drawn')) /\ record.vault.revision \in Nat
        /\ record.vault.inboxes \subseteq 1 .. drawn' /\ Len(record.events) >= 1
    BY <1>2, <1>3, <2>1, RecordParts
  <2>3. Len(record.events \o event) > 0 /\ file[m].id \in 0 .. drawn'
    BY <1>2, <2>2
  <2> QED
    BY <1>2, <1>5, <2>2, <2>3, PreparedTyped
<1>7. /\ u.expectedHead = record.events /\ u.expectedRevision = record.vault.revision
      /\ u.vault.head = u.expectedHead \o u.event
  BY DEF Prepared
<1> HIDE DEF u, g
<1>8. /\ \E tries \in Nat :
           Post(m, act, u) = [at |-> "post", act |-> act, update |-> u, tries |-> tries]
      /\ Post(m, act, u).at = "post" /\ Post(m, act, u).act = act /\ Post(m, act, u).update = u
  BY PostParts
<1>9. op \in [Machines -> Ops(drawn)] /\ file \in [Machines -> {NoFile} \union Files(drawn)]
  BY DEF PinsInv, Typed
<1>10. WriteOK(u)
  BY DEF u
<1>11. PinStep(m)
  BY <1>1, <1>2, <1>4, <1>6, <1>7, <1>8, <1>10 DEF PinStep
<1>12. op'[m] = Post(m, act, u) /\ file'[m] = g
  BY <1>1, <1>4, <1>9
<1> QED
  BY <1>1, <1>4, <1>5, <1>8, <1>11, <1>12 DEF service, u

\* A backup.
LEMMA SyncMade ==
  ASSUME IdentityAssumption, PinsInv, NEW m \in Machines, Sync(m)
  PROVE  PinStep(m) /\ Made(m)'
<1>1. Entitled(m, "sync") /\ Writes(m, "sync", NoEvent, record.vault.key) /\ drawn' = drawn
  BY DEF Sync
<1>2. /\ drawn \in 0 .. MaxDrawn /\ MaxDrawn \in Nat /\ file[m].id \in Devices(Now)
      /\ file[m].id \in 1 .. drawn /\ record # NoRecord
  BY <1>1, EntitledParts DEF PinsInv, Typed, IdentityAssumption
<1>3. record \in Records(drawn) /\ RecordOK(record)
  BY <1>2, HeldRecord DEF PinsInv
<1>4. NoEvent \in Seq(States(drawn)) /\ record.vault.key \in 1 .. drawn
  BY <1>2, <1>3, RecordParts DEF NoEvent
<1>5. Merged(m, record) \in SUBSET Links
  <2>1. receipts[m] \subseteq Links /\ record.vault.links \in SUBSET Links
    BY <1>2, <1>3, RecordParts DEF PinsInv, Typed
  <2> QED
    BY <2>1 DEF Merged
<1>6. WriteOK(Prepared(record, NoEvent, record.vault.key, Merged(m, record), file[m].id))
  BY <1>2, <1>3, <1>4, <1>5, SyncWriteOK DEF Now
<1>7. /\ drawn' \in drawn .. MaxDrawn /\ NoEvent \in Seq(States(drawn'))
      /\ record.vault.key \in 1 .. drawn'
  BY <1>1, <1>2, <1>4
<1>8. /\ PinStep(m) /\ record' = record /\ file'[m].id = file[m].id /\ op'[m].act = "sync"
      /\ op'[m].update = Prepared(record, NoEvent, record.vault.key, Merged(m, record), file[m].id)
      /\ Merged(m, record) \in SUBSET Links /\ record.vault.links \subseteq Merged(m, record)
  BY <1>1, <1>6, <1>7, WritesPins DEF Acts
<1>9. Writing(m, NoEvent, record.vault.key, file[m].id)'
  BY <1>8 DEF Writing, U
<1> QED
  BY <1>2, <1>8, <1>9 DEF Made, Now

\* A key that is drawn now is nowhere yet.
LEMMA FreshKey ==
  ASSUME IdentityAssumption, Typed, record # NoRecord, NEW k, k = drawn + 1
  PROVE  /\ k # record.vault.key /\ k \notin record.vault.inboxes
         /\ \A held \in opened : held[2] # k
         /\ \A i \in DOMAIN record.events :
              record.events[i].recoveryWrap.key # k /\ record.events[i].inbox # k
         /\ Now.recoveryWrap.key # k
         /\ \A d \in Devices(Now) : Now.wraps[d].key # k
<1>1. drawn \in Nat /\ record \in Records(drawn) /\ RecordOK(record)
  BY HeldRecord
<1>2. /\ record.events \in Seq(States(drawn)) /\ Now \in States(drawn)
      /\ record.vault.inboxes \subseteq 1 .. drawn /\ record.vault.key \in 1 .. drawn
  BY <1>1, RecordParts DEF Now
<1>3. k \notin 0 .. drawn
  BY <1>1
<1>4. ASSUME NEW s \in States(drawn)
      PROVE  /\ s.recoveryWrap.key # k /\ s.inbox # k
             /\ \A d \in Devices(s) : s.wraps[d].key # k
  <2>1. s.recoveryWrap \in Wrappers(drawn) /\ s.inbox \in 0 .. drawn
        /\ s.wraps \in [Devices(s) -> Wrappers(drawn)]
    BY StateParts
  <2> QED
    BY <1>3, <2>1 DEF Wrappers
<1>5. \A i \in DOMAIN record.events : record.events[i] \in States(drawn)
  BY <1>2
<1>6. \A held \in opened : held[2] # k
  BY <1>3 DEF Typed
<1> QED
  BY <1>2, <1>3, <1>4, <1>5, <1>6

\* An approval.
LEMMA ApproveMade ==
  ASSUME IdentityAssumption, LimitAssumption, IdentityInv, NEW m \in Machines, Approve(m)
  PROVE  PinStep(m) /\ (restores = 0 => Made(m)')
<1>1. PICK id \in requests :
        Entitled(m, "approve") /\ drawn' = drawn
        /\ Writes(m, "approve",
                  <<Enrolled(Now, id, Own(m).key, "approve", file[m].id)>>, Own(m).key)
  BY DEF Approve, Now
<1> DEFINE k == record.vault.key
           e == Enrolled(Now, id, k, "approve", file[m].id)
<1>2. /\ PinsInv /\ drawn \in 0 .. MaxDrawn /\ MaxDrawn \in Nat /\ file[m].id \in Devices(Now)
      /\ file[m].id \in 1 .. drawn /\ record # NoRecord /\ Own(m).key = k
  BY <1>1, EntitledParts DEF IdentityInv, PinsInv, Typed, IdentityAssumption
<1>3. record \in Records(drawn) /\ RecordOK(record)
  BY <1>2, HeldRecord DEF PinsInv
<1>4. id \in (1 .. drawn) \ Devices(Now)
  BY <1>2 DEF PinsInv, Outside, Now
<1>5. k \in 1 .. drawn
  BY <1>2, <1>3, RecordParts
<1>6. Merged(m, record) \in SUBSET Links
  <2>1. receipts[m] \subseteq Links /\ record.vault.links \in SUBSET Links
    BY <1>2, <1>3, RecordParts DEF PinsInv, Typed
  <2> QED
    BY <2>1 DEF Merged
<1>7. e \in States(drawn) /\ WriteOK(Prepared(record, <<e>>, k, Merged(m, record), file[m].id))
  <2>1. file[m].id \in 0 .. drawn /\ drawn \in Nat
    BY <1>2
  <2> HIDE DEF k
  <2> QED
    BY <1>2, <1>3, <1>4, <1>5, <1>6, <2>1, EnrollOK DEF Now
<1>8. Writes(m, "approve", <<e>>, k)
  BY <1>1, <1>2
<1>9. drawn' \in drawn .. MaxDrawn /\ <<e>> \in Seq(States(drawn')) /\ k \in 1 .. drawn'
  BY <1>1, <1>2, <1>5, <1>7
<1> HIDE DEF e
<1>10. /\ PinStep(m) /\ record' = record /\ file'[m].id = file[m].id /\ op'[m].act = "approve"
       /\ op'[m].update = Prepared(record, <<e>>, k, Merged(m, record), file[m].id)
       /\ Merged(m, record) \in SUBSET Links /\ record.vault.links \subseteq Merged(m, record)
  <2>1. "approve" \in Acts \ {"setup"} /\ Entitled(m, "approve")
    BY <1>1 DEF Acts
  <2> DEFINE event == <<e>>
  <2>2. /\ Writes(m, "approve", event, k) /\ event \in Seq(States(drawn'))
        /\ WriteOK(Prepared(record, event, k, Merged(m, record), file[m].id))
    BY <1>7, <1>8, <1>9
  <2> HIDE DEF k, event
  <2>3. /\ PinStep(m) /\ record' = record /\ file'[m].id = file[m].id /\ op'[m].act = "approve"
        /\ op'[m].update = Prepared(record, event, k, Merged(m, record), file[m].id)
        /\ Merged(m, record) \in SUBSET Links /\ record.vault.links \subseteq Merged(m, record)
    BY ONLY IdentityAssumption, m \in Machines, <1>2, <1>9, <2>1, <2>2, WritesPins
  <2> QED
    BY <2>3 DEF event
<1>11. ASSUME restores = 0, NEW n \in Machines, Lost(n)' PROVE file'[n].id # id
  <2>1. file'[m].root = Now.root /\ \A j \in Machines \ {m} : file'[j] = file[j]
    BY <1>2, <1>10 DEF PinStep, PinsInv, Typed
  <2>2. n # m /\ Lost(n) /\ file'[n] = file[n]
    BY <1>10, <1>11, <2>1 DEF Lost, Now
  <2>3. MachineInv(n)
    BY <1>2, <1>11 DEF IdentityInv, AccountKept
  <2> QED
    BY <2>2, <2>3 DEF MachineInv
<1>12. restores = 0 => Made(m)'
  <2> SUFFICES ASSUME restores = 0 PROVE Made(m)'
    OBVIOUS
  <2>1. Now' = Now /\ (1 .. drawn)' = 1 .. drawn
    BY <1>1, <1>10 DEF Now
  <2>2. Writing(m, <<Enrolled(Now, id, k, "approve", file[m].id)>>, k, file[m].id)'
    BY <1>10, <2>1 DEF Writing, U, e
  <2> QED
    BY <1>2, <1>4, <1>10, <1>11, <2>1, <2>2 DEF Made
<1> QED
  BY <1>10, <1>12

\* A removal.
LEMMA RevokeMade ==
  ASSUME IdentityAssumption, LimitAssumption, IdentityInv, NEW m \in Machines, Revoke(m)
  PROVE  PinStep(m) /\ Made(m)'
<1>0. PICK k : k = drawn + 1
  OBVIOUS
<1>1. PICK id \in Devices(Now) \ {file[m].id} :
        Entitled(m, "revoke") /\ drawn' = k /\ drawn < MaxDrawn
        /\ Writes(m, "revoke", <<Revoked(Now, id, k, file[m].id)>>, k)
  BY <1>0 DEF Revoke, Now
<1> DEFINE e == Revoked(Now, id, k, file[m].id)
<1>2. /\ PinsInv /\ drawn \in 0 .. MaxDrawn /\ MaxDrawn \in Nat /\ file[m].id \in Devices(Now)
      /\ file[m].id \in 1 .. drawn /\ record # NoRecord
  BY <1>1, EntitledParts DEF IdentityInv, PinsInv, Typed, IdentityAssumption
<1>3. record \in Records(drawn) /\ RecordOK(record)
  BY <1>2, HeldRecord DEF PinsInv
<1>4. k \in Nat /\ k \in 1 .. k /\ drawn' \in drawn .. MaxDrawn /\ drawn <= k
  BY <1>0, <1>1, <1>2
<1>5. record \in Records(k)
  BY <1>2, <1>3, <1>4, TypesGrow
<1>6. Merged(m, record) \in SUBSET Links
  <2>1. receipts[m] \subseteq Links /\ record.vault.links \in SUBSET Links
    BY <1>2, <1>3, RecordParts DEF PinsInv, Typed
  <2> QED
    BY <2>1 DEF Merged
<1>7. /\ k # record.vault.key /\ k \notin record.vault.inboxes
      /\ \A held \in opened : held[2] # k
      /\ \A i \in DOMAIN record.events :
           record.events[i].recoveryWrap.key # k /\ record.events[i].inbox # k
      /\ Now.recoveryWrap.key # k
      /\ \A d \in Devices(Now) : Now.wraps[d].key # k
  BY <1>0, <1>2, FreshKey DEF PinsInv
<1>8. e \in States(k) /\ WriteOK(Prepared(record, <<e>>, k, Merged(m, record), file[m].id))
  BY <1>2, <1>3, <1>4, <1>5, <1>6, <1>7, RevokeOK DEF Now
<1>9. <<e>> \in Seq(States(drawn')) /\ k \in 1 .. drawn'
  BY <1>1, <1>4, <1>8
<1>10. Writes(m, "revoke", <<e>>, k)
  BY <1>1
<1> HIDE DEF e
<1>11. /\ PinStep(m) /\ record' = record /\ file'[m].id = file[m].id /\ op'[m].act = "revoke"
       /\ op'[m].update = Prepared(record, <<e>>, k, Merged(m, record), file[m].id)
       /\ Merged(m, record) \in SUBSET Links /\ record.vault.links \subseteq Merged(m, record)
       /\ opened' = opened \union {<<file[m].id, j>> :
                                    j \in {record.vault.key} \union record.vault.inboxes}
  <2>1. "revoke" \in Acts \ {"setup"} /\ Entitled(m, "revoke")
    BY <1>1 DEF Acts
  <2> DEFINE event == <<e>>
  <2>2. /\ Writes(m, "revoke", event, k) /\ event \in Seq(States(drawn'))
        /\ WriteOK(Prepared(record, event, k, Merged(m, record), file[m].id))
    BY <1>1, <1>2, <1>4, <1>8, <1>9, <1>10
  <2> HIDE DEF event
  <2>3. /\ PinStep(m) /\ record' = record /\ file'[m].id = file[m].id /\ op'[m].act = "revoke"
        /\ op'[m].update = Prepared(record, event, k, Merged(m, record), file[m].id)
        /\ Merged(m, record) \in SUBSET Links /\ record.vault.links \subseteq Merged(m, record)
        /\ opened' = opened \union {<<file[m].id, j>> :
                                     j \in {record.vault.key} \union record.vault.inboxes}
    BY ONLY IdentityAssumption, m \in Machines, <1>1, <1>2, <1>4, <1>9, <2>1, <2>2, WritesPins
  <2> QED
    BY <2>3 DEF event
<1>12. Unused(k)'
  <2>1. \A held \in opened' : held[2] # k
    <3>1. ASSUME NEW j \in {record.vault.key} \union record.vault.inboxes
          PROVE  <<file[m].id, j>>[2] # k
      BY <1>7
    <3> QED
      BY <1>7, <1>11, <3>1
  <2>2. k \in (1 .. drawn)'
    BY <1>1, <1>4
  <2>3. record' = record
    BY <1>11
  <2> QED
    BY ONLY <1>7, <2>1, <2>2, <2>3 DEF Unused
<1>13. Made(m)'
  <2>1. Now' = Now /\ k \in (1 .. drawn)'
    BY <1>1, <1>4, <1>11 DEF Now
  <2>2. Writing(m, <<Revoked(Now, id, k, file[m].id)>>, k, file[m].id)'
    BY <1>11, <2>1 DEF Writing, U, e
  <2>3. id \in Devices(Now) \ {file[m].id} /\ record' = record /\ op'[m].act = "revoke"
        /\ file'[m].id = file[m].id
    BY <1>1, <1>11
  <2> QED
    BY ONLY <1>2, <1>12, <2>1, <2>2, <2>3 DEF Made
<1> QED
  BY <1>11, <1>13

\* A first incoming-share key.
LEMMA ShareOnMade ==
  ASSUME IdentityAssumption, LimitAssumption, IdentityInv, NEW m \in Machines, ShareOn(m)
  PROVE  PinStep(m) /\ Made(m)'
<1>0. PICK k : k = drawn + 1
  OBVIOUS
<1> DEFINE e == Shared(Now, k, file[m].id)
<1>1. /\ Entitled(m, "sharing") /\ drawn' = k /\ drawn < MaxDrawn /\ Now.inbox = None
      /\ Writes(m, "sharing", <<e>>, record.vault.key)
  BY <1>0 DEF ShareOn, Now
<1>2. /\ PinsInv /\ drawn \in 0 .. MaxDrawn /\ MaxDrawn \in Nat /\ file[m].id \in Devices(Now)
      /\ file[m].id \in 1 .. drawn /\ record # NoRecord
  BY <1>1, EntitledParts DEF IdentityInv, PinsInv, Typed, IdentityAssumption
<1>3. record \in Records(drawn) /\ RecordOK(record)
  BY <1>2, HeldRecord DEF PinsInv
<1>4. k \in Nat /\ k \in 1 .. k /\ drawn' \in drawn .. MaxDrawn /\ drawn <= k
  BY <1>0, <1>1, <1>2
<1>5. record \in Records(k) /\ record.vault.key \in 1 .. k
  BY <1>2, <1>3, <1>4, TypesGrow, RecordParts
<1>6. Merged(m, record) \in SUBSET Links
  <2>1. receipts[m] \subseteq Links /\ record.vault.links \in SUBSET Links
    BY <1>2, <1>3, RecordParts DEF PinsInv, Typed
  <2> QED
    BY <2>1 DEF Merged
<1>7. /\ k # record.vault.key /\ k \notin record.vault.inboxes
      /\ \A held \in opened : held[2] # k
      /\ \A i \in DOMAIN record.events :
           record.events[i].recoveryWrap.key # k /\ record.events[i].inbox # k
  BY <1>0, <1>2, FreshKey DEF PinsInv
<1>8. /\ e \in States(k)
      /\ WriteOK(Prepared(record, <<e>>, record.vault.key, Merged(m, record), file[m].id))
  BY <1>1, <1>2, <1>3, <1>4, <1>5, <1>6, <1>7, ShareOK DEF Now
<1>9. <<e>> \in Seq(States(drawn')) /\ record.vault.key \in 1 .. drawn'
  BY <1>1, <1>5, <1>8
<1> HIDE DEF e
<1>11. /\ PinStep(m) /\ record' = record /\ file'[m].id = file[m].id /\ op'[m].act = "sharing"
       /\ op'[m].update = Prepared(record, <<e>>, record.vault.key, Merged(m, record), file[m].id)
       /\ Merged(m, record) \in SUBSET Links /\ record.vault.links \subseteq Merged(m, record)
       /\ opened' = opened \union {<<file[m].id, j>> :
                                    j \in {record.vault.key} \union record.vault.inboxes}
  <2>1. "sharing" \in Acts \ {"setup"} /\ Entitled(m, "sharing")
    BY <1>1 DEF Acts
  <2> DEFINE event == <<e>>
  <2>2. /\ Writes(m, "sharing", event, record.vault.key) /\ event \in Seq(States(drawn'))
        /\ WriteOK(Prepared(record, event, record.vault.key, Merged(m, record), file[m].id))
    BY <1>1, <1>2, <1>4, <1>8, <1>9
  <2> HIDE DEF event
  <2>3. /\ PinStep(m) /\ record' = record /\ file'[m].id = file[m].id /\ op'[m].act = "sharing"
        /\ op'[m].update = Prepared(record, event, record.vault.key, Merged(m, record), file[m].id)
        /\ Merged(m, record) \in SUBSET Links /\ record.vault.links \subseteq Merged(m, record)
        /\ opened' = opened \union {<<file[m].id, j>> :
                                     j \in {record.vault.key} \union record.vault.inboxes}
    BY ONLY IdentityAssumption, m \in Machines, <1>1, <1>2, <1>4, <1>9, <2>1, <2>2, WritesPins
  <2> QED
    BY <2>3 DEF event
<1>12. Unused(k)'
  <2>1. \A held \in opened' : held[2] # k
    <3>1. ASSUME NEW j \in {record.vault.key} \union record.vault.inboxes
          PROVE  <<file[m].id, j>>[2] # k
      BY <1>7
    <3> QED
      BY <1>7, <1>11, <3>1
  <2>2. k \in (1 .. drawn)'
    BY <1>1, <1>4
  <2>3. record' = record
    BY <1>11
  <2> QED
    BY ONLY <1>7, <2>1, <2>2, <2>3 DEF Unused
<1>13. Made(m)'
  <2>1. Now' = Now /\ k \in (1 .. drawn)'
    BY <1>1, <1>4, <1>11 DEF Now
  <2>2. Writing(m, <<Shared(Now, k, file[m].id)>>, record.vault.key, file[m].id)'
    BY <1>11, <2>1 DEF Writing, U, e
  <2>3. record' = record /\ op'[m].act = "sharing" /\ file'[m].id = file[m].id
    BY <1>11
  <2> QED
    BY ONLY <1>1, <1>2, <1>12, <2>1, <2>2, <2>3 DEF Made
<1> QED
  BY <1>11, <1>13

\* A recovery: the device is new.
LEMMA RecoverMade ==
  ASSUME IdentityAssumption, LimitAssumption, IdentityInv, NEW m \in Machines, Recover(m)
  PROVE  PinStep(m) /\ Made(m)'
<1>0. PICK id : id = drawn + 1
  OBVIOUS
<1> DEFINE k == record.vault.key
           e == Enrolled(Now, id, k, "recover", RootKey)
           S == Merged(m, record)
           u == Prepared(record, <<e>>, k, S, RootKey)
           g == Pinned(Device(id), record)
<1>1. /\ record # NoRecord /\ At(m, "idle") /\ (file[m] # NoFile => PinHolds(file[m], record))
      /\ Now.root \in shown /\ drawn < MaxDrawn /\ drawn' = id
      /\ file' = [file EXCEPT ![m] = g] /\ op' = [op EXCEPT ![m] = Post(m, "recover", u)]
      /\ UNCHANGED <<service, receipts, history>>
  BY <1>0 DEF Recover, Reads, Starts, Save, Now
<1>2. /\ PinsInv /\ drawn \in 0 .. MaxDrawn /\ MaxDrawn \in Nat
      /\ receipts \in [Machines -> SUBSET Links]
  BY DEF IdentityInv, PinsInv, Typed, IdentityAssumption
<1>3. record \in Records(drawn) /\ RecordOK(record) /\ Devices(Now) \subseteq 1 .. drawn
  BY <1>1, <1>2, HeldRecord DEF PinsInv
<1>4. /\ id \in Nat /\ id \in (1 .. id) \ Devices(Now) /\ drawn' \in drawn .. MaxDrawn
      /\ drawn <= id /\ id \in drawn + 1 .. drawn'
  BY <1>0, <1>1, <1>2, <1>3
<1>5. record \in Records(id)
  BY <1>2, <1>3, <1>4, TypesGrow
<1>6. k \in 1 .. id /\ record.events \in Seq(States(id)) /\ Len(record.events) >= 1
      /\ record.vault.revision \in Nat /\ record.vault.inboxes \subseteq 1 .. id
  BY <1>3, <1>4, <1>5, RecordParts
<1>7. S \in SUBSET Links /\ record.vault.links \subseteq S
  <2>1. receipts[m] \subseteq Links /\ record.vault.links \in SUBSET Links
    BY <1>2, <1>3, RecordParts
  <2> QED
    BY <2>1 DEF Merged
<1>8. g \in Files(drawn') /\ g.id = Device(id).id /\ g.recovery = Device(id).recovery
      /\ g.root = Now.root /\ g.head = record.events
      /\ g.revision = record.vault.revision /\ g.setup = <<>>
  BY <1>0, <1>1, <1>2, NewPins
<1>9. g.id = id /\ g.recovery = None
  <2> HIDE DEF g
  <2> QED
    BY <1>4, <1>8, FileParts
<1> HIDE DEF k, S, g
<1>10. e \in States(id) /\ WriteOK(u)
  <2>1. RootKey \in 0 .. id
    BY <1>4 DEF RootKey
  <2> QED
    BY <1>3, <1>4, <1>5, <1>6, <1>7, <2>1, EnrollOK DEF Now
<1> HIDE DEF e
<1>11. u \in Updates(drawn')
  <2>1. RootKey \in 0 .. id /\ <<e>> \in Seq(States(id)) /\ Len(record.events \o <<e>>) > 0
    BY <1>4, <1>6, <1>10 DEF RootKey
  <2>2. u \in Updates(id)
    BY <1>4, <1>6, <1>7, <2>1, PreparedTyped
  <2> QED
    BY <1>1, <2>2
<1>12. /\ u.expectedHead = record.events /\ u.expectedRevision = record.vault.revision
       /\ u.vault.head = u.expectedHead \o u.event
  BY DEF Prepared
<1> HIDE DEF u
<1>13. /\ \E tries \in Nat : Post(m, "recover", u) =
                 [at |-> "post", act |-> "recover", update |-> u, tries |-> tries]
       /\ Post(m, "recover", u).act = "recover" /\ Post(m, "recover", u).update = u
  BY <1>2, PostParts
<1>14. PinStep(m)
  BY <1>1, <1>2, <1>4, <1>8, <1>9, <1>10, <1>11, <1>12, <1>13 DEF PinStep, history, Acts
<1>15. op'[m].act = "recover" /\ op'[m].update = u /\ file'[m].id = id /\ record' = record
       /\ shown' = shown /\ Now' = Now
  BY <1>1, <1>2, <1>9, <1>13 DEF PinsInv, Typed, service, history, Now
<1>16. Made(m)'
  <2>1. Writing(m, <<Enrolled(Now, id, k, "recover", RootKey)>>, k, RootKey)'
    BY <1>7, <1>15 DEF Writing, U, u, e, k
  <2> QED
    BY <1>1, <1>4, <1>15, <2>1 DEF Made, k
<1> QED
  BY <1>14, <1>16

-----------------------------------------------------------------------------
(* Reading keeps the invariant.                                            *)

\* What was typed is typed with more keys drawn.
LEMMA TypedGrows ==
  ASSUME IdentityAssumption, Typed, drawn' \in drawn .. MaxDrawn
  PROVE  /\ drawn \in Nat /\ drawn' \in Nat /\ drawn <= drawn' /\ drawn' \in 0 .. MaxDrawn
         /\ 1 .. drawn \subseteq 1 .. drawn'
         /\ \A rec : Holdable(rec) /\ rec # NoRecord =>
              rec \in Records(drawn') /\ RecordOK(rec) /\ rec.vault.revision <= MaxRevision
         /\ file \in [Machines -> {NoFile} \union Files(drawn')]
         /\ op \in [Machines -> Ops(drawn')]
<1>1. drawn \in Nat /\ drawn' \in Nat /\ drawn <= drawn' /\ drawn' \in 0 .. MaxDrawn
  BY DEF Typed, IdentityAssumption
<1>2. /\ Records(drawn) \subseteq Records(drawn') /\ Files(drawn) \subseteq Files(drawn')
      /\ Ops(drawn) \subseteq Ops(drawn')
  BY <1>1, TypesGrow
<1>3. file \in [Machines -> {NoFile} \union Files(drawn')] /\ op \in [Machines -> Ops(drawn')]
  BY <1>2 DEF Typed
<1>4. \A rec : Holdable(rec) /\ rec # NoRecord =>
        rec \in Records(drawn') /\ RecordOK(rec) /\ rec.vault.revision <= MaxRevision
  BY <1>2 DEF Holdable
<1> QED
  BY <1>1, <1>3, <1>4

\* The file after the step.
LEMMA PinStepFile ==
  ASSUME IdentityAssumption, PinsInv, NEW m \in Machines, PinStep(m)
  PROVE  /\ file'[m] \in Files(drawn') /\ file'[m] # NoFile
         /\ file'[m].root = Now.root /\ file'[m].head = record.events
         /\ file'[m].revision = record.vault.revision /\ file'[m].setup = <<>>
         /\ (file[m] # NoFile /\ file'[m].id = file[m].id) \/ file'[m].id \in drawn + 1 .. drawn'
         /\ \/ file[m] # NoFile /\ file'[m].recovery = file[m].recovery
            \/ file'[m].recovery = None /\ (file[m] = NoFile \/ Now.root \in shown)
         /\ \A n \in Machines \ {m} : file'[n] = file[n] /\ op'[n] = op[n]
         /\ DOMAIN file' = Machines /\ DOMAIN op' = Machines
<1>1. /\ DOMAIN file = Machines /\ DOMAIN op = Machines
  BY DEF PinsInv, Typed
<1>2. \A n \in Machines \ {m} : op'[n] = op[n] /\ DOMAIN op' = Machines
  BY <1>1 DEF PinStep
<1>3. DOMAIN op' = Machines
  BY <1>1 DEF PinStep
<1>4. PICK g \in Files(drawn') :
       /\ file' = [file EXCEPT ![m] = g]
       /\ g.root = Now.root /\ g.head = record.events
       /\ g.revision = record.vault.revision /\ g.setup = <<>>
       /\ (file[m] # NoFile /\ g.id = file[m].id) \/ g.id \in drawn + 1 .. drawn'
       /\ \/ file[m] # NoFile /\ g.recovery = file[m].recovery
          \/ g.recovery = None /\ (file[m] = NoFile \/ Now.root \in shown)
  BY DEF PinStep
<1>5. file'[m] = g /\ (\A n \in Machines \ {m} : file'[n] = file[n]) /\ DOMAIN file' = Machines
  BY <1>1, <1>4
<1>6. g # NoFile
  <2>1. DOMAIN g # DOMAIN NoFile
    <3>1. "root" \in DOMAIN g /\ "root" \notin DOMAIN NoFile
      BY DEF Files, NoFile
    <3> QED
      BY <3>1
  <2> QED
    BY <2>1
<1> QED
  BY <1>2, <1>3, <1>4, <1>5, <1>6

\* The machine's step after it.
LEMMA PinStepOp ==
  ASSUME IdentityAssumption, PinsInv, NEW m \in Machines, PinStep(m)
  PROVE  /\ op'[m] \in Ops(drawn') /\ op' = [op EXCEPT ![m] = op'[m]]
         /\ op'[m].at \in {"idle", "again", "ask", "post"}
         /\ op'[m].at = "post" =>
              /\ op'[m].act # "setup" /\ WriteOK(op'[m].update)
              /\ op'[m].update.expectedHead = record.events
              /\ op'[m].update.expectedRevision = record.vault.revision
              /\ op'[m].update.vault.head = op'[m].update.expectedHead \o op'[m].update.event
<1>1. op \in [Machines -> Ops(drawn')]
  BY TypedGrows DEF PinsInv, PinStep
<1>2. CASE op' = op \/ op' = [op EXCEPT ![m] = Idle] \/ op' = [op EXCEPT ![m] = [at |-> "ask"]]
  <2>1. op[m] \in Ops(drawn') /\ Idle \in Ops(drawn') /\ [at |-> "ask"] \in Ops(drawn')
    BY <1>1 DEF Idle, Ops
  <2>2. op'[m] \in {op[m], Idle, [at |-> "ask"]} /\ op' = [op EXCEPT ![m] = op'[m]]
    BY <1>1, <1>2
  <2>3. op[m].at \in {"idle", "again"} /\ Idle.at = "idle" /\ [at |-> "ask"].at = "ask"
    BY DEF PinStep, At, Idle
  <2> QED
    BY <2>1, <2>2, <2>3
<1>3. ASSUME NEW act \in Acts \ {"setup"}, NEW u \in Updates(drawn'), NEW tries \in Nat,
             op' = [op EXCEPT ![m] = [at |-> "post", act |-> act, update |-> u, tries |-> tries]],
             u.expectedHead = record.events, u.expectedRevision = record.vault.revision,
             u.vault.head = u.expectedHead \o u.event, WriteOK(u)
      PROVE  /\ op'[m] \in Ops(drawn') /\ op' = [op EXCEPT ![m] = op'[m]]
             /\ op'[m].at \in {"idle", "again", "ask", "post"}
             /\ op'[m].at = "post" =>
                  /\ op'[m].act # "setup" /\ WriteOK(op'[m].update)
                  /\ op'[m].update.expectedHead = record.events
                  /\ op'[m].update.expectedRevision = record.vault.revision
                  /\ op'[m].update.vault.head =
                       op'[m].update.expectedHead \o op'[m].update.event
  <2>1. op'[m] = [at |-> "post", act |-> act, update |-> u, tries |-> tries]
    BY <1>1, <1>3
  <2>2. op'[m].at = "post" /\ op'[m].act = act /\ op'[m].update = u
    BY <2>1
  <2>3. op'[m] \in Ops(drawn')
    BY <2>1 DEF Ops
  <2>4. op' = [op EXCEPT ![m] = op'[m]]
    BY <1>3, <2>1
  <2> QED
    BY <1>3, <2>2, <2>3, <2>4
<1> QED
  BY <1>2, <1>3 DEF PinStep

\* Types.
LEMMA PinStepTyped ==
  ASSUME IdentityAssumption, PinsInv, NEW m \in Machines, PinStep(m)
  PROVE  Typed'
<1>1. drawn' \in drawn .. MaxDrawn /\ record # NoRecord /\ Typed
  BY DEF PinStep, PinsInv
<1>2. /\ record' = record /\ copy' = copy /\ requests' = requests /\ restores' = restores
      /\ backedUp' = backedUp /\ receipts' \in [Machines -> SUBSET Links]
  BY DEF PinStep, service
<1>3. /\ drawn \in Nat /\ drawn' \in Nat /\ drawn <= drawn' /\ drawn' \in 0 .. MaxDrawn
      /\ 1 .. drawn \subseteq 1 .. drawn'
      /\ \A rec : Holdable(rec) /\ rec # NoRecord =>
           rec \in Records(drawn') /\ RecordOK(rec) /\ rec.vault.revision <= MaxRevision
      /\ file \in [Machines -> {NoFile} \union Files(drawn')]
      /\ op \in [Machines -> Ops(drawn')]
  BY <1>1, TypedGrows
<1>4. Holdable(record)' /\ Holdable(copy)'
  <2>1. Holdable(record) /\ Holdable(copy)
    BY <1>1 DEF Typed
  <2> QED
    BY <1>2, <1>3, <2>1 DEF Holdable
<1>5. file' \in [Machines -> {NoFile} \union Files(drawn')]
  BY <1>3 DEF PinStep
<1>6. op' \in [Machines -> Ops(drawn')]
  BY <1>3, PinStepOp, PinStepFile
<1>7. shown' \subseteq 1 .. drawn'
  <2>1. Approved(file[m], record) => file[m].recovery \in 0 .. drawn
    BY <1>1 DEF Typed, Files, Approved
  <2>2. shown \subseteq 1 .. drawn
    BY <1>1 DEF Typed
  <2>3. \/ shown' = shown
        \/ (shown' = shown \union {file[m].recovery} /\ file[m].recovery \in 1 .. drawn)
    BY <1>3, <2>1 DEF PinStep, None
  <2> QED
    BY <1>3, <2>2, <2>3
<1>8. opened' \subseteq (1 .. drawn') \X (1 .. drawn')
  <2>1. Approved(file[m], record) => file[m].id \in 1 .. drawn
    BY <1>1 DEF Typed, Files, Approved
  <2>2. {record.vault.key} \union record.vault.inboxes \subseteq 1 .. drawn
    <3>1. record \in Records(drawn) /\ RecordOK(record)
      BY <1>1, HeldRecord
    <3> QED
      BY <1>3, <3>1, RecordParts
  <2> QED
    BY <1>1, <1>3, <2>1, <2>2 DEF PinStep, Typed
<1>9. requests' \subseteq 1 .. drawn' /\ restores' \in 0 .. MaxRestores /\ backedUp' \subseteq Links
  BY <1>1, <1>2, <1>3 DEF Typed
<1> QED
  BY <1>2, <1>3, <1>4, <1>5, <1>6, <1>7, <1>8, <1>9 DEF Typed

\* Files and writes.
LEMMA PinStepPins ==
  ASSUME IdentityAssumption, PinsInv, NEW m \in Machines, PinStep(m)
  PROVE  PinsInv'
<1>1. record' = record /\ requests' = requests /\ record # NoRecord /\ drawn' \in drawn .. MaxDrawn
  BY DEF PinStep, service
<1>2. /\ drawn \in Nat /\ drawn' \in Nat /\ drawn <= drawn'
      /\ record \in Records(drawn) /\ RecordOK(record) /\ record.vault.revision <= MaxRevision
  <2>1. Holdable(record) /\ Typed
    BY DEF PinsInv, Typed
  <2> QED
    BY <1>1, <2>1, TypedGrows DEF Holdable
<1>3. Outside'
  BY <1>1, <1>2 DEF PinsInv, Outside
<1>4. OwnIds'
  <2>1. \A n \in Machines : file[n] # NoFile => file[n].id \in 1 .. drawn
    BY DEF PinsInv, Typed, Files
  <2>2. \A n \in Machines \ {m} : file'[n] # NoFile => file'[m].id # file'[n].id
    BY <1>2, <2>1, PinStepFile DEF PinsInv, OwnIds
  <2> QED
    BY <2>2, PinStepFile DEF PinsInv, OwnIds
<1>5. ASSUME NEW n \in Machines PROVE (FileInv(n) /\ (Posting(n) => WriteOK(U(n))))'
  <2>1. CASE n = m
    <3>1. Len(record.events) \in 1 .. MaxEvents /\ record.vault.revision \in Nat
          /\ record.vault.revision >= 1
      BY <1>2, RecordParts
    <3>2. record.vault.revision \in 1 .. MaxRevision + 1
      BY <1>2, <3>1 DEF IdentityAssumption
    <3>3. Posting(m)' => op'[m].at = "post"
      BY PinStepOp DEF Posting
    <3> QED
      BY <1>2, <2>1, <3>1, <3>2, <3>3, PinStepOp, PinStepFile DEF FileInv, U
  <2>2. CASE n # m
    <3>1. file'[n] = file[n] /\ op'[n] = op[n]
      BY <2>2, PinStepFile
    <3>2. FileInv(n) /\ (Posting(n) => WriteOK(U(n)))
      BY DEF PinsInv
    <3>3. FileInv(n)'
      BY <3>1, <3>2 DEF FileInv, Posting, U, Unacknowledged
    <3> QED
      BY <3>1, <3>2, <3>3 DEF Posting, U
  <2> QED
    BY <2>1, <2>2
<1> QED
  BY <1>3, <1>4, <1>5, PinStepTyped DEF PinsInv

\* A write made of the record the service holds is so made while the record stays.
LEMMA MadeKept ==
  ASSUME NEW n \in Machines, Made(n), record' = record, op'[n] = op[n], file'[n].id = file[n].id,
         1 .. drawn \subseteq 1 .. drawn', shown \subseteq shown',
         \A j \in Machines : Lost(j)' => Lost(j) /\ file'[j].id = file[j].id,
         \A held \in opened' \ opened : held[2] \in {record.vault.key} \union record.vault.inboxes
  PROVE  Made(n)'
<1>1. Now' = Now
  BY DEF Now
<1>2. \A k : Unused(k) => Unused(k)'
  <2> SUFFICES ASSUME NEW k, Unused(k) PROVE Unused(k)'
    OBVIOUS
  <2>1. \A held \in opened' : held[2] # k
    BY DEF Unused
  <2>2. k \in 1 .. drawn'
    BY DEF Unused
  <2> QED
    BY <2>1, <2>2 DEF Unused
<1>3. CASE op[n].act = "sync"
  <2>1. file[n].id \in Devices(Now) /\ Writing(n, NoEvent, record.vault.key, file[n].id)
    BY <1>3 DEF Made
  <2>2. Writing(n, NoEvent, record.vault.key, file[n].id)'
    BY <2>1 DEF Writing, U
  <2> QED
    BY <1>1, <1>3, <2>1, <2>2 DEF Made
<1>4. CASE op[n].act = "approve"
  <2>1. PICK d \in (1 .. drawn) \ Devices(Now) :
          /\ file[n].id \in Devices(Now)
          /\ \A j \in Machines : Lost(j) => file[j].id # d
          /\ Writing(n, <<Enrolled(Now, d, record.vault.key, "approve", file[n].id)>>,
                     record.vault.key, file[n].id)
    BY <1>4 DEF Made
  <2>2. Writing(n, <<Enrolled(Now, d, record.vault.key, "approve", file[n].id)>>,
                record.vault.key, file[n].id)'
    BY <1>1, <2>1 DEF Writing, U
  <2>3. \A j \in Machines : Lost(j)' => file'[j].id # d
    BY <2>1
  <2> QED
    BY <1>1, <1>4, <2>1, <2>2, <2>3 DEF Made
<1>5. CASE op[n].act = "recover"
  <2>1. /\ file[n].id \notin Devices(Now) /\ shown # {}
        /\ Writing(n, <<Enrolled(Now, file[n].id, record.vault.key, "recover", RootKey)>>,
                   record.vault.key, RootKey)
    BY <1>5 DEF Made
  <2>2. Writing(n, <<Enrolled(Now, file[n].id, record.vault.key, "recover", RootKey)>>,
                record.vault.key, RootKey)'
    BY <1>1, <2>1 DEF Writing, U
  <2>3. shown' # {}
    BY <2>1
  <2> QED
    BY <1>1, <1>5, <2>1, <2>2, <2>3 DEF Made
<1>6. CASE op[n].act = "revoke"
  <2>1. PICK d \in Devices(Now) \ {file[n].id}, k \in 1 .. drawn :
          /\ file[n].id \in Devices(Now) /\ Unused(k)
          /\ Writing(n, <<Revoked(Now, d, k, file[n].id)>>, k, file[n].id)
    BY <1>6 DEF Made
  <2>2. Writing(n, <<Revoked(Now, d, k, file[n].id)>>, k, file[n].id)'
    BY <1>1, <2>1 DEF Writing, U
  <2>3. Unused(k)' /\ k \in 1 .. drawn'
    BY <1>2, <2>1
  <2> QED
    BY <1>1, <1>6, <2>1, <2>2, <2>3 DEF Made
<1>7. CASE op[n].act = "sharing"
  <2>1. PICK k \in 1 .. drawn :
          /\ file[n].id \in Devices(Now) /\ Now.inbox = None /\ Unused(k)
          /\ Writing(n, <<Shared(Now, k, file[n].id)>>, record.vault.key, file[n].id)
    BY <1>7 DEF Made
  <2>2. Writing(n, <<Shared(Now, k, file[n].id)>>, record.vault.key, file[n].id)'
    BY <1>1, <2>1 DEF Writing, U
  <2>3. Unused(k)' /\ k \in 1 .. drawn'
    BY <1>2, <2>1
  <2> QED
    BY <1>1, <1>7, <2>1, <2>2, <2>3 DEF Made
<1> QED
  BY <1>3, <1>4, <1>5, <1>6, <1>7 DEF Made

\* What holds of a machine stays while it does nothing and the record stays.
LEMMA MachineKept ==
  ASSUME NEW n \in Machines, MachineInv(n), record' = record,
         op'[n] = op[n], file'[n] = file[n],
         1 .. drawn \subseteq 1 .. drawn', shown \subseteq shown',
         \A j \in Machines : Lost(j)' => Lost(j) /\ file'[j].id = file[j].id,
         \A held \in opened' \ opened : held[2] \in {record.vault.key} \union record.vault.inboxes,
         Lost(n) /\ file[n].id \in requests' => file[n].id \in requests,
         op[n].at = "answered" /\ op[n].act = "setup" => shown' = shown
  PROVE  MachineInv(n)'
<1>1. Now' = Now /\ (Lost(n)' <=> Lost(n)) /\ U(n)' = U(n)
  BY DEF Now, Lost, U
<1>2. Made(n) => Made(n)'
  BY MadeKept
<1> QED
  BY <1>1, <1>2 DEF MachineInv, SameHead

\* After a setup that the service took, the account has one device.
LEMMA AnsweredSetup ==
  ASSUME PinsInv, NEW n \in Machines, MachineInv(n), op[n].at = "answered", op[n].act = "setup"
  PROVE  /\ Devices(Now) = {file[n].id} /\ Now.root = file[n].root /\ shown = {}
         /\ file[n] # NoFile
<1>1. FileInv(n) /\ file[n] # NoFile /\ file[n].setup = <<U(n)>>
  BY DEF PinsInv, FileInv, Posting
<1>2. PICK S \in SUBSET Links : file[n].setup = <<SetupWrite(file[n].id, file[n].root, S)>>
  <2>1. file[n].setup # <<>>
    BY <1>1
  <2> QED
    BY <1>1, <2>1 DEF FileInv, Unacknowledged
<1>3. U(n) = SetupWrite(file[n].id, file[n].root, S)
  <2>1. <<U(n)>>[1] = <<SetupWrite(file[n].id, file[n].root, S)>>[1]
    BY <1>1, <1>2
  <2> QED
    BY <2>1
<1> DEFINE f == First(file[n].id, file[n].root)
<1>4. record.events = <<f>>
  <2>1. record = After(NoRecord, U(n))
    BY DEF MachineInv
  <2>2. U(n).event = <<f>>
    BY <1>3 DEF SetupWrite, Prepared
  <2>3. <<>> \o <<f>> = <<f>>
    OBVIOUS
  <2> QED
    BY <2>1, <2>2, <2>3 DEF After, NoRecord
<1>5. Now = f
  <2>1. Len(<<f>>) = 1 /\ <<f>>[1] = f
    OBVIOUS
  <2> QED
    BY <1>4, <2>1 DEF Now, State
<1> QED
  BY <1>1, <1>5 DEF First, Devices, MachineInv

\* Reading keeps what the account keeps, if a write is made of what was read.
LEMMA PinStepAccount ==
  ASSUME IdentityAssumption, IdentityInv, NEW m \in Machines, PinStep(m),
         restores = 0 /\ op'[m].at = "post" => Made(m)'
  PROVE  AccountKept'
<1> SUFFICES ASSUME restores = 0 PROVE (KeysInv /\ \A n \in Machines : MachineInv(n))'
  BY DEF AccountKept, PinStep, service
<1>1. /\ record' = record /\ requests' = requests /\ backedUp' = backedUp /\ Now' = Now
      /\ record # NoRecord /\ (file[m] # NoFile => PinHolds(file[m], record))
      /\ drawn' \in drawn .. MaxDrawn
  BY DEF PinStep, service, Now
<1>2. /\ PinsInv /\ Typed /\ KeysInv /\ \A n \in Machines : MachineInv(n)
  BY <1>1 DEF IdentityInv, AccountKept, PinsInv
<1>3. 1 .. drawn \subseteq 1 .. drawn' /\ record \in Records(drawn) /\ RecordOK(record)
  BY <1>1, <1>2, TypedGrows, HeldRecord
<1>4. file[m] # NoFile => file[m].recovery \in {None, Now.root}
  BY <1>1 DEF PinHolds, Now
<1>5. \A held \in opened' \ opened : held[2] \in {record.vault.key} \union record.vault.inboxes
  BY DEF PinStep
<1>6. /\ file'[m] # NoFile /\ file'[m].root = Now.root /\ file'[m].head = record.events
      /\ file'[m].revision = record.vault.revision
      /\ file'[m].recovery \in {None, Now.root}
      /\ \A n \in Machines \ {m} : file'[n] = file[n] /\ op'[n] = op[n]
  BY <1>2, <1>4, PinStepFile
<1>7. \A j \in Machines : Lost(j)' => Lost(j) /\ file'[j].id = file[j].id
  BY <1>1, <1>6 DEF Lost
<1>8. KeysInv'
  <2>1. shown' \subseteq {Now.root}
    <3>1. shown \subseteq {Now.root}
      BY <1>2 DEF KeysInv
    <3>2. Approved(file[m], record) => file[m] # NoFile
      BY DEF Approved
    <3> QED
      BY <1>4, <3>1, <3>2 DEF PinStep
  <2>2. Now.root \in shown' \union {file'[n].recovery : n \in {j \in Machines : file'[j] # NoFile}}
    <3>1. CASE Now.root \in shown
      BY <3>1 DEF PinStep
    <3>2. ASSUME Now.root \notin shown, NEW n \in Machines, file[n] # NoFile,
                 Now.root = file[n].recovery
          PROVE  file'[n] # NoFile /\ file'[n].recovery = Now.root
      <4>1. Now.root # None
        <5>1. Now \in States(drawn)
          BY <1>1, <1>2, HeldRecord
        <5> QED
          BY <5>1, StateParts DEF None
      <4> QED
        BY <1>2, <1>6, <3>2, <4>1, PinStepFile
    <3> QED
      BY <1>2, <3>1, <3>2 DEF KeysInv
  <2>3. \A held \in opened' :
          held[1] \in Devices(Now) \/ held[2] \notin {record.vault.key, Now.inbox}
    BY <1>2 DEF PinStep, Approved, Now, KeysInv
  <2>4. Readable(record)'
    BY <1>1, <1>2 DEF KeysInv, Readable
  <2> QED
    BY <1>1, <1>2, <2>1, <2>2, <2>3, <2>4 DEF KeysInv, CurrentWrap
<1>9. ASSUME NEW n \in Machines, n # m PROVE MachineInv(n)'
  <2>1. op[n].at = "answered" /\ op[n].act = "setup" => shown' = shown
    <3> SUFFICES ASSUME op[n].at = "answered", op[n].act = "setup" PROVE shown' = shown
      OBVIOUS
    <3>1. Devices(Now) = {file[n].id} /\ file[n] # NoFile
      BY <1>2, AnsweredSetup
    <3>2. file[m] # NoFile => file[m].id # file[n].id
      BY <1>2, <1>9, <3>1 DEF PinsInv, OwnIds
    <3>3. ~Approved(file[m], record)
      BY <3>1, <3>2 DEF Approved, Now
    <3> QED
      BY <3>3 DEF PinStep
  <2>2. shown \subseteq shown'
    BY DEF PinStep
  <2> QED
    BY <1>1, <1>2, <1>3, <1>5, <1>6, <1>7, <1>9, <2>1, <2>2, MachineKept
<1>10. MachineInv(m)'
  <2>1. record.events \in Seq(States(drawn)) /\ Len(record.events) \in Nat
        /\ record.vault.revision \in Nat
    BY <1>2, <1>3, <1>1, HeldRecord, RecordParts
  <2>2. record.events = SubSeq(record.events, 1, Len(record.events))
    BY <2>1
  <2>3. ~Lost(m)' /\ SameHead(file[m], record)'
    BY <1>1, <1>6, <2>2 DEF Lost, SameHead
  <2>4. /\ op'[m].at # "answered"
        /\ (op'[m].at = "post" => Made(m)' /\ U(m)'.expectedRevision = record.vault.revision)
    BY <1>2, PinStepOp DEF U
  <2> QED
    BY <1>1, <1>6, <2>1, <2>3, <2>4 DEF MachineInv
<1> QED
  BY <1>8, <1>9, <1>10

-----------------------------------------------------------------------------
(* Steps that leave the record alone.                                      *)

\* A machine that does nothing keeps its file and its write.
LEMMA FileKept ==
  ASSUME PinsInv, NEW n \in Machines, file'[n] = file[n], op'[n] = op[n]
  PROVE  (FileInv(n) /\ (Posting(n) => WriteOK(U(n))))'
<1>1. FileInv(n) /\ (Posting(n) => WriteOK(U(n)))
  BY DEF PinsInv
<1>2. FileInv(n)'
  BY <1>1 DEF FileInv, Posting, U, Unacknowledged
<1> QED
  BY <1>1, <1>2 DEF Posting, U

\* A setup that is kept is the one write of its file.
LEMMA KeptSetup ==
  ASSUME PinsInv, NEW m \in Machines, file[m] # NoFile, file[m].setup # <<>>
  PROVE  /\ file[m].id \in 1 .. drawn /\ file[m].root \in 1 .. drawn
         /\ file[m].recovery = file[m].root /\ Unacknowledged(file[m])
         /\ \E S \in SUBSET Links :
              /\ file[m].setup = <<SetupWrite(file[m].id, file[m].root, S)>>
              /\ file[m].setup[1] = SetupWrite(file[m].id, file[m].root, S)
<1>1. Unacknowledged(file[m])
  BY DEF PinsInv, FileInv
<1>2. PICK S \in SUBSET Links : file[m].setup = <<SetupWrite(file[m].id, file[m].root, S)>>
  BY <1>1 DEF Unacknowledged
<1>3. file[m].setup[1] = SetupWrite(file[m].id, file[m].root, S)
  <2>1. <<SetupWrite(file[m].id, file[m].root, S)>>[1] = SetupWrite(file[m].id, file[m].root, S)
    OBVIOUS
  <2> QED
    BY <1>2, <2>1
<1>4. file[m].id \in 1 .. drawn /\ file[m].root \in 1 .. drawn
  BY DEF PinsInv, Typed, Files
<1> QED
  BY <1>1, <1>2, <1>3, <1>4 DEF Unacknowledged

\* A write of a setup is the one its file keeps.
LEMMA SetupSent ==
  ASSUME PinsInv, NEW m \in Machines, Posting(m), op[m].act = "setup"
  PROVE  /\ file[m] # NoFile /\ file[m].setup # <<>> /\ file[m].setup = <<U(m)>>
         /\ \E S \in SUBSET Links : U(m) = SetupWrite(file[m].id, file[m].root, S)
<1>1. file[m] # NoFile /\ file[m].setup = <<U(m)>>
  BY DEF PinsInv, FileInv, Posting
<1>2. file[m].setup # <<>> /\ file[m].setup[1] = U(m)
  <2>1. <<U(m)>> # <<>> /\ <<U(m)>>[1] = U(m)
    OBVIOUS
  <2> QED
    BY <1>1, <2>1
<1>3. PICK S \in SUBSET Links : file[m].setup[1] = SetupWrite(file[m].id, file[m].root, S)
  BY <1>1, <1>2, KeptSetup
<1> QED
  BY <1>1, <1>2, <1>3

\* A first setup.
LEMMA SetUpKeeps ==
  ASSUME IdentityAssumption, LimitAssumption, IdentityInv, NEW m \in Machines, SetUp(m)
  PROVE  IdentityInv'
<1>0. PICK id, k : id = drawn + 1 /\ k = drawn + 2
  OBVIOUS
<1> DEFINE S == receipts[m]
           u == SetupWrite(id, k, S)
           g == [Device(id) EXCEPT !.root = k, !.head = u.vault.head, !.revision = 1,
                                   !.setup = <<u>>, !.recovery = k]
<1>1. /\ record = NoRecord /\ At(m, "idle") /\ file[m] = NoFile /\ drawn' = k /\ k <= MaxDrawn
      /\ file' = [file EXCEPT ![m] = g] /\ op' = [op EXCEPT ![m] = Post(m, "setup", u)]
      /\ UNCHANGED <<service, receipts, history>>
  <2>1. Genesis(m, id, k) = u
    BY DEF Genesis, SetupWrite, First
  <2> QED
    BY <1>0, <2>1 DEF SetUp, Starts, Save
<1>2. /\ PinsInv /\ Typed /\ drawn \in 0 .. MaxDrawn /\ MaxDrawn \in Nat /\ S \in SUBSET Links
      /\ DOMAIN file = Machines /\ DOMAIN op = Machines
  BY DEF IdentityInv, PinsInv, Typed, IdentityAssumption
<1>3. /\ k \in Nat /\ id \in 1 .. k /\ k \in 1 .. k /\ k \in 0 .. k /\ k = id + 1
      /\ id > drawn /\ drawn' \in drawn .. MaxDrawn
  BY <1>0, <1>1, <1>2
<1> HIDE DEF S
<1>4. /\ u \in Updates(k) /\ u.vault.head = <<First(id, k)>> /\ First(id, k) \in States(k)
  BY <1>2, <1>3, SetupParts
<1>5. WriteOK(u)
  BY <1>2, <1>3, SetupOK
<1> DEFINE h == <<First(id, k)>>
           w == <<u>>
<1>6. h \in Seq(States(k)) /\ w \in Seq(Updates(k)) /\ Len(h) = 1 /\ w # <<>>
  BY <1>4
<1>7. /\ g \in Files(k) /\ g.id = id /\ g.root = k /\ g.recovery = k /\ g.head = h
      /\ g.revision = 1 /\ g.setup = w /\ g # NoFile
  <2>1. u.vault.head = h
    BY <1>4
  <2>2. 1 \in Nat
    OBVIOUS
  <2> HIDE DEF u, w, h
  <2>3. g = [Device(id) EXCEPT !.root = k, !.head = h, !.revision = 1, !.setup = w, !.recovery = k]
    BY <2>1 DEF w
  <2> HIDE DEF g
  <2>4. /\ g \in Files(k) /\ g.id = id /\ g.root = k /\ g.recovery = k /\ g.head = h
        /\ g.revision = 1 /\ g.setup = w
    BY <1>3, <1>6, <2>3 DEF Device, Files
  <2>5. g # NoFile
    <3>1. "root" \in DOMAIN g /\ "root" \notin DOMAIN NoFile
      BY <2>4 DEF Files, NoFile
    <3> QED
      BY <3>1
  <2> QED
    BY <2>4, <2>5
<1> DEFINE p == Post(m, "setup", u)
<1>8. /\ p.at = "post" /\ p.act = "setup" /\ p.update = u /\ p \in Ops(k)
  <2>1. PICK tries \in Nat :
          p = [at |-> "post", act |-> "setup", update |-> u, tries |-> tries]
    BY <1>2, PostParts
  <2> HIDE DEF u, p
  <2> QED
    BY <1>4, <2>1 DEF Ops, Acts
<1> HIDE DEF u, g, p, h
<1>9. /\ file'[m] = g /\ op'[m] = p
      /\ \A n \in Machines \ {m} : file'[n] = file[n] /\ op'[n] = op[n]
  BY <1>1, <1>2 DEF p
<1>10. Typed'
  <2>1. /\ file \in [Machines -> {NoFile} \union Files(k)] /\ op \in [Machines -> Ops(k)]
        /\ 1 .. drawn \subseteq 1 .. k /\ k \in 0 .. MaxDrawn
        /\ \A rec : Holdable(rec) /\ rec # NoRecord =>
             rec \in Records(k) /\ RecordOK(rec) /\ rec.vault.revision <= MaxRevision
    BY <1>1, <1>2, <1>3, TypedGrows
  <2>2. file' \in [Machines -> {NoFile} \union Files(k)] /\ op' \in [Machines -> Ops(k)]
    BY <1>1, <1>7, <1>8, <2>1 DEF p
  <2>3. Holdable(record)' /\ Holdable(copy)'
    BY <1>1, <1>2, <2>1 DEF service, Holdable, Typed
  <2> QED
    BY <1>1, <1>2, <2>1, <2>2, <2>3 DEF Typed, service, history
<1>11. FileInv(m)' /\ (Posting(m) => WriteOK(U(m)))'
  <2>1. Unacknowledged(g)
    BY <1>2, <1>3, <1>7 DEF Unacknowledged, u, h
  <2>2. Len(g.head) \in 1 .. MaxEvents /\ g.revision \in 1 .. MaxRevision + 1
    <3>1. 1 \in 1 .. MaxEvents /\ 1 \in 1 .. MaxRevision + 1
      BY DEF LimitAssumption, IdentityAssumption
    <3> QED
      BY ONLY <1>6, <1>7, <3>1
  <2> QED
    BY <1>5, <1>7, <1>8, <1>9, <2>1, <2>2 DEF FileInv, Posting, U
<1>12. PinsInv'
  <2>1. Outside'
    BY <1>1, <1>2 DEF PinsInv, Outside, service
  <2>2. OwnIds'
    <3>1. \A n \in Machines : file[n] # NoFile => file[n].id \in 1 .. drawn
      BY <1>2 DEF Typed, Files
    <3>2. \A n \in Machines \ {m} : file'[n] # NoFile => g.id # file'[n].id
      BY <1>2, <1>3, <1>7, <1>9, <3>1
    <3> QED
      BY <1>2, <1>9, <3>2 DEF PinsInv, OwnIds
  <2>3. \A n \in Machines \ {m} : (FileInv(n) /\ (Posting(n) => WriteOK(U(n))))'
    BY <1>2, <1>9, FileKept
  <2> QED
    BY <1>10, <1>11, <2>1, <2>2, <2>3 DEF PinsInv
<1>13. AccountKept'
  <2> SUFFICES ASSUME restores = 0 PROVE Unset'
    BY <1>1 DEF AccountKept, service
  <2>1. Unset
    BY <1>1 DEF IdentityInv, AccountKept
  <2> QED
    BY <1>1, <1>6, <1>7, <1>8, <1>9, <2>1 DEF Unset, history, w
<1> QED
  BY <1>12, <1>13 DEF IdentityInv

\* A setup sent again.
LEMMA SetUpAgainKeeps ==
  ASSUME IdentityAssumption, LimitAssumption, IdentityInv, NEW m \in Machines, SetUpAgain(m)
  PROVE  IdentityInv'
<1> DEFINE u == file[m].setup[1]
           p == Post(m, "setup", u)
<1>1. /\ record = NoRecord /\ At(m, "idle") /\ file[m] # NoFile /\ file[m].setup # <<>>
      /\ op' = [op EXCEPT ![m] = p] /\ UNCHANGED <<service, file, receipts, drawn, history>>
  BY DEF SetUpAgain, Starts
<1>2. /\ PinsInv /\ Typed /\ drawn \in Nat /\ op \in [Machines -> Ops(drawn)]
  BY DEF IdentityInv, PinsInv, Typed, IdentityAssumption
<1>3. PICK S \in SUBSET Links :
        /\ file[m].setup = <<SetupWrite(file[m].id, file[m].root, S)>>
        /\ u = SetupWrite(file[m].id, file[m].root, S)
  BY <1>1, <1>2, KeptSetup
<1>4. u \in Updates(drawn) /\ WriteOK(u)
  <2>1. file[m].id \in 1 .. drawn /\ file[m].root \in 1 .. drawn
    BY <1>1, <1>2, KeptSetup
  <2> QED
    BY SMTT(60), <1>2, <1>3, <2>1, SetupParts, SetupOK
<1>5. p.at = "post" /\ p.act = "setup" /\ p.update = u /\ p \in Ops(drawn)
  <2>1. PICK tries \in Nat :
          p = [at |-> "post", act |-> "setup", update |-> u, tries |-> tries]
    BY <1>2, PostParts
  <2> HIDE DEF u, p
  <2> QED
    BY <1>4, <2>1 DEF Ops, Acts
<1>6. file[m].setup = <<u>>
  BY <1>3
<1> HIDE DEF u, p
<1>7. op'[m] = p /\ op' \in [Machines -> Ops(drawn)] /\ \A n \in Machines \ {m} : op'[n] = op[n]
  BY <1>1, <1>2, <1>5
<1>8. Typed'
  BY <1>1, <1>2, <1>7 DEF Typed, Holdable, service, history
<1>9. FileInv(m)' /\ (Posting(m) => WriteOK(U(m)))'
  <2>1. FileInv(m)
    BY <1>2 DEF PinsInv
  <2> QED
    BY <1>1, <1>4, <1>5, <1>6, <1>7, <2>1 DEF FileInv, Posting, U, Unacknowledged
<1>10. PinsInv'
  <2>1. Outside' /\ OwnIds'
    BY <1>1, <1>2 DEF PinsInv, Outside, OwnIds, service
  <2>2. \A n \in Machines \ {m} : (FileInv(n) /\ (Posting(n) => WriteOK(U(n))))'
    BY <1>1, <1>2, <1>7, FileKept
  <2> QED
    BY <1>8, <1>9, <2>1, <2>2 DEF PinsInv
<1>11. AccountKept'
  <2> SUFFICES ASSUME restores = 0 PROVE Unset'
    BY <1>1 DEF AccountKept, service
  <2>1. Unset
    BY <1>1 DEF IdentityInv, AccountKept
  <2> QED
    BY <1>1, <1>5, <1>7, <2>1 DEF Unset, history
<1> QED
  BY <1>10, <1>11 DEF IdentityInv

\* A setup that lost is discarded.
LEMMA DiscardKeeps ==
  ASSUME IdentityAssumption, IdentityInv, NEW m \in Machines, Discard(m)
  PROVE  IdentityInv'
<1>1. /\ record # NoRecord /\ At(m, "idle") /\ file[m] # NoFile /\ SetupConflict(file[m], record)
      /\ file' = [file EXCEPT ![m] = NoFile]
      /\ UNCHANGED <<service, receipts, op, drawn, history>>
  BY DEF Discard, Starts, Save
<1>2. /\ PinsInv /\ Typed /\ file \in [Machines -> {NoFile} \union Files(drawn)]
  BY DEF IdentityInv, PinsInv, Typed
<1>3. /\ file'[m] = NoFile /\ file' \in [Machines -> {NoFile} \union Files(drawn)]
      /\ \A n \in Machines \ {m} : file'[n] = file[n]
  BY <1>1, <1>2
<1>4. PinsInv'
  <2>1. Typed'
    BY <1>1, <1>2, <1>3 DEF Typed, Holdable, service, history
  <2>2. Outside'
    BY <1>1, <1>2 DEF PinsInv, Outside, service
  <2>3. OwnIds'
    BY <1>2, <1>3 DEF PinsInv, OwnIds
  <2>4. \A n \in Machines \ {m} : (FileInv(n) /\ (Posting(n) => WriteOK(U(n))))'
    BY <1>1, <1>2, <1>3, FileKept
  <2>5. (FileInv(m) /\ (Posting(m) => WriteOK(U(m))))'
    BY <1>1, <1>3 DEF FileInv, Posting, U, At
  <2> QED
    BY <2>1, <2>2, <2>3, <2>4, <2>5 DEF PinsInv
<1>5. AccountKept'
  <2> SUFFICES ASSUME restores = 0 PROVE (KeysInv /\ \A n \in Machines : MachineInv(n))'
    BY <1>1 DEF AccountKept, service
  <2>1. KeysInv /\ \A n \in Machines : MachineInv(n)
    BY <1>1 DEF IdentityInv, AccountKept
  <2>2. record' = record /\ Now' = Now /\ shown' = shown /\ opened' = opened /\ backedUp' = backedUp
        /\ requests' = requests /\ op' = op /\ drawn' = drawn
    BY <1>1 DEF service, history, Now
  <2>3. file[m].setup # <<>> /\ file[m].root # Now.root /\ file[m].recovery = file[m].root
    BY <1>1, <1>2, KeptSetup DEF SetupConflict, Now
  <2>4. Now.root \in shown \union {file'[n].recovery : n \in {j \in Machines : file'[j] # NoFile}}
    <3>1. ASSUME Now.root \notin shown, NEW n \in Machines, file[n] # NoFile,
                 Now.root = file[n].recovery
          PROVE  file'[n] # NoFile /\ file'[n].recovery = Now.root
      BY <1>3, <2>3, <3>1
    <3> QED
      BY <2>1, <3>1 DEF KeysInv
  <2>5. KeysInv'
    BY <2>1, <2>2, <2>4 DEF KeysInv, CurrentWrap, Readable
  <2>6. \A j \in Machines : Lost(j)' => Lost(j) /\ file'[j].id = file[j].id
    BY <1>3, <2>2 DEF Lost
  <2>7. \A n \in Machines \ {m} : MachineInv(n)'
    BY <1>3, <2>1, <2>2, <2>6, MachineKept
  <2>8. MachineInv(m)'
    BY <1>1, <1>3, <2>2 DEF MachineInv, Lost, At
  <2> QED
    BY <2>5, <2>7, <2>8
<1> QED
  BY <1>4, <1>5 DEF IdentityInv

\* A machine whose step ends, or that is to make its write again.
LEMMA DropKeeps ==
  ASSUME IdentityAssumption, IdentityInv, NEW m \in Machines,
         UNCHANGED <<service, file, receipts, drawn, history>>,
         NEW o \in Ops(drawn), o.at \in {"idle", "again"},
         o.at = "again" => op[m].at = "post" /\ op[m].act # "setup",
         op' = [op EXCEPT ![m] = o]
  PROVE  IdentityInv'
<1>1. /\ PinsInv /\ Typed /\ op \in [Machines -> Ops(drawn)]
  BY DEF IdentityInv, PinsInv, Typed
<1>2. /\ op'[m] = o /\ op' \in [Machines -> Ops(drawn)]
      /\ \A n \in Machines \ {m} : op'[n] = op[n]
  BY <1>1
<1>3. /\ record' = record /\ Now' = Now /\ shown' = shown /\ opened' = opened
      /\ backedUp' = backedUp
      /\ requests' = requests /\ file' = file /\ drawn' = drawn /\ copy' = copy
      /\ restores' = restores
      /\ receipts' = receipts
  BY DEF service, history, Now
<1>4. PinsInv'
  <2>1. Typed'
    BY <1>1, <1>2, <1>3 DEF Typed, Holdable
  <2>2. Outside' /\ OwnIds'
    BY <1>1, <1>3 DEF PinsInv, Outside, OwnIds
  <2>3. \A n \in Machines \ {m} : (FileInv(n) /\ (Posting(n) => WriteOK(U(n))))'
    BY <1>1, <1>2, <1>3, FileKept
  <2>4. (FileInv(m) /\ (Posting(m) => WriteOK(U(m))))'
    <3>1. FileInv(m)
      BY <1>1 DEF PinsInv
    <3>2. ~Posting(m)' /\ op'[m].at \notin {"ask", "post", "answered"}
      BY <1>2 DEF Posting
    <3>3. op[m].at # "idle" \/ op'[m].at = "idle"
      BY <1>2
    <3> QED
      BY <1>2, <1>3, <3>1, <3>2, <3>3 DEF FileInv, Unacknowledged
  <2> QED
    BY <2>1, <2>2, <2>3, <2>4 DEF PinsInv
<1>5. AccountKept'
  <2>1. ASSUME restores = 0, record = NoRecord PROVE Unset'
    <3>1. Unset
      BY <2>1 DEF IdentityInv, AccountKept
    <3>2. op'[m].at = "idle"
      BY <1>2, <3>1 DEF Unset
    <3> QED
      BY <1>2, <1>3, <3>1, <3>2 DEF Unset
  <2>2. ASSUME restores = 0, record # NoRecord
        PROVE  KeysInv' /\ \A n \in Machines : MachineInv(n)'
    <3>1. KeysInv /\ \A n \in Machines : MachineInv(n)
      BY <2>2 DEF IdentityInv, AccountKept
    <3>2. KeysInv'
      BY <1>3, <3>1 DEF KeysInv, CurrentWrap, Readable
    <3>3. \A j \in Machines : Lost(j)' => Lost(j) /\ file'[j].id = file[j].id
      BY <1>3 DEF Lost
    <3>4. \A n \in Machines \ {m} : MachineInv(n)'
      BY <1>2, <1>3, <3>1, <3>3, MachineKept
    <3>5. MachineInv(m)'
      <4>1. Lost(m)' => Lost(m) /\ op'[m].at = "idle"
        BY <1>2, <3>1, <3>3 DEF MachineInv
      <4> QED
        BY <1>2, <1>3, <3>1, <4>1 DEF MachineInv, SameHead, Lost
    <3> QED
      BY <3>2, <3>4, <3>5
  <2> QED
    BY <1>3, <2>1, <2>2 DEF AccountKept
<1> QED
  BY <1>4, <1>5 DEF IdentityInv

\* A write that is refused.
LEMMA RefusedKeeps ==
  ASSUME IdentityAssumption, IdentityInv, NEW m \in Machines, RefusedWrite(m)
  PROVE  IdentityInv'
<1> DEFINE o == IF op[m].act = "sync" /\ ~Current(op[m].update) /\ op[m].tries < 3
                THEN [at |-> "again", tries |-> op[m].tries] ELSE Idle
<1>1. op \in [Machines -> Ops(drawn)] /\ op[m].at = "post"
  BY DEF IdentityInv, PinsInv, Typed, RefusedWrite, At
<1>2. op' = [op EXCEPT ![m] = o] /\ UNCHANGED <<service, file, receipts, drawn, history>>
  BY <1>1 DEF RefusedWrite
<1>3. o \in Ops(drawn) /\ o.at \in {"idle", "again"} /\ (o.at = "again" => op[m].act # "setup")
  <2>1. op[m].tries \in Nat
    BY <1>1 DEF Ops
  <2>2. [at |-> "again", tries |-> op[m].tries] \in Ops(drawn) /\ Idle \in Ops(drawn)
        /\ [at |-> "again", tries |-> op[m].tries].at = "again" /\ Idle.at = "idle"
    BY <2>1 DEF Ops, Idle
  <2> QED
    BY <2>2
<1> HIDE DEF o
<1> QED
  BY <1>1, <1>2, <1>3, DropKeeps

\* A process that dies, or an answer that is lost.
LEMMA FailsKeeps ==
  ASSUME IdentityAssumption, IdentityInv, NEW m \in Machines, Fails(m)
  PROVE  IdentityInv'
<1>1. Idle \in Ops(drawn) /\ Idle.at = "idle"
  BY DEF Ops, Idle
<1>2. op' = [op EXCEPT ![m] = Idle] /\ UNCHANGED <<service, file, receipts, drawn, history>>
  BY DEF Fails, Stop
<1> QED
  BY <1>1, <1>2, DropKeeps

\* A request that is listed.
LEMMA RequestStoredKeeps ==
  ASSUME IdentityAssumption, IdentityInv, NEW m \in Machines, RequestStored(m)
  PROVE  IdentityInv'
<1>1. /\ op[m].at = "ask" /\ op' = [op EXCEPT ![m] = Idle]
      /\ requests' = (IF record # NoRecord /\ file[m].id \notin Devices(State(record))
                      THEN requests \union {file[m].id} ELSE requests)
      /\ UNCHANGED <<record, copy, restores, file, receipts, drawn, history>>
  BY DEF RequestStored, At, Stop
<1>2. /\ PinsInv /\ Typed /\ op \in [Machines -> Ops(drawn)]
  BY DEF IdentityInv, PinsInv, Typed
<1>3. /\ op'[m] = Idle /\ Idle.at = "idle" /\ op' \in [Machines -> Ops(drawn)]
      /\ \A n \in Machines \ {m} : op'[n] = op[n]
  <2>1. Idle \in Ops(drawn) /\ Idle.at = "idle"
    BY DEF Ops, Idle
  <2> QED
    BY <1>1, <1>2, <2>1
<1>4. /\ record' = record /\ Now' = Now /\ shown' = shown /\ opened' = opened
      /\ backedUp' = backedUp
      /\ file' = file /\ drawn' = drawn /\ copy' = copy /\ restores' = restores
      /\ receipts' = receipts
  BY <1>1 DEF history, Now
<1>5. file[m] # NoFile /\ file[m].setup = <<>> /\ file[m].id \in 1 .. drawn
  <2>1. FileInv(m)
    BY <1>2 DEF PinsInv
  <2>2. file[m] # NoFile /\ file[m].setup = <<>>
    BY <1>1, <2>1 DEF FileInv
  <2> QED
    BY <1>2, <2>2 DEF Typed, Files
<1>6. PinsInv'
  <2>1. Typed'
    <3>1. requests' \subseteq 1 .. drawn
      BY <1>1, <1>2, <1>5 DEF Typed
    <3> QED
      BY <1>2, <1>3, <1>4, <3>1 DEF Typed, Holdable
  <2>2. Outside' /\ OwnIds'
    BY <1>1, <1>2, <1>4, <1>5 DEF PinsInv, Outside, OwnIds
  <2>3. \A n \in Machines \ {m} : (FileInv(n) /\ (Posting(n) => WriteOK(U(n))))'
    BY <1>2, <1>3, <1>4, FileKept
  <2>4. (FileInv(m) /\ (Posting(m) => WriteOK(U(m))))'
    <3>1. FileInv(m)
      BY <1>2 DEF PinsInv
    <3> QED
      BY <1>3, <1>4, <3>1 DEF FileInv, Posting, Unacknowledged
  <2> QED
    BY <2>1, <2>2, <2>3, <2>4 DEF PinsInv
<1>7. AccountKept'
  <2>1. ASSUME restores = 0, record = NoRecord PROVE Unset'
    BY <1>1, <2>1 DEF IdentityInv, AccountKept, Unset
  <2>2. ASSUME restores = 0, record # NoRecord
        PROVE  KeysInv' /\ \A n \in Machines : MachineInv(n)'
    <3>1. KeysInv /\ \A n \in Machines : MachineInv(n)
      BY <2>2 DEF IdentityInv, AccountKept
    <3>2. KeysInv'
      BY <1>4, <3>1 DEF KeysInv, CurrentWrap, Readable
    <3>3. \A j \in Machines : (Lost(j)' => Lost(j)) /\ (Lost(j) => j # m)
      BY <1>4, <1>5, <3>1 DEF Lost, MachineInv
    <3>4. \A n \in Machines : Lost(n) /\ file[n].id \in requests' => file[n].id \in requests
      BY <1>1, <1>2, <1>5, <3>3 DEF PinsInv, OwnIds, Lost
    <3>5. \A n \in Machines \ {m} : MachineInv(n)'
      BY <1>3, <1>4, <3>1, <3>3, <3>4, MachineKept
    <3>6. MachineInv(m)'
      BY <1>3, <1>4, <3>1, <3>3 DEF MachineInv, SameHead, Lost
    <3> QED
      BY <3>2, <3>5, <3>6
  <2> QED
    BY <1>4, <2>1, <2>2 DEF AccountKept
<1> QED
  BY <1>6, <1>7 DEF IdentityInv

\* Steps of nobody's: a link is published, the disk is copied or restored.
LEMMA AroundKeeps ==
  ASSUME IdentityAssumption, IdentityInv,
         \/ \E m \in Machines, l \in Links : Publish(m, l)
         \/ Copy \/ Restore \/ UNCHANGED vars
  PROVE  IdentityInv'
<1>1. /\ file' = file /\ op' = op /\ drawn' = drawn /\ shown' = shown /\ opened' = opened
      /\ backedUp' = backedUp
      /\ (record' = record /\ requests' = requests /\ restores' = restores)
           \/ (record' = copy /\ requests' = {}
              /\ restores < MaxRestores /\ restores' = restores + 1)
      /\ copy' \in {copy, record}
  BY DEF Publish, Copy, Restore, vars, service, history
<1>2. receipts' \in [Machines -> SUBSET Links]
  <2>1. receipts \in [Machines -> SUBSET Links]
    BY DEF IdentityInv, PinsInv, Typed
  <2> QED
    BY <2>1 DEF Publish, Copy, Restore, vars
<1>3. PinsInv /\ Typed
  BY DEF IdentityInv, PinsInv
<1>4. PinsInv'
  <2>1. Typed'
    <3>1. restores' \in 0 .. MaxRestores
      BY <1>1, <1>3 DEF Typed, IdentityAssumption
    <3>2. Holdable(record)' /\ Holdable(copy)'
      BY <1>1, <1>3 DEF Typed, Holdable
    <3>3. requests' \subseteq 1 .. drawn
      BY <1>1, <1>3 DEF Typed
    <3> QED
      BY <1>1, <1>2, <1>3, <3>1, <3>2, <3>3 DEF Typed
  <2>2. Outside' /\ OwnIds'
    BY <1>1, <1>3 DEF PinsInv, Outside, OwnIds
  <2>3. \A n \in Machines : (FileInv(n) /\ (Posting(n) => WriteOK(U(n))))'
    BY <1>1, <1>3, FileKept
  <2> QED
    BY <2>1, <2>2, <2>3 DEF PinsInv
<1>5. AccountKept'
  <2> SUFFICES ASSUME restores' = 0 PROVE AccountKept'
    BY DEF AccountKept
  <2>1. restores = 0 /\ record' = record /\ requests' = requests /\ Now' = Now
    BY <1>1, <1>3 DEF Typed, Now
  <2>2. ASSUME record = NoRecord PROVE Unset'
    BY <1>1, <2>1, <2>2 DEF IdentityInv, AccountKept, Unset
  <2>3. ASSUME record # NoRecord PROVE KeysInv' /\ \A n \in Machines : MachineInv(n)'
    <3>1. KeysInv /\ \A n \in Machines : MachineInv(n)
      BY <2>1, <2>3 DEF IdentityInv, AccountKept
    <3>2. KeysInv'
      BY <1>1, <2>1, <3>1 DEF KeysInv, CurrentWrap, Readable
    <3>3. \A j \in Machines : Lost(j)' => Lost(j) /\ file'[j].id = file[j].id
      BY <1>1, <2>1 DEF Lost
    <3>4. \A n \in Machines : MachineInv(n)'
      BY <1>1, <2>1, <3>1, <3>3, MachineKept
    <3> QED
      BY <3>2, <3>4
  <2> QED
    BY <2>1, <2>2, <2>3 DEF AccountKept
<1> QED
  BY <1>4, <1>5 DEF IdentityInv

-----------------------------------------------------------------------------
(* Answers.                                                                *)

\* What a device file holds after an acknowledged write.
LEMMA WroteParts ==
  ASSUME NEW n \in Nat, NEW f \in Files(n), NEW u \in Updates(n),
         f.head = u.expectedHead, u.vault.head = u.expectedHead \o u.event
  PROVE  LET g == Wrote(f, u)
         IN  /\ g \in Files(n) /\ g # NoFile /\ g.id = f.id /\ g.root = f.root
             /\ g.recovery = f.recovery /\ g.setup = f.setup
             /\ g.head = u.vault.head /\ g.revision = u.expectedRevision + 1
<1> DEFINE g == Wrote(f, u)
           b == IF u.event = NoEvent THEN f.head ELSE u.vault.head
           c == u.expectedRevision + 1
<1>1. u.expectedHead \in Seq(States(n)) /\ u.event \in Seq(States(n)) /\ u.expectedRevision \in Nat
  BY DEF Updates
<1>2. b = u.vault.head
  <2>1. CASE u.event = NoEvent
    <3>1. u.expectedHead \o u.event = u.expectedHead
      BY <1>1, <2>1 DEF NoEvent
    <3> QED
      BY <2>1, <3>1
  <2>2. CASE u.event # NoEvent
    BY <2>2
  <2> QED
    BY <2>1, <2>2
<1>3. b \in Seq(States(n)) /\ c \in Nat
  BY <1>1, <1>2
<1>4. g = [f EXCEPT !.head = b, !.revision = c]
  BY DEF Wrote
<1> HIDE DEF g, b, c
<1>5. /\ g \in Files(n) /\ g.id = f.id /\ g.root = f.root
      /\ g.recovery = f.recovery /\ g.setup = f.setup /\ g.head = b /\ g.revision = c
  BY <1>3, <1>4 DEF Files
<1>6. g # NoFile
  <2>1. "root" \in DOMAIN g /\ "root" \notin DOMAIN NoFile
    BY <1>5 DEF Files, NoFile
  <2> QED
    BY <2>1
<1> QED
  BY <1>2, <1>5, <1>6 DEF g, c

\* The answer to a write.
LEMMA AcknowledgedKeeps ==
  ASSUME IdentityAssumption, LimitAssumption, IdentityInv, NEW m \in Machines, Acknowledged(m)
  PROVE  IdentityInv'
<1> DEFINE g == Wrote(file[m], U(m))
<1>1. /\ op[m].at = "answered" /\ op[m].act # "setup" /\ file' = [file EXCEPT ![m] = g]
      /\ backedUp' = backedUp \union U(m).vault.links /\ op' = [op EXCEPT ![m] = Idle]
      /\ UNCHANGED <<service, receipts, drawn, shown, opened>>
  BY DEF Acknowledged, At, Save, Stop, U
<1>2. /\ PinsInv /\ Typed /\ op \in [Machines -> Ops(drawn)] /\ drawn \in Nat
      /\ file \in [Machines -> {NoFile} \union Files(drawn)] /\ FileInv(m)
  BY DEF IdentityInv, PinsInv, Typed, IdentityAssumption
<1>3. /\ file[m] # NoFile /\ file[m].setup = <<>> /\ file[m].head = U(m).expectedHead
      /\ file[m].revision = U(m).expectedRevision /\ file[m].revision <= MaxRevision
      /\ U(m).vault.head = U(m).expectedHead \o U(m).event /\ Len(U(m).vault.head) <= MaxEvents
      /\ Len(file[m].head) \in 1 .. MaxEvents /\ file[m].revision \in 1 .. MaxRevision + 1
  BY <1>1, <1>2 DEF FileInv, Posting
<1>4. file[m] \in Files(drawn) /\ U(m) \in Updates(drawn)
  <2>1. op[m] \in Ops(drawn)
    BY <1>2
  <2> QED
    BY <1>1, <1>2, <1>3, <2>1 DEF Ops, U
<1>5. /\ g \in Files(drawn) /\ g # NoFile /\ g.id = file[m].id /\ g.root = file[m].root
      /\ g.recovery = file[m].recovery /\ g.setup = <<>>
      /\ g.head = U(m).vault.head /\ g.revision = U(m).expectedRevision + 1
  <2> HIDE DEF g
  <2> QED
    BY <1>2, <1>3, <1>4, WroteParts DEF g
<1> HIDE DEF g
<1>6. /\ op'[m] = Idle /\ Idle.at = "idle" /\ op' \in [Machines -> Ops(drawn)]
      /\ file'[m] = g /\ file' \in [Machines -> {NoFile} \union Files(drawn)]
      /\ \A n \in Machines \ {m} : op'[n] = op[n] /\ file'[n] = file[n]
  <2>1. Idle \in Ops(drawn) /\ Idle.at = "idle"
    BY DEF Ops, Idle
  <2> QED
    BY <1>1, <1>2, <1>5, <2>1
<1>7. /\ record' = record /\ Now' = Now /\ shown' = shown /\ opened' = opened
      /\ drawn' = drawn /\ copy' = copy /\ restores' = restores
      /\ receipts' = receipts /\ requests' = requests
  BY <1>1 DEF service, Now
<1>8. U(m).vault.links \subseteq Links
  <2>1. U(m).vault \in Vaults(drawn)
    BY <1>4 DEF Updates
  <2> QED
    BY <2>1 DEF Vaults
<1>9. PinsInv'
  <2>1. Typed'
    BY <1>1, <1>2, <1>6, <1>7, <1>8 DEF Typed, Holdable
  <2>2. Outside'
    BY <1>2, <1>7 DEF PinsInv, Outside
  <2>3. OwnIds'
    BY <1>2, <1>3, <1>5, <1>6 DEF PinsInv, OwnIds
  <2>4. \A n \in Machines \ {m} : (FileInv(n) /\ (Posting(n) => WriteOK(U(n))))'
    BY <1>2, <1>6, FileKept
  <2>5. (FileInv(m) /\ (Posting(m) => WriteOK(U(m))))'
    <3>1. Len(g.head) \in 1 .. MaxEvents
      <4>1. U(m).expectedHead \in Seq(States(drawn)) /\ U(m).event \in Seq(States(drawn))
        BY <1>4 DEF Updates
      <4>2. Len(U(m).vault.head) = Len(U(m).expectedHead) + Len(U(m).event)
            /\ Len(U(m).event) \in Nat /\ Len(U(m).expectedHead) \in Nat
        BY <1>3, <4>1
      <4>3. Len(U(m).expectedHead) >= 1
        BY <1>3
      <4> DEFINE a == Len(U(m).expectedHead)
                 b == Len(U(m).event)
                 c == Len(U(m).vault.head)
      <4>4. a \in Nat /\ b \in Nat /\ c = a + b /\ a >= 1 /\ c <= MaxEvents /\ MaxEvents \in Nat
        BY <1>3, <4>2, <4>3 DEF LimitAssumption
      <4>5. Len(g.head) = c
        BY <1>5
      <4> HIDE DEF a, b, c
      <4>6. c \in 1 .. MaxEvents
        BY <4>4
      <4> QED
        BY <4>5, <4>6
    <3>2. g.revision \in 1 .. MaxRevision + 1
      BY <1>3, <1>5 DEF IdentityAssumption
    <3> QED
      BY <1>5, <1>6, <3>1, <3>2 DEF FileInv, Posting
  <2> QED
    BY <2>1, <2>2, <2>3, <2>4, <2>5 DEF PinsInv
<1>10. AccountKept'
  <2>1. ASSUME restores = 0, record = NoRecord PROVE FALSE
    BY <1>1, <2>1 DEF IdentityInv, AccountKept, Unset
  <2>2. ASSUME restores = 0, record # NoRecord
        PROVE  KeysInv' /\ \A n \in Machines : MachineInv(n)'
    <3>1. KeysInv /\ \A n \in Machines : MachineInv(n)
      BY <2>2 DEF IdentityInv, AccountKept
    <3>2. /\ Prefix(U(m).vault.head, record.events)
          /\ U(m).expectedRevision < record.vault.revision
          /\ U(m).vault.links \subseteq record.vault.links
          /\ file[m].root = Now.root /\ file[m].recovery \in {None, Now.root}
      BY <1>1, <1>3, <3>1 DEF MachineInv, Lost
    <3>3. KeysInv'
      <4>1. {file'[n].recovery : n \in {j \in Machines : file'[j] # NoFile}} =
              {file[n].recovery : n \in {j \in Machines : file[j] # NoFile}}
        <5>1. \A n \in Machines : file'[n].recovery = file[n].recovery
                                  /\ (file'[n] # NoFile <=> file[n] # NoFile)
          BY <1>3, <1>5, <1>6
        <5> QED
          BY <5>1
      <4> QED
        BY <1>1, <1>7, <3>1, <3>2, <4>1 DEF KeysInv, CurrentWrap, Readable
    <3>4. \A j \in Machines : Lost(j)' => Lost(j) /\ file'[j].id = file[j].id
      BY <1>3, <1>5, <1>6, <1>7 DEF Lost
    <3>5. \A n \in Machines \ {m} : MachineInv(n)'
      BY <1>6, <1>7, <3>1, <3>4, MachineKept
    <3>6. MachineInv(m)'
      <4>1. SameHead(g, record) /\ Len(g.head) <= Len(record.events)
        BY <1>5, <3>2 DEF SameHead, Prefix
      <4>2. g.revision <= record.vault.revision
        <5>1. U(m).expectedRevision \in Nat /\ record.vault.revision \in Nat
          BY <1>2, <1>4, <2>2, HeldRecord, RecordParts DEF Updates
        <5> QED
          BY <1>5, <3>2, <5>1
      <4>3. ~Lost(m)'
        BY <1>5, <1>6, <1>7, <3>2 DEF Lost
      <4> QED
        BY <1>5, <1>6, <1>7, <3>2, <4>1, <4>2, <4>3 DEF MachineInv, SameHead
    <3> QED
      BY <3>3, <3>5, <3>6
  <2> QED
    BY <1>7, <2>1, <2>2 DEF AccountKept
<1> QED
  BY <1>9, <1>10 DEF IdentityInv

\* The answer to a setup.
LEMMA SetupAnsweredKeeps ==
  ASSUME IdentityAssumption, LimitAssumption, IdentityInv, NEW m \in Machines, SetupAnswered(m)
  PROVE  IdentityInv'
<1> DEFINE rec == After(NoRecord, U(m))
           g == Pinned(file[m], rec)
<1>1. /\ op[m].at = "answered" /\ op[m].act = "setup" /\ file' = [file EXCEPT ![m] = g]
      /\ PinHolds(file[m], rec) /\ shown' = shown \union {file[m].recovery}
      /\ opened' = opened \union {<<file[m].id, rec.vault.key>>}
      /\ backedUp' = backedUp \union rec.vault.links /\ op' = [op EXCEPT ![m] = Idle]
      /\ UNCHANGED <<service, receipts, drawn>>
  BY DEF SetupAnswered, At, Save, Stop, U
<1>2. /\ PinsInv /\ Typed /\ op \in [Machines -> Ops(drawn)] /\ drawn \in Nat
      /\ file \in [Machines -> {NoFile} \union Files(drawn)]
  BY DEF IdentityInv, PinsInv, Typed, IdentityAssumption
<1>3. PICK S \in SUBSET Links : U(m) = SetupWrite(file[m].id, file[m].root, S)
  BY <1>1, <1>2, SetupSent DEF Posting
<1>4. /\ file[m] # NoFile /\ file[m].setup # <<>> /\ file[m].id \in 1 .. drawn
      /\ file[m].root \in 1 .. drawn /\ file[m].recovery = file[m].root
  BY <1>1, <1>2, SetupSent, KeptSetup DEF Posting
<1> DEFINE h == <<First(file[m].id, file[m].root)>>
<1>5. /\ rec = [events |-> h, vault |-> U(m).vault] /\ h \in Seq(States(drawn)) /\ Len(h) = 1
      /\ U(m).vault \in Vaults(drawn) /\ U(m).vault.revision = 1
      /\ U(m).vault.key = file[m].root /\ U(m).vault.links \in SUBSET Links
  <2>1. First(file[m].id, file[m].root) \in States(drawn)
    BY <1>2, <1>3, <1>4, SetupParts
  <2> QED
    BY <1>2, <1>3, <1>4, <2>1, SetupParts
<1>6. rec \in Records(drawn) /\ RecordOK(rec)
  <2>1. RecordOK(rec)
    BY <1>2, <1>3, <1>4, SetupOK
  <2>2. rec \in Records(drawn)
    <3> HIDE DEF rec, h
    <3> QED
      BY <1>5 DEF Records
  <2> QED
    BY <2>1, <2>2
<1>7. rec.events = h /\ rec.vault = U(m).vault
  <2> HIDE DEF rec, h
  <2> QED
    BY <1>5
<1> HIDE DEF rec, h
<1>8. /\ g \in Files(drawn) /\ g.id = file[m].id /\ g.recovery = file[m].recovery
      /\ g.root = State(rec).root /\ g.head = h /\ g.revision = 1 /\ g.setup = <<>>
  <2>1. file[m] \in Unpinned(drawn)
    BY <1>2, <1>4, FileParts
  <2> HIDE DEF g
  <2> QED
    BY <1>2, <1>5, <1>6, <1>7, <2>1, PinnedParts DEF g
<1>9. g # NoFile
  <2>1. "root" \in DOMAIN g /\ "root" \notin DOMAIN NoFile
    BY <1>8 DEF Files, NoFile
  <2> QED
    BY <2>1
<1> HIDE DEF g
<1>10. /\ op'[m] = Idle /\ Idle.at = "idle" /\ op' \in [Machines -> Ops(drawn)]
       /\ file'[m] = g /\ file' \in [Machines -> {NoFile} \union Files(drawn)]
       /\ \A n \in Machines \ {m} : op'[n] = op[n] /\ file'[n] = file[n]
  <2>1. Idle \in Ops(drawn) /\ Idle.at = "idle"
    BY DEF Ops, Idle
  <2> QED
    BY <1>1, <1>2, <1>8, <2>1
<1>11. /\ record' = record /\ Now' = Now /\ requests' = requests
       /\ drawn' = drawn /\ copy' = copy /\ restores' = restores /\ receipts' = receipts
  BY <1>1 DEF service, Now
<1>12. PinsInv'
  <2>1. Typed'
    <3>1. shown' \subseteq 1 .. drawn
      BY <1>1, <1>2, <1>4 DEF Typed
    <3>2. opened' \subseteq (1 .. drawn) \X (1 .. drawn)
      <4>1. <<file[m].id, rec.vault.key>> \in (1 .. drawn) \X (1 .. drawn)
        BY <1>4, <1>5, <1>7
      <4>2. opened \subseteq (1 .. drawn) \X (1 .. drawn)
        BY <1>2 DEF Typed
      <4> QED
        BY <1>1, <4>1, <4>2
    <3>3. backedUp' \subseteq Links
      <4>1. rec.vault.links \subseteq Links /\ backedUp \subseteq Links
        BY <1>2, <1>5, <1>7 DEF Typed
      <4> QED
        BY <1>1, <4>1
    <3> QED
      BY <1>2, <1>10, <1>11, <3>1, <3>2, <3>3 DEF Typed, Holdable
  <2>2. Outside'
    BY <1>2, <1>11 DEF PinsInv, Outside
  <2>3. OwnIds'
    BY <1>2, <1>4, <1>8, <1>10 DEF PinsInv, OwnIds
  <2>4. \A n \in Machines \ {m} : (FileInv(n) /\ (Posting(n) => WriteOK(U(n))))'
    BY <1>2, <1>10, FileKept
  <2>5. (FileInv(m) /\ (Posting(m) => WriteOK(U(m))))'
    <3>1. 1 \in 1 .. MaxEvents /\ 1 \in 1 .. MaxRevision + 1
      BY DEF LimitAssumption, IdentityAssumption
    <3> QED
      BY <1>5, <1>8, <1>9, <1>10, <3>1 DEF FileInv, Posting
  <2> QED
    BY <2>1, <2>2, <2>3, <2>4, <2>5 DEF PinsInv
<1>13. AccountKept'
  <2>1. ASSUME restores = 0, record = NoRecord PROVE FALSE
    BY <1>1, <2>1 DEF IdentityInv, AccountKept, Unset
  <2>2. ASSUME restores = 0, record # NoRecord
        PROVE  KeysInv' /\ \A n \in Machines : MachineInv(n)'
    <3>1. KeysInv /\ \A n \in Machines : MachineInv(n)
      BY <2>2 DEF IdentityInv, AccountKept
    <3>2. Devices(Now) = {file[m].id} /\ Now.root = file[m].root /\ shown = {} /\ record = rec
      BY <1>1, <1>2, <3>1, AnsweredSetup DEF MachineInv, rec
    <3>3. KeysInv'
      <4>1. {file'[n].recovery : n \in {j \in Machines : file'[j] # NoFile}} =
              {file[n].recovery : n \in {j \in Machines : file[j] # NoFile}}
        <5>1. \A n \in Machines : file'[n].recovery = file[n].recovery
                                  /\ (file'[n] # NoFile <=> file[n] # NoFile)
          BY <1>4, <1>8, <1>9, <1>10
        <5> QED
          BY <5>1
      <4>2. shown' = {Now.root}
        BY <1>1, <1>4, <3>2
      <4>3. \A held \in opened' :
              held[1] \in Devices(Now) \/ held[2] \notin {record.vault.key, Now.inbox}
        BY <1>1, <3>1, <3>2 DEF KeysInv
      <4>4. backedUp' \subseteq record.vault.links
        BY <1>1, <3>1, <3>2 DEF KeysInv
      <4> QED
        BY <1>11, <3>1, <4>1, <4>2, <4>3, <4>4 DEF KeysInv, CurrentWrap, Readable
    <3>4. \A j \in Machines : Lost(j)' => Lost(j) /\ file'[j].id = file[j].id
      BY <1>4, <1>8, <1>9, <1>10, <1>11, <3>2 DEF Lost, Now
    <3>5. ASSUME NEW n \in Machines \ {m} PROVE MachineInv(n)'
      <4>1. ~(op[n].at = "answered" /\ op[n].act = "setup")
        <5> SUFFICES ASSUME op[n].at = "answered", op[n].act = "setup" PROVE FALSE
          OBVIOUS
        <5>1. Devices(Now) = {file[n].id} /\ file[n] # NoFile
          BY <1>2, <3>1, AnsweredSetup
        <5>2. file[n].id = file[m].id
          BY <3>2, <5>1
        <5> QED
          BY <1>2, <1>4, <5>1, <5>2 DEF PinsInv, OwnIds
      <4>2. \A held \in opened' \ opened :
              held[2] \in {record.vault.key} \union record.vault.inboxes
        BY <1>1, <3>2
      <4> QED
        BY <1>1, <1>10, <1>11, <3>1, <3>4, <4>1, <4>2, MachineKept
    <3>6. MachineInv(m)'
      <4>1. ~Lost(m)'
        BY <1>8, <1>10, <1>11, <3>2 DEF Lost, Now
      <4>2. h = SubSeq(h, 1, Len(h))
        BY <1>5
      <4> QED
        BY <1>4, <1>5, <1>7, <1>8, <1>10, <1>11, <3>2, <4>1, <4>2 DEF MachineInv, SameHead
    <3> QED
      BY <3>3, <3>5, <3>6
  <2> QED
    BY <1>11, <2>1, <2>2 DEF AccountKept
<1> QED
  BY <1>12, <1>13 DEF IdentityInv

-----------------------------------------------------------------------------
(* A write the service takes.                                              *)

\* Where a write made of the record the service holds leads: the state goes on from the one it
\* was made of, every wrapper opens the vault, and the change is one an account may make.
Follows(m, new) ==
  LET v == U(m).vault
      wrap == [key |-> v.key, epoch |-> new.epoch]
  IN  /\ (U(m).event = NoEvent /\ new = Now) \/ U(m).event = <<new>>
      /\ new \in States(drawn) /\ new.root = Now.root
      /\ v.revision = record.vault.revision + 1 /\ v.inboxes = Inboxes(record, new)
      /\ record.vault.links \subseteq v.links
      /\ new.recoveryWrap = wrap /\ \A d \in Devices(new) : new.wraps[d] = wrap
      /\ new.inbox = None => Now.inbox = None
      /\ \A n \in Machines : Lost(n) => file[n].id \notin Devices(new)
      /\ \A held \in opened : held[1] \in Devices(new) \/ held[2] \notin {v.key, new.inbox}
      /\ \/ Devices(new) = Devices(Now) /\ v.key = record.vault.key
         \/ \E d \in (1 .. drawn) \ Devices(Now) :
              Devices(new) = Devices(Now) \union {d} /\ v.key = record.vault.key
         \/ \E d \in Devices(Now) :
              /\ Devices(Now) # {d} /\ Devices(new) = Devices(Now) \ {d}
              /\ Unused(v.key)

\* A write that leads to a state with a device more.
LEMMA EnrolledFollows ==
  ASSUME IdentityAssumption, Typed, record # NoRecord, KeysInv, NEW m \in Machines,
         NEW d \in (1 .. drawn) \ Devices(Now), NEW kind \in Kinds, NEW signer \in 0 .. drawn,
         NEW by,
         \A n \in Machines : Lost(n) => file[n].id \notin Devices(Now) \union {d},
         Writing(m, <<Enrolled(Now, d, record.vault.key, kind, signer)>>, record.vault.key, by)
  PROVE  \E new : Follows(m, new)
<1> DEFINE key == record.vault.key
           e == Enrolled(Now, d, key, kind, signer)
<1>1. /\ drawn \in Nat /\ Now \in States(drawn) /\ record.events \in Seq(States(drawn))
      /\ key \in 1 .. drawn
  BY HeldRecord, RecordParts
<1>2. /\ e \in States(drawn) /\ Devices(e) = Devices(Now) \union {d} /\ e.root = Now.root
      /\ e.epoch = Now.epoch /\ e.inbox = Now.inbox /\ e.recoveryWrap = Now.recoveryWrap
      /\ e.wraps[d] = Wrap(key, Now) /\ \A c \in Devices(Now) \ {d} : e.wraps[c] = Now.wraps[c]
  <2>1. d \in 1 .. drawn
    OBVIOUS
  <2>2. PICK n, s, k : n = drawn /\ s = Now /\ k = key
    OBVIOUS
  <2> HIDE DEF key
  <2>3. PICK new : new = Enrolled(s, d, k, kind, signer)
    OBVIOUS
  <2>4. new = e
    BY <2>2, <2>3 DEF e
  <2>5. /\ n \in Nat /\ s \in States(n) /\ d \in 1 .. n /\ k \in 1 .. n
        /\ kind \in Kinds /\ signer \in 0 .. n
    BY <1>1, <2>1, <2>2
  <2>6. /\ new \in States(n) /\ Devices(new) = Devices(s) \union {d}
        /\ new.root = s.root /\ new.epoch = s.epoch
        /\ new.inbox = s.inbox /\ new.recoveryWrap = s.recoveryWrap
        /\ new.wraps[d] = Wrap(k, s)
        /\ \A c \in Devices(s) \ {d} : new.wraps[c] = s.wraps[c]
    BY ONLY <2>3, <2>5, EnrolledParts
  <2> HIDE DEF e
  <2> QED
    BY <2>2, <2>4, <2>6
<1>3. PICK S \in SUBSET Links :
        record.vault.links \subseteq S /\ U(m) = Prepared(record, <<e>>, key, S, by)
  BY DEF Writing
<1> HIDE DEF e
<1>4. /\ U(m).event = <<e>> /\ U(m).vault.revision = record.vault.revision + 1
      /\ U(m).vault.key = key /\ U(m).vault.links = S /\ U(m).vault.inboxes = Inboxes(record, e)
  <2> DEFINE event == <<e>>
  <2>1. e = (record.events \o event)[Len(record.events \o event)]
    BY <1>1, <1>2
  <2>2. U(m) = Prepared(record, event, key, S, by)
    BY <1>3
  <2> HIDE DEF event, key
  <2>3. /\ U(m).event = event /\ U(m).vault.revision = record.vault.revision + 1
        /\ U(m).vault.key = key /\ U(m).vault.links = S
    BY ONLY <2>2, PreparedIs
  <2>4. U(m).vault.inboxes = Inboxes(record, e)
    <3>1. U(m).vault.inboxes =
            Inboxes(record, (record.events \o event)[Len(record.events \o event)])
      BY ONLY Zenon, <2>2, PreparedInboxes
    <3> QED
      BY ONLY <2>1, <3>1
  <2> QED
    BY <2>3, <2>4 DEF event
<1> DEFINE wrap == [key |-> U(m).vault.key, epoch |-> e.epoch]
<1>5. wrap = CurrentWrap /\ wrap = Wrap(key, Now)
  BY <1>2, <1>4 DEF CurrentWrap, Wrap
<1>6. e.recoveryWrap = wrap /\ \A c \in Devices(e) : e.wraps[c] = wrap
  <2> HIDE DEF wrap
  <2> QED
    BY <1>2, <1>5 DEF KeysInv
<1>7. \A held \in opened : held[1] \in Devices(e) \/ held[2] \notin {U(m).vault.key, e.inbox}
  BY <1>2, <1>4 DEF KeysInv
<1>8. Follows(m, e)
  <2> HIDE DEF key
  <2> QED
    BY <1>2, <1>3, <1>4, <1>6, <1>7 DEF Follows, key
<1> QED
  BY <1>8

\* A write that leads to a state with a device less.
LEMMA RevokedFollows ==
  ASSUME IdentityAssumption, Typed, record # NoRecord, KeysInv, NEW m \in Machines,
         NEW signer \in Devices(Now), NEW d \in Devices(Now) \ {signer},
         NEW k \in 1 .. drawn, Unused(k),
         \A n \in Machines : Lost(n) => file[n].id \notin Devices(Now),
         Writing(m, <<Revoked(Now, d, k, signer)>>, k, signer)
  PROVE  \E new : Follows(m, new)
<1> DEFINE e == Revoked(Now, d, k, signer)
           wrap == [key |-> k, epoch |-> Now.epoch + 1]
<1>1. /\ drawn \in Nat /\ Now \in States(drawn) /\ record.events \in Seq(States(drawn))
      /\ signer \in 0 .. drawn
  BY HeldRecord, RecordParts
<1>2. /\ e \in States(drawn) /\ Devices(e) = Devices(Now) \ {d} /\ e.root = Now.root
      /\ e.epoch = Now.epoch + 1 /\ e.recoveryWrap = wrap
      /\ \A c \in Devices(e) : e.wraps[c] = wrap
      /\ (Now.inbox = None => e.inbox = None) /\ (Now.inbox # None => e.inbox = k)
  <2> DEFINE s == Now
  <2>1. s \in States(drawn) /\ drawn \in Nat /\ k \in 1 .. drawn /\ signer \in 0 .. drawn
    BY <1>1
  <2>2. e = Revoked(s, d, k, signer) /\ wrap = [key |-> k, epoch |-> s.epoch + 1]
    OBVIOUS
  <2> HIDE DEF wrap, e, s
  <2>3. /\ e \in States(drawn) /\ Devices(e) = Devices(s) \ {d} /\ e.root = s.root
        /\ e.epoch = s.epoch + 1 /\ e.recoveryWrap = wrap
        /\ \A c \in Devices(e) : e.wraps[c] = wrap
        /\ (s.inbox = None => e.inbox = None) /\ (s.inbox # None => e.inbox = k)
    BY ONLY <2>1, <2>2, RevokedParts
  <2> QED
    BY <2>3 DEF s
<1>3. PICK S \in SUBSET Links :
        record.vault.links \subseteq S /\ U(m) = Prepared(record, <<e>>, k, S, signer)
  BY DEF Writing
<1> HIDE DEF e
<1>4. /\ U(m).event = <<e>> /\ U(m).vault.revision = record.vault.revision + 1
      /\ U(m).vault.key = k /\ U(m).vault.links = S /\ U(m).vault.inboxes = Inboxes(record, e)
  <2> DEFINE event == <<e>>
  <2>1. e = (record.events \o event)[Len(record.events \o event)]
    BY <1>1, <1>2
  <2>2. U(m) = Prepared(record, event, k, S, signer)
    BY <1>3
  <2> HIDE DEF event
  <2>3. /\ U(m).event = event /\ U(m).vault.revision = record.vault.revision + 1
        /\ U(m).vault.key = k /\ U(m).vault.links = S
    BY ONLY <2>2, PreparedIs
  <2>4. U(m).vault.inboxes = Inboxes(record, e)
    <3>1. U(m).vault.inboxes =
            Inboxes(record, (record.events \o event)[Len(record.events \o event)])
      BY ONLY Zenon, <2>2, PreparedInboxes
    <3> QED
      BY ONLY <2>1, <3>1
  <2> QED
    BY <2>3, <2>4 DEF event
<1>5. wrap = [key |-> U(m).vault.key, epoch |-> e.epoch]
  BY <1>2, <1>4
<1>6. \A held \in opened : held[2] \notin {U(m).vault.key, e.inbox}
  <2>1. \A held \in opened : held[2] # 0 /\ held[2] # k
    BY DEF Typed, Unused
  <2> QED
    BY <1>2, <1>4, <2>1 DEF None
<1>7. e.inbox = None => Now.inbox = None
  BY <1>2 DEF None
<1>8. Devices(Now) # {d} /\ U(m).vault.key = k
  BY <1>4
<1>9. Follows(m, e)
  <2> HIDE DEF wrap
  <2>1. e.recoveryWrap = wrap /\ \A c \in Devices(e) : e.wraps[c] = wrap
    BY <1>2
  <2>2. \A n \in Machines : Lost(n) => file[n].id \notin Devices(e)
    BY <1>2
  <2> QED
    BY <1>2, <1>3, <1>4, <1>5, <1>6, <1>7, <1>8, <2>1, <2>2 DEF Follows
<1> QED
  BY <1>9

\* A write that leads to a state with an incoming-share key.
LEMMA SharedFollows ==
  ASSUME IdentityAssumption, Typed, record # NoRecord, KeysInv, NEW m \in Machines,
         NEW signer \in Devices(Now), Now.inbox = None, NEW k \in 1 .. drawn, Unused(k),
         \A n \in Machines : Lost(n) => file[n].id \notin Devices(Now),
         Writing(m, <<Shared(Now, k, signer)>>, record.vault.key, signer)
  PROVE  \E new : Follows(m, new)
<1> DEFINE e == Shared(Now, k, signer)
           key == record.vault.key
<1>1. /\ drawn \in Nat /\ Now \in States(drawn) /\ record.events \in Seq(States(drawn))
      /\ signer \in 0 .. drawn /\ key \in 1 .. drawn
  BY HeldRecord, RecordParts
<1>2. /\ e \in States(drawn) /\ e.wraps = Now.wraps /\ e.root = Now.root
      /\ e.epoch = Now.epoch /\ e.recoveryWrap = Now.recoveryWrap /\ e.inbox = k
  <2> HIDE DEF e
  <2>1. e = Shared(Now, k, signer)
    BY DEF e
  <2> QED
    BY ONLY ZenonT(60), <1>1, <2>1, k \in 1 .. drawn, SharedParts
<1>3. PICK S \in SUBSET Links :
        record.vault.links \subseteq S /\ U(m) = Prepared(record, <<e>>, key, S, signer)
  BY DEF Writing
<1> HIDE DEF e
<1>4. /\ U(m).event = <<e>> /\ U(m).vault.revision = record.vault.revision + 1
      /\ U(m).vault.key = key /\ U(m).vault.links = S /\ U(m).vault.inboxes = Inboxes(record, e)
  <2> DEFINE event == <<e>>
  <2>1. e = (record.events \o event)[Len(record.events \o event)]
    BY <1>1, <1>2
  <2>2. U(m) = Prepared(record, event, key, S, signer)
    BY <1>3
  <2> HIDE DEF event, key
  <2>3. /\ U(m).event = event /\ U(m).vault.revision = record.vault.revision + 1
        /\ U(m).vault.key = key /\ U(m).vault.links = S
    BY ONLY <2>2, PreparedIs
  <2>4. U(m).vault.inboxes = Inboxes(record, e)
    <3>1. U(m).vault.inboxes =
            Inboxes(record, (record.events \o event)[Len(record.events \o event)])
      BY ONLY Zenon, <2>2, PreparedInboxes
    <3> QED
      BY ONLY <2>1, <3>1
  <2> QED
    BY <2>3, <2>4 DEF event
<1>5. Devices(e) = Devices(Now)
  BY <1>2 DEF Devices
<1> DEFINE wrap == [key |-> U(m).vault.key, epoch |-> e.epoch]
<1>6. wrap = CurrentWrap
  BY <1>2, <1>4 DEF CurrentWrap
<1>7. e.recoveryWrap = wrap /\ \A c \in Devices(e) : e.wraps[c] = wrap
  <2> HIDE DEF wrap
  <2> QED
    BY <1>2, <1>5, <1>6 DEF KeysInv
<1>8. \A held \in opened : held[1] \in Devices(e) \/ held[2] \notin {U(m).vault.key, e.inbox}
  BY <1>2, <1>4, <1>5 DEF KeysInv, Unused
<1>9. Follows(m, e)
  <2> HIDE DEF key
  <2> QED
    BY <1>2, <1>3, <1>4, <1>5, <1>7, <1>8 DEF Follows, key
<1> QED
  BY <1>9

\* Every write of the record the service holds leads somewhere.
LEMMA MadeFollows ==
  ASSUME IdentityAssumption, PinsInv, record # NoRecord, KeysInv,
         \A n \in Machines : MachineInv(n), NEW m \in Machines,
         op[m].at = "post", op[m].act # "setup", Made(m)
  PROVE  \E new : Follows(m, new)
<1>1. /\ Typed /\ drawn \in Nat /\ Now \in States(drawn) /\ Devices(Now) \subseteq 1 .. drawn
      /\ record.events \in Seq(States(drawn)) /\ record.vault.inboxes \subseteq 1 .. drawn
      /\ file[m] # NoFile /\ file[m].setup = <<>> /\ file[m].id \in 1 .. drawn
  <2>1. Typed /\ FileInv(m)
    BY DEF PinsInv
  <2>2. file[m] # NoFile /\ file[m].setup = <<>>
    BY <2>1 DEF FileInv, Posting
  <2>3. file[m].id \in 1 .. drawn
    BY <2>1, <2>2 DEF Typed, Files
  <2> QED
    BY <2>1, <2>2, <2>3, HeldRecord, RecordParts
<1>2. \A n \in Machines : Lost(n) => file[n].id \notin Devices(Now) \union {file[m].id}
  <2> SUFFICES ASSUME NEW n \in Machines, Lost(n)
               PROVE  file[n].id \notin Devices(Now) \union {file[m].id}
    OBVIOUS
  <2>1. file[n] # NoFile /\ file[n].setup # <<>> /\ file[n].id \notin Devices(Now)
    BY DEF MachineInv, Lost
  <2>2. n # m
    BY <1>1, <2>1
  <2> QED
    BY <1>1, <2>1, <2>2 DEF PinsInv, OwnIds
<1> DEFINE id == file[m].id
           key == record.vault.key
<1>3. CASE op[m].act = "sync"
  <2>1. id \in Devices(Now) /\ Writing(m, NoEvent, key, id)
    BY <1>3 DEF Made
  <2>2. PICK S \in SUBSET Links :
          record.vault.links \subseteq S /\ U(m) = Prepared(record, NoEvent, key, S, id)
    BY <2>1 DEF Writing
  <2>3. record.events \o NoEvent = record.events
    BY <1>1 DEF NoEvent
  <2>4. Now = (record.events \o NoEvent)[Len(record.events \o NoEvent)]
    BY <2>3 DEF Now, State
  <2>5. /\ U(m).event = NoEvent /\ U(m).vault.revision = record.vault.revision + 1
        /\ U(m).vault.key = key /\ U(m).vault.links = S
    BY ONLY <2>2, PreparedIs
  <2>10. U(m).vault.inboxes = Inboxes(record, Now)
    <3> HIDE DEF id, key
    <3>1. U(m).vault.inboxes =
            Inboxes(record, (record.events \o NoEvent)[Len(record.events \o NoEvent)])
      BY ONLY Zenon, <2>2, PreparedInboxes
    <3> QED
      BY ONLY <2>4, <3>1
  <2> DEFINE wrap == [key |-> U(m).vault.key, epoch |-> Now.epoch]
  <2>6. wrap = CurrentWrap
    BY <2>5 DEF CurrentWrap
  <2>7. Now.recoveryWrap = wrap /\ \A c \in Devices(Now) : Now.wraps[c] = wrap
    <3> HIDE DEF wrap
    <3> QED
      BY <2>6 DEF KeysInv
  <2>8. \A held \in opened : held[1] \in Devices(Now) \/ held[2] \notin {U(m).vault.key, Now.inbox}
    BY <2>5 DEF KeysInv
  <2>9. Follows(m, Now)
    <3> HIDE DEF key
    <3> QED
      BY <1>1, <1>2, <2>2, <2>5, <2>7, <2>8, <2>10 DEF Follows, key
  <2> QED
    BY <2>9
<1>4. CASE op[m].act = "approve"
  <2>1. PICK d \in (1 .. drawn) \ Devices(Now) :
          /\ id \in Devices(Now) /\ \A n \in Machines : Lost(n) => file[n].id # d
          /\ Writing(m, <<Enrolled(Now, d, key, "approve", id)>>, key, id)
    BY <1>4 DEF Made
  <2>2. \A n \in Machines : Lost(n) => file[n].id \notin Devices(Now) \union {d}
    BY <1>2, <2>1
  <2>3. "approve" \in Kinds /\ id \in 0 .. drawn
    BY <1>1 DEF Kinds
  <2> HIDE DEF id
  <2> QED
    BY <1>1, <2>1, <2>2, <2>3, EnrolledFollows
<1>5. CASE op[m].act = "recover"
  <2>1. /\ id \notin Devices(Now)
        /\ Writing(m, <<Enrolled(Now, id, key, "recover", RootKey)>>, key, RootKey)
    BY <1>5 DEF Made
  <2>2. "recover" \in Kinds /\ RootKey \in 0 .. drawn /\ id \in (1 .. drawn) \ Devices(Now)
    BY <1>1, <2>1 DEF Kinds, RootKey
  <2>3. \A n \in Machines : Lost(n) => file[n].id \notin Devices(Now) \union {id}
    BY <1>2
  <2> HIDE DEF id
  <2> QED
    BY <1>1, <2>1, <2>2, <2>3, EnrolledFollows
<1>6. CASE op[m].act = "revoke"
  <2>1. PICK d \in Devices(Now) \ {id}, k \in 1 .. drawn :
          /\ id \in Devices(Now) /\ Unused(k)
          /\ Writing(m, <<Revoked(Now, d, k, id)>>, k, id)
    BY <1>6 DEF Made
  <2>2. \A n \in Machines : Lost(n) => file[n].id \notin Devices(Now)
    BY <1>2
  <2> HIDE DEF id
  <2> QED
    BY <1>1, <2>1, <2>2, RevokedFollows
<1>7. CASE op[m].act = "sharing"
  <2>1. PICK k \in 1 .. drawn :
          /\ id \in Devices(Now) /\ Now.inbox = None /\ Unused(k)
          /\ Writing(m, <<Shared(Now, k, id)>>, key, id)
    BY <1>7 DEF Made
  <2>2. \A n \in Machines : Lost(n) => file[n].id \notin Devices(Now)
    BY <1>2
  <2> HIDE DEF id
  <2> QED
    BY <1>1, <2>1, <2>2, SharedFollows
<1> QED
  BY <1>3, <1>4, <1>5, <1>6, <1>7 DEF Made

\* What a write that is taken changes.
LEMMA TakenParts ==
  ASSUME IdentityAssumption, PinsInv, NEW m \in Machines, Taken(m)
  PROVE  /\ op[m].at = "post" /\ U(m) \in Updates(drawn) /\ drawn \in Nat /\ drawn' = drawn
         /\ U(m).expectedHead = record.events /\ U(m).expectedRevision = record.vault.revision
         /\ record.events \in Seq(States(drawn)) /\ U(m).event \in Seq(States(drawn))
         /\ record' = After(record, U(m)) /\ record'.events = record.events \o U(m).event
         /\ record'.vault = U(m).vault /\ record'.vault.head = record'.events
         /\ record' \in Records(drawn) /\ RecordOK(record') /\ record' # NoRecord
         /\ record'.vault.revision <= MaxRevision /\ Len(record'.events) \in 1 .. MaxEvents
         /\ requests' = requests \ Devices(Now')
         /\ op'[m].at = "answered" /\ op'[m].act = op[m].act /\ U(m)' = U(m)
         /\ op' \in [Machines -> Ops(drawn)] /\ \A n \in Machines \ {m} : op'[n] = op[n]
         /\ UNCHANGED <<copy, restores, file, receipts, drawn, history>>
<1>1. /\ op[m].at = "post" /\ Takes(U(m)) /\ record' = After(record, U(m))
      /\ requests' = requests \ Devices(State(record'))
      /\ op' = [op EXCEPT ![m] = [op[m] EXCEPT !.at = "answered"]]
      /\ UNCHANGED <<copy, restores, file, receipts, drawn, history>>
  BY DEF Taken, At, U
<1>2. Typed /\ op \in [Machines -> Ops(drawn)] /\ drawn \in Nat
  BY DEF PinsInv, Typed, IdentityAssumption
<1>3. PICK act \in Acts, u \in Updates(drawn), tries \in Nat :
        op[m] = [at |-> "post", act |-> act, update |-> u, tries |-> tries]
  <2>1. op[m] \in Ops(drawn) /\ op[m].at = "post"
    BY <1>1, <1>2
  <2> QED
    BY <2>1 DEF Ops
<1>4. U(m) = u /\ op[m].act = act
  BY <1>3 DEF U
<1> DEFINE o == [at |-> "answered", act |-> act, update |-> u, tries |-> tries]
<1>5. op' = [op EXCEPT ![m] = o] /\ o \in Ops(drawn)
  <2>1. [op[m] EXCEPT !.at = "answered"] = o
    BY <1>3
  <2>2. o \in Ops(drawn)
    BY DEF Ops
  <2> QED
    BY <1>1, <2>1, <2>2
<1>6. /\ op'[m] = o /\ op' \in [Machines -> Ops(drawn)]
      /\ \A n \in Machines \ {m} : op'[n] = op[n]
  BY <1>2, <1>5
<1>7. /\ op'[m].at = "answered" /\ op'[m].act = op[m].act /\ U(m)' = U(m)
  BY <1>4, <1>6 DEF U
<1>8. /\ u.expectedHead = record.events /\ u.expectedRevision = record.vault.revision
      /\ u.vault.revision <= MaxRevision /\ RecordOK(After(record, u))
  BY <1>1, <1>4 DEF Takes, Current
<1>9. /\ u.expectedHead \in Seq(States(drawn)) /\ u.event \in Seq(States(drawn))
      /\ u.vault \in Vaults(drawn)
  BY DEF Updates
<1> HIDE DEF o
<1>10. /\ record' = [events |-> record.events \o u.event, vault |-> u.vault]
       /\ record' \in Records(drawn)
  <2> DEFINE all == record.events \o u.event
  <2>1. all \in Seq(States(drawn))
    BY <1>8, <1>9
  <2>2. record' = [events |-> all, vault |-> u.vault]
    BY <1>1, <1>4 DEF After
  <2> HIDE DEF all
  <2>3. record' \in Records(drawn)
    BY <1>9, <2>1, <2>2 DEF Records
  <2> QED
    BY <2>2, <2>3 DEF all
<1>11. RecordOK(record')
  BY <1>1, <1>4, <1>8
<1>12. /\ record' # NoRecord /\ record'.vault.head = record'.events
       /\ Len(record'.events) \in 1 .. MaxEvents
  BY <1>2, <1>10, <1>11, RecordParts
<1>13. record'.events = record.events \o u.event /\ record'.vault = u.vault
  BY <1>10
<1> QED
  BY ONLY <1>1, <1>2, <1>4, <1>6, <1>7, <1>8, <1>9, <1>10, <1>11, <1>12, <1>13 DEF Now

\* It keeps what holds of files and writes.
LEMMA TakenPins ==
  ASSUME IdentityAssumption, LimitAssumption, PinsInv, NEW m \in Machines, Taken(m)
  PROVE  PinsInv'
<1>1. /\ Typed /\ op[m].at = "post" /\ record' \in Records(drawn) /\ RecordOK(record')
      /\ record'.vault.revision <= MaxRevision /\ Len(record'.events) \in 1 .. MaxEvents
      /\ requests' = requests \ Devices(Now') /\ record' # NoRecord
      /\ op'[m].at = "answered" /\ op'[m].act = op[m].act /\ U(m)' = U(m)
      /\ op' \in [Machines -> Ops(drawn)] /\ \A n \in Machines \ {m} : op'[n] = op[n]
      /\ copy' = copy /\ restores' = restores /\ file' = file /\ receipts' = receipts
      /\ drawn' = drawn /\ shown' = shown /\ opened' = opened /\ backedUp' = backedUp
      /\ U(m).vault.head = record'.events
  BY TakenParts DEF PinsInv, history
<1>2. Typed'
  <2>1. Holdable(record)' /\ Holdable(copy)'
    BY <1>1 DEF Typed, Holdable
  <2> QED
    BY <1>1, <2>1 DEF Typed
<1>3. Outside' /\ OwnIds'
  BY <1>1 DEF PinsInv, Typed, Outside, OwnIds, Now
<1>4. \A n \in Machines \ {m} : (FileInv(n) /\ (Posting(n) => WriteOK(U(n))))'
  BY <1>1, FileKept
<1>5. (FileInv(m) /\ (Posting(m) => WriteOK(U(m))))'
  <2>1. FileInv(m) /\ WriteOK(U(m)) /\ Posting(m)
    BY <1>1 DEF PinsInv, Posting
  <2>2. Len(U(m).vault.head) <= MaxEvents
    BY <1>1 DEF LimitAssumption
  <2> QED
    BY <1>1, <2>1, <2>2 DEF FileInv, Posting, Unacknowledged
<1> QED
  BY <1>2, <1>3, <1>4, <1>5 DEF PinsInv

\* The first write is a setup: its device is the account's only one.
LEMMA TakenFirst ==
  ASSUME IdentityAssumption, LimitAssumption, PinsInv, restores = 0, record = NoRecord, Unset,
         NEW m \in Machines, Taken(m)
  PROVE  KeysInv' /\ \A n \in Machines : MachineInv(n)'
<1>1. /\ op[m].at = "post" /\ record' = After(record, U(m)) /\ drawn \in Nat
      /\ requests' = requests \ Devices(Now') /\ drawn' = drawn
      /\ op'[m].at = "answered" /\ op'[m].act = op[m].act /\ U(m)' = U(m)
      /\ \A n \in Machines \ {m} : op'[n] = op[n]
      /\ file' = file /\ shown' = shown /\ opened' = opened /\ backedUp' = backedUp
  BY TakenParts DEF PinsInv, history
<1>2. op[m].act = "setup" /\ shown = {} /\ opened = {} /\ backedUp = {} /\ requests' = {}
  BY <1>1 DEF Unset, PinsInv, Outside
<1>3. PICK S \in SUBSET Links :
        /\ U(m) = SetupWrite(file[m].id, file[m].root, S)
        /\ file[m] # NoFile /\ file[m].setup # <<>>
  BY <1>1, <1>2, SetupSent DEF Posting
<1> DEFINE id == file[m].id
           k == file[m].root
           f == First(id, k)
           h == <<f>>
<1>4. id \in 1 .. drawn /\ k \in 1 .. drawn /\ file[m].recovery = k /\ k = id + 1
      /\ file[m].head = h /\ file[m].revision = 1
  BY <1>3, KeptSetup DEF Unacknowledged
<1>5. /\ record' = [events |-> h, vault |-> U(m).vault] /\ U(m).vault.revision = 1
      /\ U(m).vault.key = k /\ U(m).vault.inboxes = {} /\ U(m).vault.links = S
  <2>1. record' = After(NoRecord, SetupWrite(id, k, S))
    BY <1>1, <1>3
  <2>2. /\ U(m).vault.revision = 1 /\ U(m).vault.key = k /\ U(m).vault.inboxes = {}
        /\ U(m).vault.links = S
    BY SMTT(60), <1>1, <1>3, <1>4, SetupParts
  <2>3. After(NoRecord, SetupWrite(id, k, S)) = [events |-> h, vault |-> U(m).vault]
    BY <1>1, <1>3, <1>4, SetupParts
  <2> QED
    BY <2>1, <2>2, <2>3
<1>6. record'.events = h /\ record'.vault = U(m).vault
  <2> HIDE DEF h
  <2> QED
    BY <1>5
<1> HIDE DEF f
<1>7. Len(h) = 1 /\ h[1] = f /\ DOMAIN h = {1} /\ h = SubSeq(h, 1, 1)
  OBVIOUS
<1>8. Now' = f
  BY <1>6, <1>7 DEF Now, State
<1> DEFINE wrap == [key |-> k, epoch |-> 1]
<1>9. /\ f.root = k /\ f.epoch = 1 /\ f.wraps = [d \in {id} |-> wrap] /\ f.recoveryWrap = wrap
      /\ f.inbox = None
  BY DEF f, First
<1>10. Devices(f) = {id} /\ f.wraps[id] = wrap
  BY <1>9 DEF Devices
<1>11. CurrentWrap' = wrap
  BY <1>5, <1>6, <1>8, <1>9 DEF CurrentWrap
<1> HIDE DEF wrap, h
<1>12. KeysInv'
  <2>1. Readable(record)'
    BY <1>5, <1>6, <1>8, <1>9 DEF Readable, Now
  <2>2. \A i \in DOMAIN record'.events : record'.events[i].inbox = None
    BY <1>6, <1>7, <1>9
  <2>3. Now'.root \in {file'[n].recovery : n \in {j \in Machines : file'[j] # NoFile}}
    <3>1. Now'.root = file'[m].recovery /\ file'[m] # NoFile
      BY <1>1, <1>3, <1>4, <1>8, <1>9
    <3> QED
      BY <3>1
  <2>4. \A d \in Devices(Now') : Now'.wraps[d] = CurrentWrap'
    BY <1>8, <1>10, <1>11
  <2>5. Now'.recoveryWrap = CurrentWrap'
    BY <1>8, <1>9, <1>11
  <2> QED
    BY <1>1, <1>2, <2>1, <2>2, <2>3, <2>4, <2>5 DEF KeysInv
<1>13. MachineInv(m)'
  <2>1. ~Lost(m)'
    BY <1>1, <1>8, <1>9 DEF Lost
  <2>2. /\ file'[m].recovery = Now'.root /\ Len(file'[m].head) = 1 /\ file'[m].revision = 1
        /\ Len(record'.events) = 1 /\ SameHead(file[m], record)'
    BY <1>1, <1>4, <1>6, <1>7, <1>8, <1>9 DEF SameHead
  <2>3. record'.vault.revision = 1
    BY <1>5, <1>6
  <2>4. record' = After(NoRecord, U(m)') /\ shown' = {}
    BY <1>1, <1>2
  <2> QED
    BY <1>1, <1>2, <2>1, <2>2, <2>3, <2>4 DEF MachineInv
<1>14. ASSUME NEW n \in Machines \ {m} PROVE MachineInv(n)'
  <2>1. /\ op[n].at = "idle" \/ (op[n].at = "post" /\ op[n].act = "setup")
        /\ file[n] # NoFile => file[n].setup # <<>>
    BY DEF Unset
  <2>2. op'[n] = op[n] /\ file'[n] = file[n] /\ U(n)' = U(n)
    BY <1>1 DEF U
  <2>3. CASE file[n] = NoFile
    BY <2>1, <2>2, <2>3 DEF MachineInv, Lost
  <2>4. CASE file[n] # NoFile
    <3>1. file[n].root = file[n].id + 1 /\ file[n].id \in 1 .. drawn
      BY <2>1, <2>4, KeptSetup DEF Unacknowledged
    <3>2. file[n].id # id
      BY <1>3, <2>4 DEF PinsInv, OwnIds
    <3>3. file[n].root # k
      BY <1>1, <1>4, <3>1, <3>2
    <3>4. Lost(n)' /\ file'[n].id \notin Devices(Now') \union requests'
      BY <1>2, <1>8, <1>9, <1>10, <2>2, <2>4, <3>2, <3>3 DEF Lost
    <3> QED
      BY <2>1, <2>2, <2>4, <3>4 DEF MachineInv
  <2> QED
    BY <2>3, <2>4
<1> QED
  BY <1>12, <1>13, <1>14

\* What an earlier history begins with, a longer one begins with.
LEMMA PrefixGrows ==
  ASSUME NEW X, NEW s \in Seq(X), NEW t \in Seq(X), NEW e \in Seq(X), Prefix(s, t)
  PROVE  Prefix(s, t \o e)
<1>1. Len(s) \in Nat /\ Len(t) \in Nat /\ Len(e) \in Nat /\ Len(t \o e) = Len(t) + Len(e)
      /\ Len(s) <= Len(t)
  BY DEF Prefix
<1>2. SubSeq(t \o e, 1, Len(s)) = SubSeq(t, 1, Len(s))
  BY <1>1
<1> QED
  BY <1>1, <1>2 DEF Prefix

\* A history begins with itself.
LEMMA PrefixSelf ==
  ASSUME NEW X, NEW s \in Seq(X)
  PROVE  Prefix(s, s)
  BY DEF Prefix

\* The history it leads to is the one that was there, or has one state more.
LEMMA TakenEvents ==
  ASSUME IdentityAssumption, PinsInv, record # NoRecord, NEW m \in Machines, Taken(m),
         NEW new, Follows(m, new)
  PROVE  \/ record'.events = record.events /\ new = Now
         \/ record'.events = Append(record.events, new)
<1>1. record'.events = record.events \o U(m).event /\ Typed
  BY TakenParts DEF PinsInv
<1>2. record.events \in Seq(States(drawn))
  BY <1>1, HeldRecord, RecordParts
<1>3. CASE U(m).event = NoEvent /\ new = Now
  <2>1. record.events \o NoEvent = record.events
    BY <1>2 DEF NoEvent
  <2> QED
    BY <1>1, <1>3, <2>1
<1>4. CASE U(m).event = <<new>>
  <2>1. new \in States(drawn)
    BY DEF Follows
  <2>2. record.events \o <<new>> = Append(record.events, new)
    BY <1>2, <2>1
  <2> QED
    BY <1>1, <1>4, <2>2
<1> QED
  BY <1>3, <1>4 DEF Follows

\* A later write keeps the vault open to who is in the account, and loses nothing.
LEMMA TakenKeys ==
  ASSUME IdentityAssumption, LimitAssumption, PinsInv, record # NoRecord, KeysInv,
         NEW m \in Machines, Taken(m), NEW new, Follows(m, new)
  PROVE  KeysInv' /\ Now' = new
<1>1. /\ record'.events = record.events \o U(m).event /\ record'.vault = U(m).vault
      /\ file' = file /\ shown' = shown /\ opened' = opened /\ backedUp' = backedUp
      /\ Typed
  BY TakenParts DEF PinsInv, history
<1>2. /\ record.events \in Seq(States(drawn)) /\ Len(record.events) >= 1
      /\ Len(record.events) \in Nat
      /\ record.vault.inboxes \subseteq 1 .. drawn
  BY <1>1, HeldRecord, RecordParts
<1>3. \/ record'.events = record.events /\ new = Now
      \/ record'.events = Append(record.events, new)
  BY TakenEvents
<1>4. /\ Now' = new
      /\ \A i \in DOMAIN record'.events :
           \/ i \in DOMAIN record.events /\ record'.events[i] = record.events[i]
           \/ record'.events[i] = new
  <2>1. CASE record'.events = record.events /\ new = Now
    BY <2>1 DEF Now, State
  <2>2. CASE record'.events = Append(record.events, new)
    <3>1. new \in States(drawn)
      BY DEF Follows
    <3> DEFINE all == Append(record.events, new)
               l == Len(record.events)
    <3>2. /\ l \in Nat /\ Len(all) = l + 1 /\ all[l + 1] = new /\ DOMAIN all = 1 .. (l + 1)
          /\ DOMAIN record.events = 1 .. l /\ \A i \in 1 .. l : all[i] = record.events[i]
      BY <1>2, <3>1
    <3> HIDE DEF all, l
    <3>3. \A i \in DOMAIN all :
            (i \in DOMAIN record.events /\ all[i] = record.events[i]) \/ all[i] = new
      BY <3>2
    <3>4. all[Len(all)] = new
      BY <3>2
    <3> QED
      BY <2>2, <3>3, <3>4 DEF Now, State, all
  <2> QED
    BY <1>3, <2>1, <2>2
<1>5. /\ new.root = Now.root
      /\ record'.vault.inboxes = record.vault.inboxes \union ({new.inbox} \ {None})
      /\ record.vault.links \subseteq record'.vault.links
      /\ new.recoveryWrap = CurrentWrap' /\ \A d \in Devices(new) : new.wraps[d] = CurrentWrap'
      /\ new.inbox = None => Now.inbox = None
      /\ \A held \in opened :
           held[1] \in Devices(new) \/ held[2] \notin {record'.vault.key, new.inbox}
  BY <1>1, <1>4 DEF Follows, Inboxes, CurrentWrap
<1>6. Readable(record)'
  <2>1. Readable(record)' <=> IF new.inbox = None THEN record'.vault.inboxes = {}
                              ELSE new.inbox \in record'.vault.inboxes
    BY <1>4 DEF Readable, Now
  <2>2. Now.inbox = None => record.vault.inboxes = {}
    BY DEF KeysInv, Readable, Now
  <2> QED
    BY <1>5, <2>1, <2>2
<1>7. \A i \in DOMAIN record'.events :
        record'.events[i].inbox \in {None} \union record'.vault.inboxes
  <2> SUFFICES ASSUME NEW i \in DOMAIN record'.events
               PROVE  record'.events[i].inbox \in {None} \union record'.vault.inboxes
    OBVIOUS
  <2>1. CASE i \in DOMAIN record.events /\ record'.events[i] = record.events[i]
    BY <1>5, <2>1 DEF KeysInv
  <2>2. CASE record'.events[i] = new
    BY <1>5, <2>2
  <2> QED
    BY <1>4, <2>1, <2>2
<1>8. KeysInv'
  BY <1>1, <1>4, <1>5, <1>6, <1>7 DEF KeysInv
<1> QED
  BY <1>4, <1>8

\* It keeps what holds of every machine.
LEMMA TakenMachines ==
  ASSUME IdentityAssumption, LimitAssumption, PinsInv, record # NoRecord, KeysInv,
         \A n \in Machines : MachineInv(n), NEW m \in Machines, Taken(m), op[m].act # "setup",
         Made(m), NEW new, Follows(m, new), Now' = new
  PROVE  \A n \in Machines : MachineInv(n)'
<1>1. /\ op[m].at = "post" /\ U(m).expectedHead = record.events /\ U(m) \in Updates(drawn)
      /\ U(m).expectedRevision = record.vault.revision /\ drawn \in Nat
      /\ record'.events = record.events \o U(m).event /\ record'.vault = U(m).vault
      /\ U(m).event \in Seq(States(drawn)) /\ record'.vault.head = record'.events
      /\ requests' = requests \ Devices(new) /\ Typed
      /\ op'[m].at = "answered" /\ op'[m].act = op[m].act /\ U(m)' = U(m)
      /\ \A n \in Machines \ {m} : op'[n] = op[n]
      /\ file' = file /\ shown' = shown /\ opened' = opened /\ backedUp' = backedUp
  BY TakenParts DEF PinsInv, history
<1>2. /\ record.events \in Seq(States(drawn)) /\ record.vault.revision \in Nat
      /\ record'.vault.revision = record.vault.revision + 1
      /\ record.vault.links \subseteq record'.vault.links
  BY <1>1, HeldRecord, RecordParts DEF Follows
<1>3. Prefix(record.events, record'.events) /\ Len(record.events) <= Len(record'.events)
  <2>1. Prefix(record.events, record.events)
    BY <1>2, PrefixSelf
  <2>2. Prefix(record.events, record.events \o U(m).event)
    BY <1>1, <1>2, <2>1, PrefixGrows
  <2> QED
    BY <1>1, <2>2 DEF Prefix
<1>4. \A n \in Machines : (Lost(n)' <=> Lost(n)) /\ (Lost(n) => file[n].id \notin Devices(new))
  BY <1>1 DEF Lost, Follows
<1>5. ASSUME NEW n \in Machines, file[n] # NoFile, ~Lost(n)
      PROVE  /\ file[n].recovery \in {None, Now'.root}
             /\ Len(file[n].head) <= Len(record'.events) /\ SameHead(file[n], record)'
             /\ file[n].revision <= record'.vault.revision
  <2>1. /\ file[n].recovery \in {None, Now.root} /\ Len(file[n].head) <= Len(record.events)
        /\ SameHead(file[n], record) /\ file[n].revision <= record.vault.revision
        /\ file[n] \in Files(drawn)
    BY <1>1, <1>5 DEF MachineInv, Typed
  <2>2. file[n].head \in Seq(States(drawn)) /\ file[n].revision \in Nat
    BY <2>1 DEF Files
  <2>3. Prefix(file[n].head, record.events)
    BY <2>1 DEF Prefix, SameHead
  <2>4. Prefix(file[n].head, record'.events)
    BY <1>1, <1>2, <2>2, <2>3, PrefixGrows
  <2>5. SameHead(file[n], record)' /\ Len(file[n].head) <= Len(record'.events)
    BY <1>1, <2>4 DEF SameHead, Prefix
  <2>6. file[n].revision <= record'.vault.revision
    BY <1>2, <2>1, <2>2
  <2> QED
    BY <2>1, <2>5, <2>6 DEF Follows
<1>6. MachineInv(m)'
  <2>1. FileInv(m)
    BY DEF PinsInv
  <2>2. file[m] # NoFile /\ file[m].setup = <<>>
    BY <1>1, <2>1 DEF FileInv, Posting
  <2>3. ~Lost(m)
    BY <2>2 DEF MachineInv
  <2>4. Prefix(U(m).vault.head, record'.events)
    <3>1. record'.events \in Seq(States(drawn))
      BY <1>1, <1>2
    <3> QED
      BY <1>1, <3>1, PrefixSelf
  <2> QED
    <3>1. ~Lost(m)' /\ op'[m].at = "answered" /\ op'[m].act # "setup"
      BY <1>1, <1>4, <2>3
    <3>2. /\ Prefix(U(m)'.vault.head, record'.events)
          /\ U(m)'.expectedRevision < record'.vault.revision
          /\ U(m)'.vault.links \subseteq record'.vault.links
      BY <1>1, <1>2, <2>4
    <3>3. /\ file'[m].recovery \in {None, Now'.root}
          /\ Len(file'[m].head) <= Len(record'.events) /\ SameHead(file[m], record)'
          /\ file'[m].revision <= record'.vault.revision
      BY <1>1, <1>5, <2>2, <2>3
    <3> QED
      BY <3>1, <3>2, <3>3 DEF MachineInv
<1>7. ASSUME NEW n \in Machines \ {m} PROVE MachineInv(n)'
  <2>1. MachineInv(n) /\ op'[n] = op[n] /\ U(n)' = U(n) /\ file'[n] = file[n]
    BY <1>1 DEF U
  <2>2. ~(op[n].at = "answered" /\ op[n].act = "setup")
    <3> SUFFICES ASSUME op[n].at = "answered", op[n].act = "setup" PROVE FALSE
      OBVIOUS
    <3>1. Devices(Now) = {file[n].id} /\ shown = {} /\ file[n] # NoFile
      BY <2>1, AnsweredSetup
    <3>2. file[m].id \in Devices(Now) \/ shown # {}
      BY DEF Made
    <3>3. file[m] # NoFile
      BY <1>1 DEF PinsInv, FileInv
    <3> QED
      BY <3>1, <3>2, <3>3 DEF PinsInv, OwnIds
  <2>3. op[n].at \in {"post", "answered"} =>
          /\ U(n).expectedRevision \in Nat /\ U(n).vault.head \in Seq(States(drawn))
    <3> SUFFICES ASSUME op[n].at \in {"post", "answered"}
                 PROVE  U(n).expectedRevision \in Nat /\ U(n).vault.head \in Seq(States(drawn))
      OBVIOUS
    <3>1. U(n) \in Updates(drawn)
      <4>1. op[n] \in Ops(drawn)
        BY <1>1 DEF Typed
      <4> QED
        BY <4>1 DEF Ops, U
    <3>2. U(n).expectedRevision \in Nat /\ U(n).vault \in Vaults(drawn)
      BY <3>1 DEF Updates
    <3> QED
      BY <3>2 DEF Vaults
  <2>4. op[n].at = "answered" /\ op[n].act # "setup" =>
          /\ Prefix(U(n).vault.head, record'.events)
          /\ U(n).expectedRevision < record'.vault.revision
          /\ U(n).vault.links \subseteq record'.vault.links
    <3> SUFFICES ASSUME op[n].at = "answered", op[n].act # "setup"
                 PROVE  /\ Prefix(U(n).vault.head, record'.events)
                        /\ U(n).expectedRevision < record'.vault.revision
                        /\ U(n).vault.links \subseteq record'.vault.links
      OBVIOUS
    <3>1. /\ Prefix(U(n).vault.head, record.events)
          /\ U(n).expectedRevision < record.vault.revision
          /\ U(n).vault.links \subseteq record.vault.links
      BY <2>1 DEF MachineInv
    <3>2. Prefix(U(n).vault.head, record'.events)
      BY <1>1, <1>2, <2>3, <3>1, PrefixGrows
    <3> QED
      BY <1>2, <2>3, <3>1, <3>2
  <2>5. op[n].at = "post" /\ op[n].act # "setup" =>
          /\ U(n).expectedRevision <= record'.vault.revision
          /\ U(n).expectedRevision # record'.vault.revision
    BY <1>2, <2>1, <2>3 DEF MachineInv
  <2>6. Lost(n)' => /\ file'[n].setup # <<>> /\ file'[n].id \notin Devices(Now') \union requests'
                    /\ op'[n].at = "idle" \/ (op'[n].at = "post" /\ op'[n].act = "setup")
    BY <1>1, <1>4, <2>1 DEF MachineInv
  <2> QED
    BY <1>4, <1>5, <2>1, <2>2, <2>4, <2>5, <2>6 DEF MachineInv
<1> QED
  BY <1>6, <1>7

\* What is taken later was made of the record, and is no setup.
LEMMA TakenMade ==
  ASSUME IdentityAssumption, PinsInv, record # NoRecord, \A n \in Machines : MachineInv(n),
         NEW m \in Machines, Taken(m)
  PROVE  op[m].at = "post" /\ op[m].act # "setup" /\ Made(m)
<1>1. /\ op[m].at = "post" /\ U(m).expectedHead = record.events
      /\ U(m).expectedRevision = record.vault.revision
  BY TakenParts
<1>2. op[m].act # "setup"
  <2> SUFFICES ASSUME op[m].act = "setup" PROVE FALSE
    OBVIOUS
  <2>1. PICK S \in SUBSET Links :
          /\ U(m) = SetupWrite(file[m].id, file[m].root, S)
          /\ file[m] # NoFile /\ file[m].setup # <<>>
    BY <1>1, SetupSent DEF Posting
  <2>2. file[m].id \in 1 .. drawn /\ file[m].root \in 1 .. drawn /\ drawn \in Nat
    BY <2>1, KeptSetup, TakenParts
  <2>3. U(m).expectedHead = <<>>
    BY <2>1, <2>2, SetupParts
  <2>4. Len(record.events) >= 1
    BY HeldRecord, RecordParts DEF PinsInv
  <2> QED
    BY <1>1, <2>3, <2>4
<1> QED
  BY <1>1, <1>2 DEF MachineInv

\* The service takes a write.
LEMMA TakenKeeps ==
  ASSUME IdentityAssumption, LimitAssumption, IdentityInv, NEW m \in Machines, Taken(m)
  PROVE  IdentityInv'
<1>1. PinsInv /\ PinsInv'
  BY TakenPins DEF IdentityInv
<1>2. /\ restores' = restores /\ record' # NoRecord /\ op[m].at = "post"
      /\ U(m).expectedHead = record.events /\ U(m).expectedRevision = record.vault.revision
  BY <1>1, TakenParts
<1>3. ASSUME restores = 0 PROVE KeysInv' /\ \A n \in Machines : MachineInv(n)'
  <2>1. CASE record = NoRecord
    BY <1>1, <1>3, <2>1, TakenFirst DEF IdentityInv, AccountKept
  <2>2. CASE record # NoRecord
    <3>1. KeysInv /\ \A n \in Machines : MachineInv(n)
      BY <1>3, <2>2 DEF IdentityInv, AccountKept
    <3>2. op[m].act # "setup" /\ Made(m)
      BY <1>1, <2>2, <3>1, TakenMade
    <3>3. PICK new : Follows(m, new)
      BY <1>1, <1>2, <2>2, <3>1, <3>2, MadeFollows
    <3>4. KeysInv' /\ Now' = new
      BY <1>1, <2>2, <3>1, <3>3, TakenKeys
    <3>5. \A n \in Machines : MachineInv(n)'
      BY <1>1, <2>2, <3>1, <3>2, <3>3, <3>4, TakenMachines
    <3> QED
      BY <3>4, <3>5
  <2> QED
    BY <2>1, <2>2
<1>4. AccountKept'
  BY <1>2, <1>3 DEF AccountKept
<1> QED
  BY <1>1, <1>4 DEF IdentityInv

-----------------------------------------------------------------------------
(* The invariant.                                                          *)

\* Reading and pinning keeps it, if what is posted was made of the record.
LEMMA PinStepKeeps ==
  ASSUME IdentityAssumption, IdentityInv, NEW m \in Machines, PinStep(m),
         restores = 0 /\ op'[m].at = "post" => Made(m)'
  PROVE  IdentityInv'
  BY PinStepPins, PinStepAccount DEF IdentityInv

\* So do the readings that post nothing.
LEMMA ReadKeeps ==
  ASSUME IdentityAssumption, IdentityInv, NEW m \in Machines,
         \/ Look(m) \/ ShowRecovery(m) \/ ConfirmRecovery(m)
         \/ Locked(m) \/ Ask(m) \/ CannotRecover(m)
  PROVE  PinStep(m) /\ IdentityInv'
<1>1. PinsInv
  BY DEF IdentityInv
<1>2. PinStep(m)
  BY <1>1, LookPins, ShowRecoveryPins, ConfirmRecoveryPins, LockedPins, AskPins, CannotRecoverPins
<1>3. op[m].at \in {"idle", "again"} /\ DOMAIN op = Machines
  BY <1>1, <1>2 DEF PinStep, At, PinsInv, Typed
<1>4. \/ op' = op \/ op' = [op EXCEPT ![m] = Idle] \/ op' = [op EXCEPT ![m] = [at |-> "ask"]]
  BY DEF Look, ShowRecovery, ConfirmRecovery, Locked, Ask, CannotRecover, Stop
<1>5. op'[m].at # "post"
  <2>1. Idle.at = "idle" /\ [at |-> "ask"].at = "ask"
    BY DEF Idle
  <2> QED
    BY <1>3, <1>4, <2>1
<1> QED
  BY <1>2, <1>5, PinStepKeeps

\* So do those that make a write.
LEMMA WriteKeeps ==
  ASSUME IdentityAssumption, LimitAssumption, IdentityInv, NEW m \in Machines,
         Sync(m) \/ Approve(m) \/ Revoke(m) \/ ShareOn(m) \/ Recover(m)
  PROVE  PinStep(m) /\ IdentityInv'
<1>1. PinsInv
  BY DEF IdentityInv
<1>2. PinStep(m) /\ (restores = 0 => Made(m)')
  BY <1>1, SyncMade, ApproveMade, RevokeMade, ShareOnMade, RecoverMade
<1> QED
  BY <1>2, PinStepKeeps

\* It holds at first.
LEMMA IdentityInvInit ==
  ASSUME IdentityAssumption, Init
  PROVE  IdentityInv
<1>1. NoFile \in {NoFile} \union Files(0) /\ Idle \in Ops(0) /\ Idle.at = "idle"
  BY DEF Ops, Idle
<1>2. /\ record = NoRecord /\ copy = NoRecord /\ requests = {} /\ restores = 0 /\ drawn = 0
      /\ file = [m \in Machines |-> NoFile] /\ op = [m \in Machines |-> Idle]
      /\ receipts = [m \in Machines |-> {}] /\ shown = {} /\ opened = {} /\ backedUp = {}
  BY DEF Init
<1>3. Typed
  BY <1>1, <1>2 DEF Typed, Holdable, IdentityAssumption
<1>4. Outside /\ OwnIds
  BY <1>2 DEF Outside, OwnIds
<1>5. \A m \in Machines : FileInv(m) /\ ~Posting(m)
  BY <1>1, <1>2 DEF FileInv, Posting
<1>6. AccountKept
  BY <1>1, <1>2 DEF AccountKept, Unset
<1> QED
  BY <1>3, <1>4, <1>5, <1>6 DEF IdentityInv, PinsInv

\* Every step keeps it.
LEMMA IdentityInvNext ==
  ASSUME IdentityAssumption, LimitAssumption, IdentityInv, [Next]_vars
  PROVE  IdentityInv'
<1>1. CASE \E m \in Machines : Act(m)
  <2>1. PICK m \in Machines : Act(m)
    BY <1>1
  <2> QED
    BY <2>1, ReadKeeps, WriteKeeps, SetUpKeeps, SetUpAgainKeeps, DiscardKeeps DEF Act
<1>2. CASE \E m \in Machines : Deliver(m)
  <2>1. PICK m \in Machines : Deliver(m)
    BY <1>2
  <2> QED
    BY <2>1, TakenKeeps, RefusedKeeps, AcknowledgedKeeps, SetupAnsweredKeeps, RequestStoredKeeps
    DEF Deliver
<1>3. CASE \E m \in Machines : Fails(m)
  BY <1>3, FailsKeeps
<1>4. CASE (\E m \in Machines, l \in Links : Publish(m, l)) \/ Copy \/ Restore \/ UNCHANGED vars
  BY <1>4, AroundKeeps
<1> QED
  BY <1>1, <1>2, <1>3, <1>4 DEF Next

\* Whatever was lost, retried or restored, files, writes and the record are of their kinds and fit
\* each other; and while the service loses nothing, its vault is open to the account's devices, to
\* the recovery key and to nobody who left.
THEOREM IdentityInvariance ==
  ASSUME IdentityAssumption, LimitAssumption
  PROVE  Spec => []IdentityInv
<1>1. Init => IdentityInv
  BY IdentityInvInit
<1>2. IdentityInv /\ [Next]_vars => IdentityInv'
  BY IdentityInvNext
<1> QED
  BY <1>1, <1>2, PTL DEF Spec

-----------------------------------------------------------------------------
(* What follows from it.                                                   *)

\* Files, records, receipts and steps are of their kinds.
LEMMA InvTypeOK ==
  ASSUME IdentityAssumption, LimitAssumption, IdentityInv
  PROVE  IdentityTypeOK
<1>1. /\ PinsInv /\ Typed /\ drawn \in 0 .. MaxDrawn /\ MaxDrawn \in Nat /\ MaxRevision \in Nat
      /\ 1 .. drawn \subseteq Keys
  BY DEF IdentityInv, PinsInv, Typed, IdentityAssumption, Keys
<1>2. Len(record.events) \in 0 .. MaxEvents /\ record.vault.revision \in 0 .. MaxRevision
  <2>1. CASE record = NoRecord
    <3>1. Len(record.events) = 0 /\ record.vault.revision = 0
      BY <2>1 DEF NoRecord
    <3>2. 0 \in 0 .. MaxRevision
      BY <1>1
    <3>3. MaxEvents \in Nat => 0 \in 0 .. MaxEvents
      OBVIOUS
    <3> QED
      BY <3>1, <3>2, <3>3 DEF LimitAssumption
  <2>2. CASE record # NoRecord
    <3>1. /\ Len(record.events) \in 1 .. MaxEvents /\ record.vault.revision \in Nat
          /\ record.vault.revision <= MaxRevision
      BY <1>1, <2>2, HeldRecord, RecordParts DEF Typed, Holdable
    <3> QED
      BY <1>1, <3>1
  <2> QED
    BY <2>1, <2>2
<1>3. ASSUME NEW m \in Machines PROVE file[m] = NoFile \/ FileType(file[m])
  <2> SUFFICES ASSUME file[m] # NoFile PROVE FileType(file[m])
    OBVIOUS
  <2>1. file[m] \in Files(drawn) /\ FileInv(m)
    BY <1>1 DEF PinsInv, Typed
  <2>2. /\ file[m].id \in Keys /\ file[m].root \in Keys
    BY <1>1, <2>1 DEF Files
  <2>3. file[m].recovery \in Keys \union {None}
    <3>1. file[m].recovery \in 0 .. drawn /\ drawn \in Nat
      BY <1>1, <2>1 DEF Files
    <3>2. file[m].recovery = 0 \/ file[m].recovery \in 1 .. drawn
      BY <3>1
    <3> QED
      BY <1>1, <3>2 DEF None
  <2>4. Len(file[m].setup) \in 0 .. 1
    <3>1. CASE file[m].setup = <<>>
      <4>1. Len(<<>>) = 0
        OBVIOUS
      <4> QED
        BY <3>1, <4>1
    <3>2. CASE file[m].setup # <<>>
      <4>1. PICK S \in SUBSET Links :
              file[m].setup = <<SetupWrite(file[m].id, file[m].root, S)>>
        BY <2>1, <3>2 DEF FileInv, Unacknowledged
      <4>2. Len(file[m].setup) = 1
        BY <4>1
      <4> QED
        BY <4>2
    <3> QED
      BY <3>1, <3>2
  <2> QED
    BY <2>1, <2>2, <2>3, <2>4 DEF FileInv, FileType
<1>4. ASSUME NEW m \in Machines
      PROVE  /\ op[m].at \in {"idle", "post", "ask", "answered", "again"}
             /\ receipts[m] \subseteq Links
  <2>1. op[m] \in Ops(drawn) /\ receipts[m] \in SUBSET Links
    BY <1>1 DEF Typed
  <2> QED
    BY <2>1 DEF Ops
<1>5. /\ requests \subseteq Keys /\ restores \in 0 .. MaxRestores /\ shown \subseteq Keys
      /\ backedUp \subseteq Links /\ opened \subseteq Keys \X Keys
  <2>1. (1 .. drawn) \X (1 .. drawn) \subseteq Keys \X Keys
    BY <1>1
  <2> QED
    BY <1>1, <2>1 DEF Typed
<1> QED
  BY <1>1, <1>2, <1>3, <1>4, <1>5 DEF IdentityTypeOK

\* A device removed holds no key in use after it; one that is listed is let in by its own pins
\* and opens the vault; the recovery key opens it; nothing backed up is lost; and what is sent
\* the readers take.
LEMMA InvKeys ==
  ASSUME IdentityAssumption, IdentityInv
  PROVE  /\ RevokedLockedOut /\ NeverLockedOut /\ RecoveryKeyWorks /\ BackedUpStays
         /\ HonestWritesVerify
<1>1. /\ restores = 0 /\ record # NoRecord => KeysInv /\ \A n \in Machines : MachineInv(n)
      /\ restores = 0 /\ record = NoRecord => Unset
      /\ PinsInv
  BY DEF IdentityInv, AccountKept
<1>2. RevokedLockedOut
  BY <1>1 DEF RevokedLockedOut, KeysInv, Now
<1>3. NeverLockedOut
  <2> SUFFICES ASSUME restores = 0, record # NoRecord, NEW m \in Machines, Approved(file[m], record)
               PROVE  PinHolds(file[m], record) /\ Opens(Own(m), record) /\ Readable(record)
    BY DEF NeverLockedOut
  <2>1. KeysInv /\ MachineInv(m) /\ file[m] # NoFile /\ file[m].id \in Devices(Now)
    BY <1>1 DEF Approved, Now
  <2>2. ~Lost(m)
    BY <2>1 DEF MachineInv
  <2>3. PinHolds(file[m], record)
    BY <2>1, <2>2 DEF MachineInv, Lost, PinHolds, SetupConflict, Now
  <2>4. Own(m) = CurrentWrap /\ Readable(record)
    BY <2>1 DEF KeysInv, Own, Now
  <2>5. Opens(Own(m), record)
    BY <2>4 DEF CurrentWrap, Opens, Unwraps, Now
  <2> QED
    BY <2>3, <2>4, <2>5
<1>4. RecoveryKeyWorks
  <2> SUFFICES ASSUME restores = 0, record # NoRecord
               PROVE  /\ shown \subseteq {Now.root}
                      /\ Now.root \in shown \union
                           {file[m].recovery : m \in {n \in Machines : file[n] # NoFile}}
                      /\ Opens(Now.recoveryWrap, record)
    BY DEF RecoveryKeyWorks, Now
  <2>1. KeysInv
    BY <1>1
  <2>2. Now.recoveryWrap = CurrentWrap
    BY <2>1 DEF KeysInv
  <2>3. Opens(Now.recoveryWrap, record)
    BY <2>2 DEF CurrentWrap, Opens, Unwraps, Now
  <2> QED
    BY <2>1, <2>3 DEF KeysInv
<1>5. BackedUpStays
  <2>1. CASE record = NoRecord
    <3>1. DOMAIN record.events = {}
      BY <2>1 DEF NoRecord
    <3> QED
      BY <1>1, <2>1, <3>1 DEF BackedUpStays, Unset
  <2>2. CASE record # NoRecord
    BY <1>1, <2>2 DEF BackedUpStays, KeysInv
  <2> QED
    BY <2>1, <2>2
<1>6. HonestWritesVerify
  <2> SUFFICES ASSUME NEW m \in Machines, At(m, "post"), Current(op[m].update)
               PROVE  LET after == After(record, op[m].update)
                      IN  \/ RecordOK(after)
                          \/ Len(after.events) > MaxEvents
                          \/ Cardinality(Devices(State(after))) > MaxDevices
    BY DEF HonestWritesVerify
  <2>1. WriteOK(U(m)) /\ U(m).expectedHead = record.events /\ U(m) = op[m].update
    BY <1>1 DEF PinsInv, Posting, At, Current, U
  <2>2. After(record, U(m)) = [events |-> U(m).expectedHead \o U(m).event, vault |-> U(m).vault]
    BY <2>1 DEF After
  <2> QED
    BY <2>1, <2>2 DEF WriteOK
<1> QED
  BY <1>2, <1>3, <1>4, <1>5, <1>6

\* Files, records and the writes under way are of their kinds.
THEOREM IdentityTypes ==
  ASSUME IdentityAssumption, LimitAssumption
  PROVE  Spec => []IdentityTypeOK
<1>1. IdentityInv => IdentityTypeOK
  BY InvTypeOK
<1> QED
  BY <1>1, IdentityInvariance, PTL

\* A device that was removed holds no key in use after it, not even through a write that was
\* under way; one that the account lists is never refused by its own pins; the recovery key
\* opens the vault; and no write leaves a record that the readers refuse.
THEOREM KeysAreTheDevices ==
  ASSUME IdentityAssumption, LimitAssumption
  PROVE  Spec => [](RevokedLockedOut /\ NeverLockedOut /\ RecoveryKeyWorks /\ HonestWritesVerify)
<1>1. IdentityInv => RevokedLockedOut /\ NeverLockedOut /\ RecoveryKeyWorks /\ HonestWritesVerify
  BY InvKeys
<1> QED
  BY <1>1, IdentityInvariance, PTL

\* A link that a machine was told is backed up stays in the vault, and so does every
\* incoming-share key the account has had.
THEOREM BackupsStay ==
  ASSUME IdentityAssumption, LimitAssumption
  PROVE  Spec => []BackedUpStays
<1>1. IdentityInv => BackedUpStays
  BY InvKeys
<1> QED
  BY <1>1, IdentityInvariance, PTL

\* What a step does to a device file's pins.
LEMMA PinsKept ==
  ASSUME IdentityAssumption, LimitAssumption, IdentityInv, [Next]_vars
  PROVE  KeepsItsPins
<1> SUFFICES ASSUME NEW n \in Machines, file[n] # NoFile, file'[n] # NoFile
             PROVE  /\ file'[n].root = file[n].root /\ Prefix(file[n].head, file'[n].head)
                    /\ file'[n].revision >= file[n].revision
  BY DEF KeepsItsPins
<1>1. /\ PinsInv /\ Typed /\ file[n] \in Files(drawn) /\ DOMAIN file = Machines
  BY DEF IdentityInv, PinsInv, Typed
<1>2. file[n].head \in Seq(States(drawn)) /\ file[n].revision \in Nat /\ file[n].root \in 1 .. drawn
  BY <1>1 DEF Files
<1>3. CASE file'[n] = file[n]
  BY <1>2, <1>3, PrefixSelf
<1>4. ASSUME NEW m \in Machines, PinStep(m)
      PROVE  /\ file'[n].root = file[n].root /\ Prefix(file[n].head, file'[n].head)
             /\ file'[n].revision >= file[n].revision
  <2>1. CASE n # m
    <3>1. file'[n] = file[n]
      BY <1>1, <1>4, <2>1, PinStepFile
    <3> QED
      BY <1>2, <3>1, PrefixSelf
  <2>2. CASE n = m
    <3>1. /\ file'[n].root = Now.root /\ file'[n].head = record.events
          /\ file'[n].revision = record.vault.revision
      BY <1>1, <1>4, <2>2, PinStepFile
    <3>2. PinHolds(file[n], record)
      BY <1>4, <2>2 DEF PinStep
    <3>3. file[n].root = Now.root
      BY <1>2, <3>2 DEF PinHolds, None, Now
    <3>4. Prefix(file[n].head, record.events)
      BY <3>2 DEF PinHolds, SameHead, Prefix
    <3>5. record.vault.revision >= file[n].revision
      <4>1. record # NoRecord
        BY <1>4 DEF PinStep
      <4>2. record.vault.revision \in Nat
        BY <1>1, <4>1, HeldRecord, RecordParts
      <4> QED
        BY <1>2, <3>2, <4>2 DEF PinHolds
    <3> QED
      BY <3>1, <3>3, <3>4, <3>5
  <2> QED
    BY <2>1, <2>2
<1>5. ASSUME NEW m \in Machines, SetUp(m) PROVE file'[n] = file[n]
  BY <1>1, <1>5 DEF SetUp, Save
<1>6. ASSUME NEW m \in Machines, Discard(m) PROVE file'[n] = file[n]
  BY <1>1, <1>6 DEF Discard, Save
<1>7. ASSUME NEW m \in Machines, Acknowledged(m)
      PROVE  /\ file'[n].root = file[n].root /\ Prefix(file[n].head, file'[n].head)
             /\ file'[n].revision >= file[n].revision
  <2>1. CASE n # m
    <3>1. file'[n] = file[n]
      BY <1>1, <1>7, <2>1 DEF Acknowledged, Save
    <3> QED
      BY <1>2, <3>1, PrefixSelf
  <2>2. CASE n = m
    <3> DEFINE g == Wrote(file[n], U(n))
    <3>1. op[n].at = "answered" /\ op[n].act # "setup" /\ file'[n] = g
      BY <1>1, <1>7, <2>2 DEF Acknowledged, At, Save, U
    <3>2. /\ file[n].head = U(n).expectedHead /\ file[n].revision = U(n).expectedRevision
          /\ U(n).vault.head = U(n).expectedHead \o U(n).event
      BY <1>1, <3>1 DEF PinsInv, FileInv, Posting
    <3>3. U(n) \in Updates(drawn)
      <4>1. op[n] \in Ops(drawn)
        BY <1>1 DEF Typed
      <4> QED
        BY <3>1, <4>1 DEF Ops, U
    <3>4. /\ g.root = file[n].root /\ g.head = U(n).vault.head
          /\ g.revision = U(n).expectedRevision + 1
      <4>1. drawn \in Nat
        BY <1>1 DEF Typed, IdentityAssumption
      <4> HIDE DEF g
      <4> QED
        BY <1>1, <3>2, <3>3, <4>1, WroteParts DEF g
    <3> HIDE DEF g
    <3>5. U(n).event \in Seq(States(drawn))
      BY <3>3 DEF Updates
    <3>6. Prefix(file[n].head, file[n].head \o U(n).event)
      BY <1>2, <3>5, PrefixSelf, PrefixGrows
    <3> QED
      BY <1>2, <3>1, <3>2, <3>4, <3>6
  <2> QED
    BY <2>1, <2>2
<1>8. ASSUME NEW m \in Machines, SetupAnswered(m)
      PROVE  /\ file'[n].root = file[n].root /\ Prefix(file[n].head, file'[n].head)
             /\ file'[n].revision >= file[n].revision
  <2>1. CASE n # m
    <3>1. file'[n] = file[n]
      BY <1>1, <1>8, <2>1 DEF SetupAnswered, Save
    <3> QED
      BY <1>2, <3>1, PrefixSelf
  <2>2. CASE n = m
    <3> DEFINE rec == After(NoRecord, U(n))
               g == Pinned(file[n], rec)
    <3>1. op[n].at = "answered" /\ op[n].act = "setup" /\ file'[n] = g /\ PinHolds(file[n], rec)
      BY <1>1, <1>8, <2>2 DEF SetupAnswered, At, Save, U
    <3>2. /\ g.root = State(rec).root /\ g.head = rec.events /\ g.revision = rec.vault.revision
          /\ rec.vault.revision = 1
      <4>1. PICK S \in SUBSET Links : U(n) = SetupWrite(file[n].id, file[n].root, S)
        BY <1>1, <3>1, SetupSent DEF Posting
      <4>2. file[n].id \in 1 .. drawn /\ file[n].root \in 1 .. drawn /\ drawn \in Nat
        BY <1>1 DEF Files, Typed, IdentityAssumption
      <4>3. RecordOK(rec)
        BY <4>1, <4>2, SetupOK
      <4>4. rec \in Records(drawn) /\ rec.vault.revision = 1
        <5> DEFINE h == <<First(file[n].id, file[n].root)>>
        <5>1. /\ rec = [events |-> h, vault |-> U(n).vault] /\ U(n).vault \in Vaults(drawn)
              /\ U(n).vault.revision = 1 /\ First(file[n].id, file[n].root) \in States(drawn)
          BY <4>1, <4>2, SetupParts
        <5>2. h \in Seq(States(drawn))
          BY <5>1
        <5> HIDE DEF h, rec
        <5> QED
          BY <5>1, <5>2 DEF Records
      <4>5. file[n] \in Unpinned(drawn)
        BY <1>1, <4>2, FileParts
      <4> HIDE DEF g, rec
      <4> QED
        BY <4>2, <4>3, <4>4, <4>5, PinnedParts DEF g
    <3> HIDE DEF g, rec
    <3>3. file[n].root = State(rec).root
      BY <1>2, <3>1 DEF PinHolds, None
    <3>4. Prefix(file[n].head, rec.events)
      BY <3>1 DEF PinHolds, SameHead, Prefix
    <3>5. file[n].revision <= rec.vault.revision
      BY <3>1 DEF PinHolds
    <3> QED
      BY <1>2, <3>1, <3>2, <3>3, <3>4, <3>5
  <2> QED
    BY <2>1, <2>2
<1>9. CASE \E m \in Machines : Act(m)
  <2>1. PICK m \in Machines : Act(m)
    BY <1>9
  <2>2. CASE PinStep(m)
    BY <1>4, <2>2
  <2>3. CASE ~PinStep(m)
    <3>1. SetUp(m) \/ SetUpAgain(m) \/ Discard(m)
      BY <2>1, <2>3, ReadKeeps, WriteKeeps DEF Act
    <3>2. file'[n] = file[n]
      BY <1>5, <1>6, <3>1 DEF SetUpAgain
    <3> QED
      BY <1>3, <3>2
  <2> QED
    BY <2>2, <2>3
<1>10. CASE \E m \in Machines : Deliver(m)
  <2>1. PICK m \in Machines : Deliver(m)
    BY <1>10
  <2>2. CASE Taken(m) \/ RefusedWrite(m) \/ RequestStored(m)
    <3>1. file' = file
      BY <2>2 DEF Taken, RefusedWrite, RequestStored
    <3> QED
      BY <1>3, <3>1
  <2> QED
    BY <1>7, <1>8, <2>1, <2>2 DEF Deliver
<1>11. CASE (\E m \in Machines : Fails(m) \/ \E l \in Links : Publish(m, l)) \/ Copy \/ Restore
            \/ UNCHANGED vars
  <2>1. file' = file
    BY <1>11 DEF Fails, Publish, Copy, Restore, vars
  <2> QED
    BY <1>3, <2>1
<1> QED
  BY <1>9, <1>10, <1>11 DEF Next

\* A machine never accepts a history that does not extend the one it accepted, nor an older
\* vault, whatever was lost, retried, recovered or restored in between.
THEOREM PinsAreKept ==
  ASSUME IdentityAssumption, LimitAssumption
  PROVE  Spec => [][KeepsItsPins]_vars
<1>1. IdentityInv /\ [Next]_vars => KeepsItsPins
  BY PinsKept
<1> QED
  BY <1>1, IdentityInvariance, PTL DEF Spec

-----------------------------------------------------------------------------
(* The record is an account as Account states it.                          *)

WrapKeys == {record.events[i].recoveryWrap.key : i \in DOMAIN record.events}
Members == IF record = NoRecord THEN {} ELSE Devices(State(record))
HeldKey == IF record = NoRecord THEN 0 ELSE record.vault.key
Retired == WrapKeys \ (IF record = NoRecord THEN {} ELSE {record.vault.key})
Backed == IF record = NoRecord THEN {} ELSE record.vault.links

\* A record that is there has members.
LEMMA HasMembers ==
  ASSUME IdentityAssumption, Typed, record # NoRecord
  PROVE  Devices(Now) # {} /\ Members = Devices(Now) /\ Now.recoveryWrap.key \in WrapKeys
<1>1. /\ drawn \in Nat /\ record \in Records(drawn) /\ RecordOK(record)
      /\ Len(record.events) \in 1 .. MaxEvents /\ record.events \in Seq(States(drawn))
  BY HeldRecord, RecordParts
<1>2. Len(record.events) \in DOMAIN record.events
  BY <1>1
<1>3. Cardinality(Devices(Now)) \in 1 .. MaxDevices
  BY <1>1, <1>2 DEF RecordOK, HistoryOK, Now, State
<1>4. Devices(Now) # {}
  BY <1>3, FS_EmptySet
<1> QED
  BY <1>2, <1>4 DEF Members, WrapKeys, Now, State

\* The first write opens the account.
LEMMA TakenOpens ==
  ASSUME IdentityAssumption, LimitAssumption, IdentityInv, restores = 0, record = NoRecord,
         NEW m \in Machines, Taken(m)
  PROVE  Promise!AccountNext
<1>1. /\ op[m].at = "post" /\ record' = After(record, U(m)) /\ drawn \in Nat /\ PinsInv
      /\ record' # NoRecord /\ Typed
  BY TakenParts DEF IdentityInv, PinsInv
<1>2. op[m].act = "setup"
  BY <1>1 DEF IdentityInv, AccountKept, Unset
<1>3. PICK S \in SUBSET Links :
        /\ U(m) = SetupWrite(file[m].id, file[m].root, S)
        /\ file[m] # NoFile /\ file[m].setup # <<>>
  BY <1>1, <1>2, SetupSent DEF Posting
<1>4. PICK id \in 1 .. drawn, k \in 1 .. drawn : id = file[m].id /\ k = file[m].root
  BY <1>1, <1>3, KeptSetup
<1>5. PICK f : f = First(id, k)
  OBVIOUS
<1> DEFINE h == <<f>>
<1>6. /\ record' = [events |-> h, vault |-> U(m).vault]
      /\ U(m).vault.key = k /\ U(m).vault.links = S
  <2>1. record' = After(NoRecord, SetupWrite(id, k, S))
    BY <1>1, <1>3, <1>4
  <2>2. U(m).vault.key = k /\ U(m).vault.links = S
    BY <1>1, <1>3, <1>4, SetupParts
  <2>3. After(NoRecord, SetupWrite(id, k, S)) = [events |-> h, vault |-> U(m).vault]
    BY <1>1, <1>3, <1>4, <1>5, SetupParts
  <2> QED
    BY <2>1, <2>2, <2>3
<1>7. Len(h) = 1 /\ h[1] = f /\ DOMAIN h = {1}
  OBVIOUS
<1>8. Devices(f) = {id} /\ f.recoveryWrap.key = k
  BY <1>5 DEF First, Devices
<1> HIDE DEF h
<1>9. record'.events = h /\ record'.vault = U(m).vault
  BY <1>6
<1>10. State(record') = f
  BY <1>7, <1>9 DEF State
<1>11. Members' = {id} /\ HeldKey' = k /\ Backed' = S /\ WrapKeys' = {k}
  BY <1>1, <1>6, <1>7, <1>8, <1>9, <1>10 DEF Members, HeldKey, Backed, WrapKeys
<1>12. Members = {} /\ HeldKey = 0 /\ Backed = {} /\ WrapKeys = {}
  <2>1. DOMAIN NoRecord.events = {}
    BY DEF NoRecord
  <2> QED
    BY <2>1 DEF Members, HeldKey, Backed, WrapKeys
<1>13. Retired = {} /\ Retired' = {}
  <2>1. record'.vault.key = k
    BY <1>6, <1>9
  <2> QED
    BY <1>1, <1>11, <1>12, <2>1 DEF Retired
<1>14. id \in Keys /\ k \in Keys
  BY <1>1 DEF Typed, IdentityAssumption, Keys
<1>15. Promise!Open(id, k, S)
  BY <1>11, <1>12, <1>13
     DEF Promise!Open, Promise!Closed, Promise!Back, Members, HeldKey, Backed, Retired, WrapKeys
<1> QED
  BY <1>14, <1>15 DEF Promise!AccountNext

\* A later write saves, lets a device in or removes one, under a key never used before.
LEMMA TakenChanges ==
  ASSUME IdentityAssumption, LimitAssumption, PinsInv, record # NoRecord, KeysInv,
         NEW m \in Machines, Taken(m), NEW new, Follows(m, new), Now' = new
  PROVE  Promise!AccountNext
<1>1. /\ Typed /\ record' # NoRecord /\ record'.vault = U(m).vault /\ drawn \in Nat
      /\ U(m) \in Updates(drawn)
  BY TakenParts DEF PinsInv
<1>2. PICK key, k, S :
        key = record.vault.key /\ k = U(m).vault.key /\ S = U(m).vault.links
  OBVIOUS
<1>3. S \in SUBSET Links /\ k \in 1 .. drawn
  <2>1. U(m).vault \in Vaults(drawn)
    BY <1>1 DEF Updates
  <2> QED
    BY <1>2, <2>1 DEF Vaults
<1>4. new.recoveryWrap.key = k /\ Now.recoveryWrap.key = key
  <2>1. new.recoveryWrap = [key |-> k, epoch |-> new.epoch]
    BY <1>2 DEF Follows
  <2>2. Now.recoveryWrap = [key |-> key, epoch |-> Now.epoch]
    BY <1>2 DEF KeysInv, CurrentWrap
  <2> QED
    BY <2>1, <2>2
<1>5. WrapKeys' = WrapKeys \union {k} /\ key \in WrapKeys
  <2>1. key \in WrapKeys
    BY <1>1, <1>4, HasMembers
  <2>2. CASE record'.events = record.events /\ new = Now
    <3>1. WrapKeys' = WrapKeys
      BY <2>2 DEF WrapKeys
    <3> QED
      BY <1>4, <2>1, <2>2, <3>1
  <2>3. CASE record'.events = Append(record.events, new)
    <3> DEFINE all == Append(record.events, new)
               l == Len(record.events)
    <3>1. /\ l \in Nat /\ all[l + 1] = new /\ DOMAIN all = DOMAIN record.events \union {l + 1}
          /\ \A i \in DOMAIN record.events : all[i] = record.events[i]
      <4>1. record.events \in Seq(States(drawn)) /\ new \in States(drawn)
        BY <1>1, HeldRecord, RecordParts DEF Follows
      <4> QED
        BY <4>1
    <3> HIDE DEF all, l
    <3>2. {all[i].recoveryWrap.key : i \in DOMAIN all} =
            {record.events[i].recoveryWrap.key : i \in DOMAIN record.events} \union {k}
      BY <1>4, <3>1
    <3>3. WrapKeys' = {all[i].recoveryWrap.key : i \in DOMAIN all}
      BY <2>3 DEF WrapKeys, all
    <3> QED
      BY <2>1, <3>2, <3>3 DEF WrapKeys
  <2> QED
    BY <2>1, <2>2, <2>3, TakenEvents
<1>6. /\ Members = Devices(Now) /\ HeldKey = key /\ Backed = record.vault.links
      /\ Retired = WrapKeys \ {key}
  BY <1>2 DEF Members, HeldKey, Backed, Retired, Now
<1>7. /\ Members' = Devices(new) /\ HeldKey' = k /\ Backed' = S /\ Retired' = WrapKeys' \ {k}
  <2>1. State(record') = new
    BY DEF Now
  <2>2. record'.vault.key = k /\ record'.vault.links = S
    BY <1>1, <1>2
  <2> QED
    BY <1>1, <2>1, <2>2 DEF Members, HeldKey, Backed, Retired
<1>8. Members # {} /\ Backed' = Backed \union S
  <2>1. record.vault.links \subseteq S
    BY <1>2 DEF Follows
  <2> QED
    BY <1>1, <1>6, <1>7, <2>1, HasMembers
<1>9. 1 .. drawn \subseteq Keys
  BY <1>1 DEF Typed, IdentityAssumption, Keys
<1>10. CASE Devices(new) = Devices(Now) /\ U(m).vault.key = record.vault.key
  <2>1. Members' = Members /\ HeldKey' = HeldKey /\ Retired' = Retired
    BY <1>2, <1>5, <1>6, <1>7, <1>10
  <2>2. Promise!Save(S)
    BY <1>8, <2>1
       DEF Promise!Save, Promise!Closed, Promise!Back, Members, HeldKey, Backed, Retired, WrapKeys
  <2> QED
    BY <1>3, <2>2 DEF Promise!AccountNext
<1>11. CASE \E d \in (1 .. drawn) \ Devices(Now) :
              Devices(new) = Devices(Now) \union {d} /\ U(m).vault.key = record.vault.key
  <2>1. PICK d \in (1 .. drawn) \ Devices(Now) :
          Devices(new) = Devices(Now) \union {d} /\ U(m).vault.key = record.vault.key
    BY <1>11
  <2>2. /\ Members' = Members \union {d} /\ d \notin Members
        /\ HeldKey' = HeldKey /\ Retired' = Retired
    BY <1>2, <1>5, <1>6, <1>7, <2>1
  <2>3. Promise!Join(d, S)
    BY <1>8, <2>2
       DEF Promise!Join, Promise!Closed, Promise!Back, Members, HeldKey, Backed, Retired, WrapKeys
  <2>4. d \in Keys
    BY <1>9
  <2> QED
    BY <1>3, <2>3, <2>4 DEF Promise!AccountNext
<1>12. CASE \E d \in Devices(Now) :
              /\ Devices(Now) # {d} /\ Devices(new) = Devices(Now) \ {d}
              /\ Unused(U(m).vault.key)
  <2>1. PICK d \in Devices(Now) :
          Devices(Now) # {d} /\ Devices(new) = Devices(Now) \ {d} /\ Unused(k)
    BY <1>2, <1>12
  <2>2. k \notin WrapKeys /\ k # key
    BY <1>2, <2>1 DEF Unused, WrapKeys
  <2>3. Retired' = Retired \union {key} /\ k \notin Retired \union {key}
    BY <1>5, <1>6, <1>7, <2>2
  <2>4. /\ d \in Members /\ Members # {d} /\ Members' = Members \ {d}
        /\ HeldKey' = k /\ Retired' = Retired \union {HeldKey} /\ k \notin Retired \union {HeldKey}
    BY <1>6, <1>7, <2>1, <2>3
  <2>5. Promise!Remove(d, k, S)
    BY <1>8, <2>4
       DEF Promise!Remove, Promise!Back, Members, HeldKey, Backed, Retired, WrapKeys
  <2>6. d \in Keys /\ k \in Keys
    BY <1>1, <1>3, <1>9, HeldRecord
  <2> QED
    BY <1>3, <2>5, <2>6 DEF Promise!AccountNext
<1> QED
  BY <1>10, <1>11, <1>12 DEF Follows

\* Every step of a machine and of the service is one of the account, or changes nothing there.
LEMMA PromiseStep ==
  ASSUME IdentityAssumption, LimitAssumption, IdentityInv, [Next]_vars, restores' = 0
  PROVE  Promise!AccountNext \/ UNCHANGED Promise!accountVars
<1>1. restores = 0 /\ ~Restore
  <2>1. restores \in Nat
    BY DEF IdentityInv, PinsInv, Typed, IdentityAssumption
  <2>2. ~Restore
    BY SMTT(60), <2>1 DEF Restore
  <2>3. restores' = restores \/ Restore
    BY ZenonT(60) DEF Next, Act, SetUp, SetUpAgain, Discard, Locked, Ask, Recover, CannotRecover, Look,
           ShowRecovery, ConfirmRecovery, Sync, Approve, Revoke, ShareOn, Writes, Deliver, Taken,
           RefusedWrite, Acknowledged, SetupAnswered, RequestStored, Fails, Publish, Copy, vars,
           service
  <2> QED
    BY <2>2, <2>3
<1>2. CASE \E m \in Machines : Taken(m)
  <2>1. PICK m \in Machines : Taken(m)
    BY <1>2
  <2>2. PinsInv
    BY DEF IdentityInv
  <2>3. CASE record = NoRecord
    BY <1>1, <2>1, <2>3, TakenOpens
  <2>4. CASE record # NoRecord
    <3>1. KeysInv /\ \A n \in Machines : MachineInv(n)
      BY <1>1, <2>4 DEF IdentityInv, AccountKept
    <3>2. Made(m) /\ op[m].act # "setup" /\ op[m].at = "post"
      BY <2>1, <2>2, <2>4, <3>1, TakenMade
    <3>3. PICK new : Follows(m, new)
      BY <2>2, <2>4, <3>1, <3>2, MadeFollows
    <3>4. Now' = new
      BY <2>1, <2>2, <2>4, <3>1, <3>3, TakenKeys
    <3> QED
      BY <2>1, <2>2, <2>4, <3>1, <3>3, <3>4, TakenChanges
  <2> QED
    BY <2>3, <2>4
<1>3. CASE ~\E m \in Machines : Taken(m)
  <2>1. record' = record
    BY ZenonT(60), <1>1, <1>3
       DEF Next, Act, SetUp, SetUpAgain, Discard, Locked, Ask, Recover, CannotRecover, Look,
           ShowRecovery, ConfirmRecovery, Sync, Approve, Revoke, ShareOn, Writes, Deliver,
           RefusedWrite, Acknowledged, SetupAnswered, RequestStored, Fails, Publish, Copy, vars,
           service
  <2> QED
    BY <2>1 DEF Promise!accountVars
<1> QED
  BY <1>2, <1>3

\* While the service loses nothing its record is an account: members join and leave it one at a
\* time, a removal changes the key for one never used, and links are only added.
THEOREM RecordIsAnAccount ==
  ASSUME IdentityAssumption, LimitAssumption, MaxRestores = 0
  PROVE  Spec => Promise!AccountSpec
<1>1. Init => Promise!AccountInit
  <2> SUFFICES ASSUME Init PROVE Promise!AccountInit
    OBVIOUS
  <2>1. record = NoRecord /\ DOMAIN NoRecord.events = {}
    BY DEF Init, NoRecord
  <2> QED
    BY <2>1 DEF Promise!AccountInit
<1>2. IdentityInv /\ IdentityInv' /\ [Next]_vars => [Promise!AccountNext]_(Promise!accountVars)
  <2>1. IdentityInv' => restores' = 0
    <3>1. IdentityInv => restores \in 0 .. 0
      BY DEF IdentityInv, PinsInv, Typed
    <3>2. \A x \in 0 .. 0 : x = 0
      OBVIOUS
    <3>3. IdentityInv => restores = 0
      BY <3>1, <3>2
    <3>4. IdentityInv' => restores' \in 0 .. 0
      BY DEF IdentityInv, PinsInv, Typed
    <3> QED
      BY <3>2, <3>4
  <2> QED
    BY <2>1, PromiseStep
<1> QED
  BY <1>1, <1>2, IdentityInvariance, PTL DEF Spec, Promise!AccountSpec
=============================================================================
