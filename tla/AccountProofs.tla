----------------------------- MODULE AccountProofs ----------------------------
(***************************************************************************)
(* Proofs about what the client and the service keep for a person, as      *)
(* MCAccount puts it side by side.  What LinkPublishProofs,                *)
(* NamedShareProofs and IdentityProofs prove for every value of their      *)
(* constants holds of the parts that instantiate those modules; a replaced *)
(* file and what is kept beside the previews are proved about here, for    *)
(* every choice of their constants.                                        *)
(***************************************************************************)
EXTENDS MCAccount, FiniteSetTheorems, TLAPS

Published == INSTANCE LinkPublishProofs WITH
  Processes <- Machines, Servers <- {s1}, Texts <- {text, bad}, Publishable <- {text},
  MaxSealed <- 3, MaxFaults <- 2, file <- document, drawn <- keys, op <- publishing
Pair == INSTANCE NamedShareProofs WITH
  People <- {ann}, Texts <- {text}, MaxSealed <- 1, MaxFaults <- 2, MaxLeftovers <- 0, MaxEpoch <- 2,
  op <- named
Couple == INSTANCE NamedShareProofs WITH
  Machines <- {m1}, People <- {ann, bob}, Texts <- {text}, MaxSealed <- 1, MaxFaults <- 1,
  MaxLeftovers <- 0, MaxEpoch <- 1, op <- named
Left == INSTANCE NamedShareProofs WITH
  Machines <- {m1}, People <- {ann}, Texts <- {text}, MaxSealed <- 1, MaxFaults <- 0,
  MaxLeftovers <- 1, MaxEpoch <- 1, op <- named

Held == INSTANCE IdentityProofs WITH
  Links <- {text}, MaxEvents <- 4, MaxDevices <- 3, MaxDrawn <- 4, MaxRevision <- 4,
  MaxRestores <- 0
Both == INSTANCE IdentityProofs WITH
  Links <- {}, MaxEvents <- 4, MaxDevices <- 2, MaxDrawn <- 5, MaxRevision <- 4, MaxRestores <- 0
Back == INSTANCE IdentityProofs WITH
  Links <- {}, MaxEvents <- 4, MaxDevices <- 3, MaxDrawn <- 4, MaxRevision <- 3, MaxRestores <- 1

\* A file that any processes replace, and what is kept beside the previews of any sessions.
Replacing(c) == INSTANCE PrivateFile WITH
  Writers <- c.writers, MaxWrites <- c.maxWrites, MaxFaults <- c.maxFaults
Kept(c) == INSTANCE Excerpts WITH
  Tabs <- c.tabs, Snapshots <- c.snapshots, SessionOf <- c.sessionOf, Unnamed <- c.unnamed,
  Picks <- c.picks, Makes <- c.makes, MaxSteps <- c.maxSteps, MaxFaults <- c.maxFaults,
  links <- noted

-----------------------------------------------------------------------------
(* A file that processes replace, whoever is killed and whenever the power *)
(* goes.                                                                   *)

File == <<"file", 0>>
Busy(p) == writer[p].at # "idle"
Steps == {"idle", "created", "written", "flushed", "renamed"}

FileShape(c) ==
  /\ File \in DOMAIN dir /\ \A x \in DOMAIN dir : dir[x] \in DOMAIN nodes
  /\ File \in DOMAIN onDisk /\ \A x \in DOMAIN onDisk : onDisk[x] \in DOMAIN nodes
  /\ \E n \in Nat : DOMAIN nodes = 0 .. n
  /\ \A n \in DOMAIN nodes : nodes[n] \in [whole : BOOLEAN, flushed : BOOLEAN]
  /\ DOMAIN writer = c.writers
  /\ \A p \in c.writers :
       /\ DOMAIN writer[p] = {"at", "node", "counter", "before"} /\ writer[p].at \in Steps
       /\ writer[p].node \in DOMAIN nodes /\ writer[p].before \subseteq DOMAIN nodes
  /\ replaced \subseteq DOMAIN nodes

\* What is flushed is there whole, and the file, here and on disk, was flushed.
FlushedFirst(c) ==
  /\ \A n \in DOMAIN nodes : nodes[n].flushed => nodes[n].whole
  /\ nodes[dir[File]].flushed /\ nodes[onDisk[File]].flushed
  /\ \A p \in c.writers :
       /\ writer[p].at = "written" => nodes[writer[p].node].whole
       /\ writer[p].at \in {"flushed", "renamed"} => nodes[writer[p].node].flushed

\* A write under way was not over before another that is, nor replaced by one that was.
NotOver(c) ==
  /\ \A p, q \in c.writers : Busy(p) /\ Busy(q) => writer[p].node \notin writer[q].before
  /\ \A p \in c.writers : Busy(p) => writer[p].node \notin replaced
  /\ \A p \in c.writers : writer[p].at = "renamed" => dir[File] \notin writer[p].before
  /\ dir[File] \notin replaced /\ onDisk[File] \notin replaced

FileInv(c) == FileShape(c) /\ FlushedFirst(c) /\ NotOver(c)

\* At first the file is there, whole and flushed, and no one writes.
LEMMA FileInvInit == ASSUME NEW c, Replacing(c)!PrivateInit PROVE FileInv(c)
<1>1. /\ dir = [x \in {File} |-> 0] /\ onDisk = dir
      /\ nodes = [n \in {0} |-> [whole |-> TRUE, flushed |-> TRUE]]
      /\ writer = [p \in c.writers |-> [at |-> "idle", node |-> 0, counter |-> 0, before |-> {}]]
      /\ replaced = {}
  BY DEF Replacing!PrivateInit, Replacing!File, Replacing!First, Replacing!Idle, File
<1>2. DOMAIN nodes = 0 .. 0
  BY SMTT(60), <1>1
<1> QED
  BY <1>1, <1>2 DEF FileInv, FileShape, FlushedFirst, NotOver, Busy, Steps

\* Every step of a write, a failure, a death and a loss of power keep it.
LEMMA FileInvNext ==
  ASSUME NEW c, Replacing(c)!PrivateAssumption, FileInv(c), [Replacing(c)!PrivateNext]_(Replacing(c)!privateVars)
  PROVE  FileInv(c)'
<1> USE DEF Replacing!At, Replacing!Goes, Replacing!Trouble, Replacing!Mine
<1>0. \A p \in c.writers : \A n : Replacing(c)!Temporary(p, n) # File
  BY DEF Replacing!PrivateAssumption, Replacing!Temporary, File
<1>1. /\ Replacing(c)!File = File
      /\ Replacing(c)!Idle = [at |-> "idle", node |-> 0, counter |-> 0, before |-> {}]
  BY DEF Replacing!File, File, Replacing!Idle, Replacing!First
<1>2. ASSUME NEW p \in c.writers, Replacing(c)!Create(p) PROVE FileInv(c)'
  <2>1. PICK node, free :
          /\ ~Busy(p) /\ node = Replacing(c)!Begun + 1
          /\ nodes' = Replacing(c)!With(nodes, node, [whole |-> FALSE, flushed |-> FALSE])
          /\ dir' = Replacing(c)!With(dir, Replacing(c)!Temporary(p, free), node)
          /\ writer' = [writer EXCEPT ![p] = [at |-> "created", node |-> node, counter |-> free,
                                              before |-> DOMAIN nodes \ Replacing(c)!InProgress]]
          /\ UNCHANGED <<onDisk, replaced>>
    BY <1>2 DEF Replacing!Create, Busy
  <2>2. PICK k \in Nat : DOMAIN nodes = 0 .. k
    BY DEF FileInv, FileShape
  <2>3. node = k + 1
    <3>0. k \in Int /\ 0 \in Int /\ ~(0 > k) /\ k - 0 + 1 = k + 1
      BY <2>2
    <3>1. Cardinality(0 .. k) = k + 1
      BY ONLY <3>0, FS_Interval
    <3>2. \A S : Replacing(c)!Cardinality(S) = Cardinality(S)
      BY DEF Replacing!Cardinality, Cardinality
    <3> QED
      BY <2>1, <2>2, <3>1, <3>2 DEF Replacing!Begun
  <2>4. /\ node \notin DOMAIN nodes /\ DOMAIN nodes' = 0 .. (k + 1) /\ k + 1 \in Nat
        /\ DOMAIN nodes' = DOMAIN nodes \union {node}
        /\ \A n \in DOMAIN nodes : nodes'[n] = nodes[n]
        /\ nodes'[node] = [whole |-> FALSE, flushed |-> FALSE]
    BY <2>1, <2>2, <2>3 DEF Replacing!With
  <2>5. \A q \in c.writers : Busy(q) => writer[q].node \in Replacing(c)!InProgress
    BY DEF Busy, Replacing!InProgress
  <2>6. /\ DOMAIN writer' = c.writers
        /\ \A q \in c.writers \ {p} : writer'[q] = writer[q]
        /\ writer'[p] = [at |-> "created", node |-> node, counter |-> free,
                         before |-> DOMAIN nodes \ Replacing(c)!InProgress]
    BY SMTT(60), <2>1 DEF FileInv, FileShape
  <2>7. /\ File \in DOMAIN dir' /\ dir'[File] = dir[File]
        /\ \A x \in DOMAIN dir' : dir'[x] \in DOMAIN nodes'
    BY <1>0, <2>1, <2>4 DEF FileInv, FileShape, Replacing!With
  <2> HIDE DEF File
  <2>8. FileShape(c)'
    <3>1. \A n \in DOMAIN nodes' : nodes'[n] \in [whole : BOOLEAN, flushed : BOOLEAN]
      <4>1. \A n \in DOMAIN nodes : nodes[n] \in [whole : BOOLEAN, flushed : BOOLEAN]
        BY DEF FileInv, FileShape
      <4>2. nodes'[node] \in [whole : BOOLEAN, flushed : BOOLEAN]
        BY <2>4
      <4> QED
        BY ONLY <2>4, <4>1, <4>2, Zenon
    <3>2. /\ DOMAIN writer'[p] = {"at", "node", "counter", "before"} /\ writer'[p].at \in Steps
          /\ writer'[p].node \in DOMAIN nodes' /\ writer'[p].before \subseteq DOMAIN nodes'
      <4>1. DOMAIN writer'[p] = {"at", "node", "counter", "before"} /\ writer'[p].at = "created"
        BY SMTT(60), <2>6
      <4>2. writer'[p].node = node /\ writer'[p].before = DOMAIN nodes \ Replacing(c)!InProgress
        BY SMTT(60), <2>6
      <4> QED
        BY ZenonT(60), <4>1, <4>2, <2>4 DEF Steps
    <3>3. onDisk' = onDisk /\ replaced' = replaced
      BY SMTT(60), <2>1
    <3> QED
      BY <2>4, <2>6, <2>7, <3>1, <3>2, <3>3 DEF FileInv, FileShape
  <2>9. FlushedFirst(c)'
    BY SMTT(60), <2>1, <2>4, <2>6, <2>7 DEF FileInv, FileShape, FlushedFirst
  <2>10. NotOver(c)'
    BY <2>1, <2>4, <2>5, <2>6, <2>7 DEF FileInv, FileShape, NotOver, Busy
  <2> QED
    BY <2>8, <2>9, <2>10 DEF FileInv
<1>3. ASSUME NEW p \in c.writers, Replacing(c)!Write(p) \/ Replacing(c)!Sync(p) PROVE FileInv(c)'
  <2>1. /\ DOMAIN writer[p] = {"at", "node", "counter", "before"} /\ writer[p].node \in DOMAIN nodes
        /\ writer[p].before \subseteq DOMAIN nodes
        /\ nodes[writer[p].node] \in [whole : BOOLEAN, flushed : BOOLEAN]
    BY DEF FileInv, FileShape
  <2> DEFINE node == writer[p].node
             at == writer'[p].at
  <2>2. /\ writer' = [writer EXCEPT ![p].at = at] /\ at \in {"written", "flushed"}
        /\ at = "flushed" => writer[p].at = "written"
        /\ nodes' = [nodes EXCEPT ![node] = IF at = "written" THEN [@ EXCEPT !.whole = TRUE]
                                            ELSE [@ EXCEPT !.flushed = TRUE]]
        /\ Busy(p) /\ UNCHANGED <<dir, onDisk, replaced>>
    BY <1>3, <2>1 DEF Replacing!Write, Replacing!Sync, FileInv, FileShape, Busy
  <2>3. /\ DOMAIN nodes' = DOMAIN nodes /\ node \in DOMAIN nodes
        /\ \A n \in DOMAIN nodes \ {node} : nodes'[n] = nodes[n]
        /\ nodes'[node] \in [whole : BOOLEAN, flushed : BOOLEAN]
        /\ nodes[node].flushed => nodes'[node].flushed
        /\ nodes'[node].whole
        /\ at = "flushed" => nodes'[node].flushed
    BY <2>1, <2>2 DEF FileInv, FlushedFirst
  <2>4. /\ DOMAIN writer' = c.writers /\ \A q \in c.writers \ {p} : writer'[q] = writer[q]
        /\ DOMAIN writer'[p] = DOMAIN writer[p]
        /\ writer'[p].node = node /\ writer'[p].before = writer[p].before
        /\ writer'[p].at = at /\ writer[p].node = node
    BY <2>1, <2>2 DEF FileInv, FileShape
  <2>8. /\ UNCHANGED <<dir, onDisk, replaced>> /\ at \in {"written", "flushed"} /\ Busy(p)
    BY SMTT(60), <2>2
  <2> HIDE DEF node, at
  <2>5. FileShape(c)'
    <3>1. \A n \in DOMAIN nodes' : nodes'[n] \in [whole : BOOLEAN, flushed : BOOLEAN]
      BY <2>3 DEF FileInv, FileShape
    <3>2. /\ DOMAIN writer'[p] = {"at", "node", "counter", "before"} /\ writer'[p].at \in Steps
          /\ writer'[p].node \in DOMAIN nodes' /\ writer'[p].before \subseteq DOMAIN nodes'
      BY <2>1, <2>2, <2>3, <2>4 DEF Steps
    <3> QED
      BY <2>2, <2>3, <2>4, <3>1, <3>2 DEF FileInv, FileShape
  <2>6. FlushedFirst(c)'
    <3>1. \A n \in DOMAIN nodes : /\ nodes[n].flushed => nodes'[n].flushed
                                  /\ nodes[n].whole => nodes'[n].whole
                                  /\ nodes'[n].flushed => nodes'[n].whole
      BY SMTT(60), <2>3 DEF FileInv, FlushedFirst
    <3>2. /\ dir[File] \in DOMAIN nodes /\ onDisk[File] \in DOMAIN nodes
          /\ \A q \in c.writers : writer[q].node \in DOMAIN nodes
      BY SMTT(60) DEF FileInv, FileShape
    <3>3. \A q \in c.writers :
            /\ writer'[q].at = "written" => nodes'[writer'[q].node].whole
            /\ writer'[q].at \in {"flushed", "renamed"} => nodes'[writer'[q].node].flushed
      BY <2>3, <2>4, <2>8, <3>1, <3>2 DEF FileInv, FlushedFirst
    <3> QED
      BY <2>3, <2>8, <3>1, <3>2, <3>3 DEF FileInv, FlushedFirst
  <2>7. NotOver(c)'
    <3>1. \A q \in c.writers : /\ writer'[q].node = writer[q].node /\ writer'[q].before = writer[q].before
                               /\ Busy(q)' <=> Busy(q)
                               /\ writer'[q].at = "renamed" => writer[q].at = "renamed"
      BY <2>4, <2>8 DEF Busy
    <3> QED
      BY <2>8, <3>1 DEF FileInv, NotOver
  <2> QED
    BY <2>5, <2>6, <2>7 DEF FileInv
<1>4. ASSUME NEW p \in c.writers, Replacing(c)!Rename(p) PROVE FileInv(c)'
  <2>1. /\ File \in DOMAIN dir' /\ dir'[File] = writer[p].node
        /\ \A x \in DOMAIN dir' : dir'[x] \in DOMAIN nodes
        /\ writer' = [writer EXCEPT ![p].at = "renamed"] /\ writer[p].at = "flushed"
        /\ UNCHANGED <<onDisk, nodes, replaced>>
    BY <1>1, <1>4 DEF Replacing!Rename, Replacing!With, Replacing!Without, FileInv, FileShape
  <2> QED
    BY SMTT(60), <2>1 DEF FileInv, FileShape, FlushedFirst, NotOver, Busy, Steps
<1>5. ASSUME NEW p \in c.writers, Replacing(c)!Flushed(p) PROVE FileInv(c)'
  BY <1>1, <1>5 DEF Replacing!Flushed, FileInv, FileShape, FlushedFirst, NotOver, Busy, Steps
<1>6. ASSUME NEW p \in c.writers, Replacing(c)!Fails(p) \/ Replacing(c)!Killed(p) PROVE FileInv(c)'
  <2>1. /\ File \in DOMAIN dir' /\ dir'[File] = dir[File]
        /\ \A x \in DOMAIN dir' : dir'[x] \in DOMAIN nodes
    BY <1>0, <1>6 DEF Replacing!Fails, Replacing!Killed, Replacing!Without, FileInv, FileShape
  <2>2. /\ DOMAIN writer' = c.writers /\ \A q \in c.writers \ {p} : writer'[q] = writer[q]
        /\ writer'[p].at = "idle" /\ writer'[p].node = 0 /\ writer'[p].before = {}
        /\ DOMAIN writer'[p] = {"at", "node", "counter", "before"}
        /\ UNCHANGED <<onDisk, nodes, replaced>>
    BY <1>1, <1>6 DEF Replacing!Fails, Replacing!Killed, FileInv, FileShape
  <2> HIDE DEF File
  <2>3. \E n \in Nat : DOMAIN nodes = 0 .. n
    BY DEF FileInv, FileShape
  <2>4. 0 \in DOMAIN nodes
    BY SMTT(60), <2>3
  <2>5. FileShape(c)'
    BY <2>1, <2>2, <2>4 DEF FileInv, FileShape, Steps
  <2>6. FlushedFirst(c)'
    BY <2>1, <2>2 DEF FileInv, FlushedFirst
  <2>7. NotOver(c)'
    <3>1. \A q \in c.writers : /\ Busy(q)' => q # p /\ Busy(q) /\ writer'[q] = writer[q]
                               /\ writer'[q].at = "renamed" => q # p /\ writer'[q] = writer[q]
      BY <2>2 DEF Busy
    <3> QED
      BY <2>1, <2>2, <3>1 DEF FileInv, NotOver
  <2> QED
    BY <2>5, <2>6, <2>7 DEF FileInv
<1>7. CASE Replacing(c)!WritesBack
  <2>1. CASE onDisk' = dir /\ UNCHANGED <<dir, nodes, writer, replaced, trouble>>
    BY SMTT(60), <2>1 DEF FileInv, FileShape, FlushedFirst, NotOver, Busy
  <2>2. CASE /\ \E n \in DOMAIN nodes : nodes[n].whole /\ nodes' = [nodes EXCEPT ![n].flushed = TRUE]
             /\ UNCHANGED <<dir, onDisk, writer, replaced, trouble>>
    <3>1. PICK n \in DOMAIN nodes : nodes[n].whole /\ nodes' = [nodes EXCEPT ![n].flushed = TRUE]
      BY <2>2
    <3>2. /\ DOMAIN nodes' = DOMAIN nodes /\ nodes[n] \in [whole : BOOLEAN, flushed : BOOLEAN]
          /\ \A x \in DOMAIN nodes \ {n} : nodes'[x] = nodes[x]
          /\ nodes'[n] = [nodes[n] EXCEPT !.flushed = TRUE]
      BY <3>1 DEF FileInv, FileShape
    <3>3. /\ nodes'[n] \in [whole : BOOLEAN, flushed : BOOLEAN]
          /\ nodes'[n].whole /\ nodes'[n].flushed
      BY <3>1, <3>2
    <3> QED
      BY ZenonT(60), <2>2, <3>2, <3>3 DEF FileInv, FileShape, FlushedFirst, NotOver, Busy
  <2> QED
    BY <1>7, <2>1, <2>2 DEF Replacing!WritesBack
<1>8. CASE Replacing(c)!PowerGoes
  <2>1. /\ dir' = onDisk /\ UNCHANGED <<onDisk, replaced>>
        /\ DOMAIN nodes' = DOMAIN nodes
        /\ \A n \in DOMAIN nodes : nodes'[n] = [nodes[n] EXCEPT !.whole = nodes[n].flushed]
        /\ writer' = [p \in c.writers |-> Replacing(c)!Idle]
    BY SMTT(60), <1>8 DEF Replacing!PowerGoes
  <2>2. \A n \in DOMAIN nodes : /\ nodes'[n] \in [whole : BOOLEAN, flushed : BOOLEAN]
                                /\ nodes'[n].flushed = nodes[n].flushed
                                /\ nodes'[n].whole = nodes[n].flushed
    BY SMTT(60), <2>1 DEF FileInv, FileShape
  <2>3. /\ DOMAIN writer' = c.writers
        /\ \A p \in c.writers : /\ writer'[p].at = "idle" /\ writer'[p].node = 0 /\ writer'[p].before = {}
                                /\ DOMAIN writer'[p] = {"at", "node", "counter", "before"}
    BY <1>1, <2>1
  <2> QED
    BY <2>1, <2>2, <2>3 DEF FileInv, FileShape, FlushedFirst, NotOver, Busy, Steps
<1>9. CASE UNCHANGED Replacing(c)!privateVars
  BY SMTT(60), <1>9 DEF Replacing!privateVars, FileInv, FileShape, FlushedFirst, NotOver, Busy
<1> QED
  BY <1>2, <1>3, <1>4, <1>5, <1>6, <1>7, <1>8, <1>9 DEF Replacing!PrivateNext, Replacing!Replace

\* A file so kept is never torn, and what was acknowledged stays.
LEMMA FileInvHolds ==
  ASSUME NEW c, FileInv(c)
  PROVE  Replacing(c)!PrivateTypeOK /\ Replacing(c)!NeverTorn /\ Replacing(c)!AcknowledgedStays
<1>1. PICK k \in Nat : DOMAIN nodes = 0 .. k
  BY DEF FileInv, FileShape
<1>2. Replacing(c)!Begun = k
  <2>1. Cardinality(0 .. k) = k + 1
    BY SMTT(60), FS_Interval
  <2>2. \A S : Replacing(c)!Cardinality(S) = Cardinality(S)
    BY DEF Replacing!Cardinality, Cardinality
  <2> QED
    BY <1>1, <2>1, <2>2 DEF Replacing!Begun
<1> QED
  BY <1>1, <1>2 DEF FileInv, FileShape, FlushedFirst, NotOver, Replacing!PrivateTypeOK, Replacing!NeverTorn,
     Replacing!AcknowledgedStays, Replacing!File, File, Replacing!First, Replacing!At

-----------------------------------------------------------------------------
(* What is kept beside the previews.                                       *)

NoRequest == [at |-> "none"]
Asks(t) == request[t] # NoRequest

\* A request is of its kind, and of what its kind is of.
Kind(c, r) ==
  \/ r.is = "title" /\ r.at \in {"snapshot", "session", "reply"} /\ r.of \in c.snapshots
  \/ r.is = "export" /\ r.at \in {"save", "note", "reply"} /\ r.of \in c.snapshots \X c.picks
  \/ r.is = "publish" /\ r.at \in {"upload", "reply"} /\ r.of \in Kept(c)!Excerpts
Asked(c, r) ==
  /\ DOMAIN r = {"is", "at", "of", "id", "before"} /\ Kind(c, r)
  /\ r.id \in 1 .. clock /\ r.before \subseteq 1 .. clock

\* What is kept was written by a request, under a name or for an excerpt that is one.
BesideShape(c) ==
  /\ clock \in Nat /\ cut \in Nat
  /\ DOMAIN request = c.tabs /\ \A t \in c.tabs : Asks(t) => Asked(c, request[t])
  /\ \A r \in told : Asked(c, r)
  /\ DOMAIN titles \subseteq c.snapshots \union {c.sessionOf[p] : p \in c.snapshots}
  /\ \A x \in DOMAIN titles : titles[x] \in 1 .. clock
  /\ kept \union DOMAIN notes \union DOMAIN noted \subseteq Kept(c)!Excerpts
  /\ \A x \in DOMAIN notes : notes[x].of \in c.snapshots \X c.picks /\ c.makes[notes[x].of] = x

\* A request under way was not over when another, or one that was answered, was begun.
UnderWay(c) ==
  \A t \in c.tabs : Asks(t) =>
    /\ \A u \in c.tabs : Asks(u) => request[t].id \notin request[u].before
    /\ \A r \in told : request[t].id \notin r.before

\* What a request wrote is there, or what another wrote that was not over before it.
StillThere(c, r) ==
  /\ r.is = "title" /\ r.at \in {"session", "reply"} =>
       r.of \in DOMAIN titles /\ titles[r.of] \notin r.before
  /\ r.is = "title" /\ r.at = "reply" /\ Kept(c)!Keys(r.of) # {} =>
       c.sessionOf[r.of] \in DOMAIN titles /\ titles[c.sessionOf[r.of]] \notin r.before
  /\ r.is = "export" /\ r.at = "reply" =>
       c.makes[r.of] \in DOMAIN notes /\ notes[c.makes[r.of]].by \notin r.before
  /\ r.is = "publish" /\ r.at = "reply" /\ cut = 0 =>
       r.of \in DOMAIN noted /\ noted[r.of] \notin r.before

BesideInv(c) ==
  /\ BesideShape(c) /\ UnderWay(c)
  /\ \A t \in c.tabs : Asks(t) => StillThere(c, request[t])
  /\ \A r \in told : r.at = "reply" /\ StillThere(c, r)

\* At first nothing was asked.
LEMMA BesideInvInit == ASSUME NEW c, Kept(c)!ExcerptsInit PROVE BesideInv(c)
<1>1. /\ DOMAIN titles = {} /\ DOMAIN notes = {} /\ kept = {} /\ DOMAIN noted = {}
      /\ request = [t \in c.tabs |-> NoRequest] /\ clock = 0 /\ told = {} /\ cut = 0
  BY DEF Kept!ExcerptsInit, Kept!No, NoRequest
<1> QED
  BY <1>1 DEF BesideInv, BesideShape, UnderWay, Asks

\* A request is begun under a number of its own.
LEMMA BesideBegun ==
  ASSUME NEW c, BesideInv(c), NEW t \in c.tabs, NEW is, NEW at, NEW of, NEW new,
         Kept(c)!Begin(t, is, at, of), at \notin {"session", "reply"},
         new = [is |-> is, at |-> at, of |-> of, id |-> clock + 1, before |-> Kept(c)!Over],
         Kind(c, new),
         UNCHANGED <<titles, notes, kept, noted, told, cut>>
  PROVE  BesideInv(c)'
<1>1. /\ request[t] = NoRequest /\ clock' = clock + 1
      /\ request' = [request EXCEPT ![t] = new]
  BY DEF Kept!Begin, Kept!No, NoRequest
<1>2. /\ clock \in Nat /\ clock' \in Nat /\ 1 .. clock \subseteq 1 .. clock'
      /\ clock' \in 1 .. clock'
      /\ clock' \notin 1 .. clock
  BY SMTT(60), <1>1 DEF BesideInv, BesideShape
<1>3. /\ Kept(c)!Over \subseteq 1 .. clock
      /\ \A u \in c.tabs : Asks(u) => request[u].id \notin Kept(c)!Over
  BY DEF Kept!Over, Kept!No, Asks, NoRequest
<1>4. /\ DOMAIN new = {"is", "at", "of", "id", "before"} /\ new.is = is /\ new.at = at
      /\ new.of = of
      /\ new.id = clock' /\ new.before = Kept(c)!Over /\ Kind(c, new)
  BY SMTT(60), <1>1
<1>5. /\ request'[t] = new /\ \A u \in c.tabs \ {t} : request'[u] = request[u]
      /\ DOMAIN request' = c.tabs /\ ~Asks(t)
  BY SMTT(60), <1>1 DEF BesideInv, BesideShape, Asks
<1>6. BesideShape(c)'
  <2>1. \A r : Asked(c, r) => Asked(c, r)'
    BY SMTT(60), <1>2 DEF Asked
  <2>2. Asked(c, new)'
    BY <1>2, <1>3, <1>4 DEF Asked
  <2>3. \A u \in c.tabs : Asks(u)' => Asked(c, request[u])'
    BY <1>5, <2>1, <2>2 DEF BesideInv, BesideShape, Asks, Asked
  <2> QED
    BY <1>2, <1>5, <2>1, <2>3 DEF BesideInv, BesideShape
<1>7. UnderWay(c)'
  <2>1. \A u \in c.tabs : Asks(u) => request[u].before \subseteq 1 .. clock
    BY DEF BesideInv, BesideShape, Asked
  <2>2. \A r \in told : r.before \subseteq 1 .. clock
    BY DEF BesideInv, BesideShape, Asked
  <2>3. \A u \in c.tabs : u # t /\ Asks(u)' => Asks(u) /\ request'[u] = request[u]
    BY SMTT(60), <1>5 DEF Asks
  <2> QED
    BY <1>2, <1>3, <1>4, <1>5, <2>1, <2>2, <2>3 DEF BesideInv, UnderWay
<1>8. StillThere(c, new)'
  BY <1>4 DEF StillThere
<1>9. /\ \A u \in c.tabs : Asks(u) => StillThere(c, request[u])
      /\ \A r \in told : r.at = "reply" /\ StillThere(c, r)
  BY SMTT(60) DEF BesideInv
<1>10. \A u \in c.tabs : Asks(u)' => StillThere(c, request[u])'
  BY SMTT(60), <1>5, <1>8, <1>9 DEF StillThere, Asks
<1>11. \A r \in told' : r.at = "reply" /\ StillThere(c, r)'
  BY SMTT(60), <1>9 DEF StillThere
<1> QED
  BY <1>6, <1>7, <1>10, <1>11 DEF BesideInv

\* What a step writes is written under this number, and it takes nothing away.
WritesAs(c, id) ==
  /\ DOMAIN titles \subseteq DOMAIN titles'
  /\ DOMAIN titles' \subseteq c.snapshots \union {c.sessionOf[p] : p \in c.snapshots}
  /\ \A x \in DOMAIN titles' :
       titles'[x] = id \/ (x \in DOMAIN titles /\ titles'[x] = titles[x])
  /\ DOMAIN notes \subseteq DOMAIN notes'
  /\ \A x \in DOMAIN notes' :
       \/ /\ notes'[x].by = id /\ notes'[x].of \in c.snapshots \X c.picks
          /\ c.makes[notes'[x].of] = x
       \/ x \in DOMAIN notes /\ notes'[x] = notes[x]
  /\ cut' = 0 => cut = 0 /\ DOMAIN noted \subseteq DOMAIN noted'
  /\ \A x \in DOMAIN noted' : noted'[x] = id \/ (x \in DOMAIN noted /\ noted'[x] = noted[x])
  /\ kept' \union DOMAIN notes' \union DOMAIN noted' \subseteq Kept(c)!Excerpts
  /\ cut' \in Nat /\ UNCHANGED <<clock, told>>

\* A request goes on: what it writes, it writes under its own number.
LEMMA BesideGoesOn ==
  ASSUME NEW c, BesideInv(c), NEW t \in c.tabs, Asks(t), NEW at, NEW new,
         request' = [request EXCEPT ![t].at = at], new = [request[t] EXCEPT !.at = at],
         Kind(c, new), StillThere(c, new)', WritesAs(c, request[t].id)
  PROVE  BesideInv(c)'
<1>1. /\ request'[t] = new /\ \A u \in c.tabs \ {t} : request'[u] = request[u]
      /\ DOMAIN request' = c.tabs
  BY DEF BesideInv, BesideShape
<1>2. /\ DOMAIN new = {"is", "at", "of", "id", "before"} /\ Kind(c, new) /\ new.id = request[t].id
      /\ new.before = request[t].before
  <2>1. DOMAIN request[t] = {"is", "at", "of", "id", "before"}
    BY DEF BesideInv, BesideShape, Asked
  <2> QED
    BY SMTT(60), <2>1
<1>4. BesideShape(c)'
  <2>1. \A r : Asked(c, r) => Asked(c, r)'
    BY DEF Asked, WritesAs
  <2>2. Asked(c, new)'
    BY SMTT(60), <1>2 DEF BesideInv, BesideShape, Asked, WritesAs
  <2>3. \A u \in c.tabs : Asks(u)' => Asked(c, request[u])'
    BY <1>1, <2>2 DEF BesideInv, BesideShape, Asks, Asked, WritesAs
  <2>4. \A x \in DOMAIN titles' : titles'[x] \in 1 .. clock
    BY DEF BesideInv, BesideShape, Asked, WritesAs
  <2>5. \A x \in DOMAIN notes' : notes'[x].of \in c.snapshots \X c.picks /\ c.makes[notes'[x].of] = x
    BY DEF BesideInv, BesideShape, WritesAs
  <2> QED
    BY <1>1, <2>1, <2>3, <2>4, <2>5 DEF BesideInv, BesideShape, WritesAs
<1>5. \A u \in c.tabs : Asks(u)' =>
        Asks(u) /\ request'[u].id = request[u].id /\ request'[u].before = request[u].before
  BY <1>1, <1>2 DEF Asks
<1>6. UnderWay(c)'
  BY SMTT(60), <1>5 DEF BesideInv, UnderWay, WritesAs
<1>7. ASSUME NEW r, request[t].id \notin r.before, StillThere(c, r) PROVE StillThere(c, r)'
  BY SMTT(60), <1>7 DEF StillThere, WritesAs, Kept!Keys
<1>8. \A u \in c.tabs : Asks(u)' => StillThere(c, request[u])'
  <2> SUFFICES ASSUME NEW u \in c.tabs, Asks(u)' PROVE StillThere(c, request[u])'
    BY SMTT(60)
  <2>1. CASE u = t
    BY <1>1, <2>1 DEF StillThere
  <2>2. CASE u # t
    <3>1. request'[u] = request[u] /\ Asks(u)
      BY <1>1, <2>2 DEF Asks
    <3>2. request[t].id \notin request[u].before /\ StillThere(c, request[u])
      BY <3>1 DEF BesideInv, UnderWay
    <3> DEFINE r == request[u]
    <3>3. PICK s : s = r
      BY SMTT(60)
    <3> HIDE DEF r
    <3>4. StillThere(c, s)'
      BY <1>7, <3>2, <3>3 DEF r, StillThere
    <3> QED
      BY <3>1, <3>3, <3>4 DEF r, StillThere
  <2> QED
    BY <2>1, <2>2
<1>9. \A r \in told' : r.at = "reply" /\ StillThere(c, r)'
  BY SMTT(60), <1>7 DEF BesideInv, UnderWay, WritesAs
<1> QED
  BY <1>4, <1>6, <1>8, <1>9 DEF BesideInv
\* A request is over, its tab told or not.
LEMMA BesideEnds ==
  ASSUME NEW c, BesideInv(c), NEW t \in c.tabs, Asks(t),
         request' = [request EXCEPT ![t] = NoRequest],
         \/ told' = told
         \/ request[t].at = "reply" /\ told' = told \union {request[t]},
         cut' \in Nat, cut' = 0 => cut = 0, UNCHANGED <<titles, notes, kept, noted, clock>>
  PROVE  BesideInv(c)'
<1>1. /\ \A u \in c.tabs : Asks(u)' => Asks(u) /\ u # t /\ request'[u] = request[u]
      /\ DOMAIN request' = c.tabs
  BY DEF BesideInv, BesideShape, Asks
<1>2. \A r \in told' : r \in told \/ (r = request[t] /\ r.at = "reply")
  BY SMTT(60)
<1>3. \A r : /\ Asked(c, r) => Asked(c, r)'
             /\ StillThere(c, r) => StillThere(c, r)'
  BY DEF Asked, StillThere, Kept!Keys
<1>4. \A r : r \in told \/ (r = request[t] /\ r.at = "reply") =>
        Asked(c, r) /\ r.at = "reply" /\ StillThere(c, r)
  BY DEF BesideInv, BesideShape
<1>8. BesideShape(c)'
  <2>1. \A u \in c.tabs : Asks(u)' => Asked(c, request[u])'
    BY <1>1 DEF BesideInv, BesideShape, Asked
  <2>2. \A r \in told' : Asked(c, r)'
    BY <1>2, <1>4, <1>3
  <2> QED
    BY <1>1, <2>1, <2>2 DEF BesideInv, BesideShape
<1>5. UnderWay(c)'
  BY <1>1, <1>2 DEF BesideInv, UnderWay
<1>6. \A u \in c.tabs : Asks(u)' => StillThere(c, request[u])'
  BY <1>1, <1>3 DEF BesideInv, StillThere
<1>7. \A r \in told' : r.at = "reply" /\ StillThere(c, r)'
  BY <1>2, <1>3, <1>4
<1> QED
  BY <1>8, <1>5, <1>6, <1>7 DEF BesideInv

\* Every step keeps it.
LEMMA BesideInvNext ==
  ASSUME NEW c, Kept(c)!ExcerptsAssumption, BesideInv(c),
         [Kept(c)!ExcerptsNext]_(Kept(c)!excerptVars)
  PROVE  BesideInv(c)'
<1>0. /\ DOMAIN c.makes = c.snapshots \X c.picks /\ c.maxFaults \in Nat
      /\ \A m \in c.snapshots \X c.picks : c.makes[m] \in Kept(c)!Excerpts
  BY DEF Kept!ExcerptsAssumption, Kept!Excerpts
<1>1. ASSUME NEW t \in c.tabs,
             Kept(c)!PutTitle(t) \/ Kept(c)!PostExport(t) \/ Kept(c)!PostPublish(t)
      PROVE  BesideInv(c)'
  <2>1. PICK is, at, of :
          /\ Kept(c)!Begin(t, is, at, of) /\ UNCHANGED <<titles, notes, kept, noted, told, cut>>
          /\ \/ is = "title" /\ at = "snapshot" /\ of \in c.snapshots
             \/ is = "export" /\ at = "save" /\ of \in c.snapshots \X c.picks
             \/ is = "publish" /\ at = "upload" /\ of \in kept
    BY <1>1 DEF Kept!PutTitle, Kept!PostExport, Kept!PostPublish
  <2>2. PICK new :
          new = [is |-> is, at |-> at, of |-> of, id |-> clock + 1, before |-> Kept(c)!Over]
    OBVIOUS
  <2>3. Kind(c, new) /\ at \notin {"session", "reply"}
    BY <2>1, <2>2 DEF Kind, BesideInv, BesideShape
  <2> QED
    BY <2>1, <2>2, <2>3, BesideBegun
<1>2. ASSUME NEW t \in c.tabs,
             \/ Kept(c)!UnderSnapshot(t) \/ Kept(c)!UnderSession(t) \/ Kept(c)!SaveExcerpt(t)
             \/ Kept(c)!RecordView(t) \/ Kept(c)!RecordPublished(t)
      PROVE  BesideInv(c)'
  <2>1. PICK at : request' = [request EXCEPT ![t].at = at]
    BY <1>2 DEF Kept!UnderSnapshot, Kept!UnderSession, Kept!SaveExcerpt, Kept!RecordView,
                Kept!RecordPublished, Kept!Goes
  <2>2. PICK new : new = [request[t] EXCEPT !.at = at]
    OBVIOUS
  <2>3. /\ Asks(t) /\ Asked(c, request[t])
        /\ \A r \in {request[t]} : request[t].id \notin r.before /\ StillThere(c, r)
    BY <1>2 DEF Kept!UnderSnapshot, Kept!UnderSession, Kept!SaveExcerpt, Kept!RecordView,
                Kept!RecordPublished, Kept!Waits, Kept!No, NoRequest, Asks, BesideInv, BesideShape,
                UnderWay
  <2>4. /\ new.is = request[t].is /\ new.of = request[t].of /\ new.id = request[t].id
        /\ new.before = request[t].before /\ new.at = at
    BY <2>2, <2>3 DEF Asked
  <2> DEFINE id == request[t].id
  <2>5. /\ new.of = request[t].of /\ new.is = request[t].is /\ new.before = request[t].before
        /\ id \notin new.before /\ cut \in Nat /\ clock \in Nat
        /\ request[t].is = "title" => request[t].of \in c.snapshots
        /\ request[t].is = "export" => request[t].of \in c.snapshots \X c.picks
        /\ request[t].is = "publish" => request[t].of \in Kept(c)!Excerpts
        /\ kept \union DOMAIN notes \union DOMAIN noted \subseteq Kept(c)!Excerpts
        /\ DOMAIN titles \subseteq c.snapshots \union {c.sessionOf[p] : p \in c.snapshots}
    BY <2>3, <2>4 DEF Asked, Kind, BesideInv, BesideShape
  <2> HIDE DEF id
  <2>6. CASE Kept(c)!UnderSnapshot(t)
    <3>1. /\ request[t].is = "title" /\ request[t].at = "snapshot"
          /\ titles' = Kept(c)!Put(titles, request[t].of, id)
          /\ request' = [request EXCEPT ![t].at =
               IF Kept(c)!Keys(request[t].of) = {} THEN "reply" ELSE "session"]
          /\ UNCHANGED <<notes, kept, noted, clock, told, cut>>
      BY SMTT(60), <2>6 DEF Kept!UnderSnapshot, Kept!Waits, Kept!Goes, id
    <3>2. DOMAIN request[t] = {"is", "at", "of", "id", "before"} /\ t \in DOMAIN request
      BY SMTT(60), <2>3 DEF Asked, BesideInv, BesideShape
    <3>3. new.at = IF Kept(c)!Keys(request[t].of) = {} THEN "reply" ELSE "session"
      BY <2>1, <2>2, <3>1, <3>2
    <3>4. /\ DOMAIN titles' = DOMAIN titles \union {request[t].of} /\ titles'[request[t].of] = id
          /\ \A x \in DOMAIN titles : titles'[x] = id \/ titles'[x] = titles[x]
      BY SMTT(60), <3>1 DEF Kept!Put
    <3>5. Kind(c, new)
      BY <2>5, <3>1, <3>3 DEF Kind
    <3>6. StillThere(c, new)'
      BY <2>5, <3>1, <3>3, <3>4 DEF StillThere, Kept!Keys
    <3>7. WritesAs(c, request[t].id)
      BY <2>5, <3>1, <3>4, <3>5, <3>6 DEF WritesAs, id
    <3> QED
      BY <2>1, <2>2, <2>3, <3>1, <3>4, <3>5, <3>6, <3>7, BesideGoesOn
  <2>7. CASE Kept(c)!UnderSession(t)
    <3>1. /\ request[t].is = "title" /\ request[t].at = "session"
          /\ titles' = Kept(c)!Put(titles, c.sessionOf[request[t].of], id)
          /\ request' = [request EXCEPT ![t].at = "reply"]
          /\ UNCHANGED <<notes, kept, noted, clock, told, cut>>
      BY <2>7 DEF Kept!UnderSession, Kept!Waits, Kept!Goes, id
    <3>2. DOMAIN request[t] = {"is", "at", "of", "id", "before"} /\ t \in DOMAIN request
      BY <2>3 DEF Asked, BesideInv, BesideShape
    <3>3. new.at = "reply"
      BY <2>1, <2>2, <3>1, <3>2
    <3>4. /\ DOMAIN titles' = DOMAIN titles \union {c.sessionOf[request[t].of]}
          /\ titles'[c.sessionOf[request[t].of]] = id
          /\ \A x \in DOMAIN titles : titles'[x] = id \/ titles'[x] = titles[x]
      BY SMTT(60), <3>1 DEF Kept!Put
    <3>5. Kind(c, new)
      BY <2>5, <3>1, <3>3 DEF Kind
    <3>6. request[t].of \in DOMAIN titles /\ titles[request[t].of] \notin request[t].before
      BY <2>3, <3>1 DEF StillThere
    <3>7. StillThere(c, new)'
      BY <2>5, <3>1, <3>3, <3>4, <3>6 DEF StillThere, Kept!Keys
    <3>8. WritesAs(c, request[t].id)
      BY <2>5, <3>1, <3>4, <3>5, <3>7 DEF WritesAs, id
    <3> QED
      BY <2>1, <2>2, <2>3, <3>1, <3>4, <3>5, <3>7, <3>8, BesideGoesOn
  <2>8. CASE Kept(c)!SaveExcerpt(t)
    <3>1. /\ request[t].is = "export" /\ request' = [request EXCEPT ![t].at = "note"]
          /\ kept' = kept \union {c.makes[request[t].of]}
          /\ UNCHANGED <<titles, notes, noted, clock, told, cut>>
      BY <2>8 DEF Kept!SaveExcerpt, Kept!Waits, Kept!Goes, Kept!Made
    <3>2. DOMAIN request[t] = {"is", "at", "of", "id", "before"} /\ t \in DOMAIN request
      BY <2>3 DEF Asked, BesideInv, BesideShape
    <3>3. new.at = "note"
      BY <2>1, <2>2, <3>1, <3>2
    <3>4. Kind(c, new) /\ StillThere(c, new)'
      BY <2>5, <3>1, <3>3 DEF Kind, StillThere
    <3>5. \A x \in DOMAIN notes' : x \in DOMAIN notes /\ notes'[x] = notes[x]
      BY SMTT(60), <3>1
    <3>6. WritesAs(c, request[t].id)
      BY <1>0, <2>5, <3>1, <3>4, <3>5 DEF WritesAs, id
    <3> QED
      BY <2>1, <2>2, <2>3, <3>1, <3>4, <3>5, <3>6, BesideGoesOn
  <2>9. CASE Kept(c)!RecordView(t)
    <3>1. /\ request[t].is = "export" /\ request' = [request EXCEPT ![t].at = "reply"]
          /\ notes' = Kept(c)!Put(notes, c.makes[request[t].of], [of |-> request[t].of, by |-> id])
          /\ UNCHANGED <<titles, kept, noted, clock, told, cut>>
      BY <2>9 DEF Kept!RecordView, Kept!Waits, Kept!Goes, Kept!Made, id
    <3>2. DOMAIN request[t] = {"is", "at", "of", "id", "before"} /\ t \in DOMAIN request
      BY <2>3 DEF Asked, BesideInv, BesideShape
    <3>3. new.at = "reply"
      BY <2>1, <2>2, <3>1, <3>2
    <3>4. /\ DOMAIN notes' = DOMAIN notes \union {c.makes[request[t].of]}
          /\ notes'[c.makes[request[t].of]] = [of |-> request[t].of, by |-> id]
          /\ \A x \in DOMAIN notes \ {c.makes[request[t].of]} : notes'[x] = notes[x]
      BY SMTT(60), <3>1 DEF Kept!Put
    <3>5. Kind(c, new) /\ StillThere(c, new)'
      BY <2>5, <3>1, <3>3, <3>4 DEF Kind, StillThere
    <3>6. \A x \in DOMAIN notes' :
            \/ /\ notes'[x].by = id /\ notes'[x].of \in c.snapshots \X c.picks
               /\ c.makes[notes'[x].of] = x
            \/ x \in DOMAIN notes /\ notes'[x] = notes[x]
      <4>1. request[t].of \in c.snapshots \X c.picks
        BY <2>5, <3>1 DEF Kind
      <4> QED
        BY <3>4, <4>1
    <3>7. /\ DOMAIN notes \subseteq DOMAIN notes'
          /\ kept' \union DOMAIN notes' \union DOMAIN noted' \subseteq Kept(c)!Excerpts
      BY <1>0, <2>5, <3>1, <3>4 DEF Kind
    <3>8. WritesAs(c, request[t].id)
      BY <2>5, <3>1, <3>6, <3>7 DEF WritesAs, id
    <3> QED
      BY ZenonT(60), <2>1, <2>2, <2>3, <3>1, <3>4, <3>5, <3>8, BesideGoesOn
  <2>10. CASE Kept(c)!RecordPublished(t)
    <3>1. /\ request[t].is = "publish" /\ request' = [request EXCEPT ![t].at = "reply"]
          /\ \/ noted' = Kept(c)!Put(noted, request[t].of, id) /\ cut' = cut
             \/ noted' = noted /\ cut' = cut + 1
          /\ UNCHANGED <<titles, notes, kept, clock, told>>
      BY <2>10 DEF Kept!RecordPublished, Kept!Waits, Kept!Goes, Kept!Trouble, id
    <3>2. DOMAIN request[t] = {"is", "at", "of", "id", "before"} /\ t \in DOMAIN request
      BY <2>3 DEF Asked, BesideInv, BesideShape
    <3>3. new.at = "reply"
      BY <2>1, <2>2, <3>1, <3>2
    <3>4. /\ cut' \in Nat /\ (cut' = 0 => cut = 0)
          /\ cut' = 0 => request[t].of \in DOMAIN noted' /\ noted'[request[t].of] = id
          /\ DOMAIN noted \subseteq DOMAIN noted'
          /\ DOMAIN noted' \subseteq DOMAIN noted \union {request[t].of}
          /\ \A x \in DOMAIN noted' : noted'[x] = id \/ (x \in DOMAIN noted /\ noted'[x] = noted[x])
      BY <2>5, <3>1 DEF Kept!Put
    <3>5. Kind(c, new) /\ StillThere(c, new)'
      BY <2>5, <3>1, <3>3, <3>4 DEF Kind, StillThere
    <3>6. WritesAs(c, request[t].id)
      BY <2>5, <3>1, <3>4, <3>5 DEF WritesAs, id
    <3> QED
      BY <2>1, <2>2, <2>3, <3>1, <3>4, <3>5, <3>6, BesideGoesOn
  <2> QED
    BY <1>2, <2>6, <2>7, <2>8, <2>9, <2>10
<1>3. ASSUME NEW t \in c.tabs, Kept(c)!Reply(t) \/ Kept(c)!CutShort(t) PROVE BesideInv(c)'
  <2>1. /\ Asks(t) /\ request' = [request EXCEPT ![t] = NoRequest]
        /\ \/ told' = told
           \/ request[t].at = "reply" /\ told' = told \union {request[t]}
        /\ cut' \in Nat /\ (cut' = 0 => cut = 0) /\ UNCHANGED <<titles, notes, kept, noted, clock>>
    BY SMTT(60), <1>3 DEF Kept!Reply, Kept!CutShort, Kept!Ends, Kept!Trouble, Kept!No, NoRequest, Asks,
                BesideInv, BesideShape
  <2> QED
    BY <2>1, BesideEnds
<1>4. ASSUME NEW x, Kept(c)!Delete(x) PROVE BesideInv(c)'
  <2>1. /\ kept' \subseteq kept /\ cut' = cut + 1 /\ cut \in Nat
        /\ UNCHANGED <<titles, notes, noted, request, clock, told>>
    BY SMTT(60), <1>4 DEF Kept!Delete, Kept!Trouble, BesideInv, BesideShape
  <2>2. /\ cut' \in Nat /\ cut' # 0
        /\ \A r : /\ Asked(c, r) => Asked(c, r)'
                  /\ StillThere(c, r) => StillThere(c, r)'
    BY SMTT(60), <2>1 DEF Asked, StillThere, Kept!Keys
  <2>3. BesideShape(c)' /\ UnderWay(c)'
    BY <2>1, <2>2 DEF BesideInv, BesideShape, UnderWay, Asks
  <2> QED
    BY <2>1, <2>2, <2>3 DEF BesideInv, Asks
<1>5. CASE UNCHANGED Kept(c)!excerptVars
  BY <1>5 DEF Kept!excerptVars, BesideInv, BesideShape, UnderWay, StillThere, Asks, Asked, Kept!Keys
<1> QED
  BY <1>1, <1>2, <1>3, <1>4, <1>5 DEF Kept!ExcerptsNext, Kept!Compose

\* What a tab was told of is what is read, or newer.
LEMMA BesideInvHolds ==
  ASSUME NEW c, Kept(c)!ExcerptsAssumption, BesideInv(c)
  PROVE  /\ Kept(c)!ExcerptsTypeOK /\ Kept(c)!TitlesStay
         /\ Kept(c)!ExcerptsListed /\ Kept(c)!LinkOffered
<1>1. Kept(c)!ExcerptsTypeOK
  BY DEF BesideInv, BesideShape, Asked, Asks, Kept!ExcerptsTypeOK, Kept!No, NoRequest
<1>2. Kept(c)!TitlesStay
  <2> SUFFICES ASSUME NEW p \in c.snapshots, Kept(c)!ToldOfTitle(p) # {}
               PROVE  /\ Kept(c)!TitleFor(p) # 0
                      /\ ~Kept(c)!Older(Kept(c)!TitleFor(p), Kept(c)!ToldOfTitle(p))
    BY DEF Kept!TitlesStay
  <2>1. \A x \in DOMAIN titles : Kept(c)!Typed(x) = titles[x] /\ titles[x] # 0
    BY DEF BesideInv, BesideShape, Kept!Typed
  <2>2. \A r \in Kept(c)!ToldOfTitle(p) :
          /\ StillThere(c, r) /\ r.is = "title" /\ r.at = "reply"
          /\ r.of = p \/ Kept(c)!Keys(p) \intersect Kept(c)!Keys(r.of) # {}
    BY DEF Kept!ToldOfTitle, BesideInv
  <2>3. CASE Kept(c)!Keys(p) = {}
    <3>1. \A r \in Kept(c)!ToldOfTitle(p) : p \in DOMAIN titles /\ titles[p] \notin r.before
      BY <2>2, <2>3 DEF StillThere
    <3>2. p \in DOMAIN titles /\ Kept(c)!TitleFor(p) = titles[p]
      BY <2>1, <2>3, <3>1 DEF Kept!TitleFor
    <3> QED
      BY <2>1, <3>1, <3>2 DEF Kept!Older
  <2>4. CASE Kept(c)!Keys(p) # {}
    <3>1. \A r \in Kept(c)!ToldOfTitle(p) :
            c.sessionOf[p] \in DOMAIN titles /\ titles[c.sessionOf[p]] \notin r.before
      <4> TAKE r \in Kept(c)!ToldOfTitle(p)
      <4>1. Kept(c)!Keys(r.of) # {} /\ c.sessionOf[r.of] = c.sessionOf[p]
        BY <2>2, <2>4 DEF Kept!Keys
      <4> QED
        BY <2>2, <4>1 DEF StillThere
    <3>2. c.sessionOf[p] \in DOMAIN titles /\ Kept(c)!TitleFor(p) = titles[c.sessionOf[p]]
      BY <2>1, <2>4, <3>1 DEF Kept!TitleFor
    <3> QED
      BY <2>1, <3>1, <3>2 DEF Kept!Older
  <2> QED
    BY <2>3, <2>4
<1>3. Kept(c)!ExcerptsListed
  <2> SUFFICES ASSUME NEW x \in kept, Kept(c)!ToldOfNote(x) # {}
               PROVE  /\ \E p \in c.snapshots :
                           /\ x \in Kept(c)!SavedViews(p)
                           /\ \A q \in c.snapshots \ {p} : x \notin Kept(c)!SavedViews(q)
                      /\ c.makes[notes[x].of] = x
                      /\ ~Kept(c)!Older(notes[x].by, Kept(c)!ToldOfNote(x))
    BY DEF Kept!ExcerptsListed
  <2>1. \A r \in Kept(c)!ToldOfNote(x) : x \in DOMAIN notes /\ notes[x].by \notin r.before
    BY DEF Kept!ToldOfNote, BesideInv, StillThere
  <2>2. x \in DOMAIN notes /\ notes[x].of \in c.snapshots \X c.picks /\ c.makes[notes[x].of] = x
    BY <2>1 DEF BesideInv, BesideShape
  <2>3. \A q \in c.snapshots : x \in Kept(c)!SavedViews(q) <=> notes[x].of[1] = q
    BY <2>2 DEF Kept!SavedViews
  <2>4. notes[x].of[1] \in c.snapshots
    BY SMTT(60), <2>2
  <2> QED
    BY <2>1, <2>2, <2>3, <2>4 DEF Kept!Older
<1>4. Kept(c)!LinkOffered
  BY DEF Kept!LinkOffered, Kept!ToldOfLink, Kept!Older, BesideInv, StillThere
<1> QED
  BY <1>1, <1>2, <1>3, <1>4
-----------------------------------------------------------------------------
(* The parts that the proofs are about are those of the run.               *)

\* Link, definition by definition.
LEMMA LinkCounts ==
  \A S : /\ Link!Cardinality(S) = Published!Cardinality(S) /\ Published!Cardinality(S) = Cardinality(S)
         /\ Link!IsFiniteSet(S) <=> Published!IsFiniteSet(S)
  BY DEF Link!Cardinality, Published!Cardinality, Cardinality, Link!IsFiniteSet,
         Published!IsFiniteSet, IsFiniteSet

\* The steps of Link are those LinkPublishProofs is about.
LEMMA PublishedNext == [Link!Next]_(Link!vars) => [Published!Next]_(Published!vars)
  BY Zenon, LinkCounts
     DEF Link!service, Published!service, Link!vars, Published!vars, Link!Idle, Published!Idle,
         Link!At, Published!At, Link!Goes, Published!Goes, Link!Step, Published!Step,
         Link!Envelope, Published!Envelope, Link!Kept, Published!Kept, Link!Inspect,
         Published!Inspect, Link!Confirm, Published!Confirm, Link!Decline, Published!Decline,
         Link!Look, Published!Look, Link!Resume, Published!Resume, Link!Seal, Published!Seal,
         Link!Taken, Published!Taken, Link!Refused, Published!Refused, Link!SaveReceipt,
         Published!SaveReceipt, Link!Forget, Published!Forget, Link!Show, Published!Show,
         Link!Fails, Published!Fails, Link!Delete, Published!Delete, Link!Deleted,
         Published!Deleted, Link!SayOffline, Published!SayOffline, Link!Rewrite,
         Published!Rewrite, Link!Upload, Published!Upload, Link!Next, Published!Next

\* TwoMachines, action by action.
LEMMA PairUnknown == TwoMachines!Unknown = Pair!Unknown
  BY Zenon DEF TwoMachines!Unknown, Pair!Unknown
\* Counting is the same there.
LEMMA PairCounts == \A S : TwoMachines!Cardinality(S) = Pair!Cardinality(S)
  BY DEF TwoMachines!Cardinality, Pair!Cardinality
\* The steps of TwoMachines are those NamedShareProofs is about.
LEMMA PairNext == [TwoMachines!Next]_(TwoMachines!vars) => [Pair!Next]_(Pair!vars)
<1> USE PairUnknown, PairCounts
    DEF TwoMachines!people, Pair!people, TwoMachines!local, Pair!local, TwoMachines!service,
       Pair!service, TwoMachines!Idle, Pair!Idle, TwoMachines!Nobody, Pair!Nobody,
       TwoMachines!Envelopes, Pair!Envelopes, TwoMachines!At, Pair!At, TwoMachines!Goes, Pair!Goes,
       TwoMachines!Over, Pair!Over, TwoMachines!Save, Pair!Save, TwoMachines!Fault, Pair!Fault
<1>1. ASSUME NEW m, NEW t PROVE TwoMachines!SealNamed(m, t) => Pair!SealNamed(m, t)
  BY DEF TwoMachines!SealNamed, Pair!SealNamed
<1>2. ASSUME NEW m PROVE TwoMachines!UploadNamed(m) => Pair!UploadNamed(m)
  BY DEF TwoMachines!UploadNamed, Pair!UploadNamed
<1>3. ASSUME NEW m PROVE TwoMachines!DiscardDeleted(m) => Pair!DiscardDeleted(m)
  BY DEF TwoMachines!DiscardDeleted, Pair!DiscardDeleted
<1>4. ASSUME NEW m PROVE TwoMachines!KeepOutbox(m) => Pair!KeepOutbox(m)
  BY DEF TwoMachines!KeepOutbox, Pair!KeepOutbox
<1>5. ASSUME NEW m PROVE TwoMachines!ForgetPending(m) => Pair!ForgetPending(m)
  BY DEF TwoMachines!ForgetPending, Pair!ForgetPending
<1>6. ASSUME NEW m PROVE TwoMachines!SyncNamed(m) => Pair!SyncNamed(m)
  BY DEF TwoMachines!SyncNamed, Pair!SyncNamed
<1>7. ASSUME NEW m, NEW n, NEW p PROVE TwoMachines!Revoke(m, n, p) => Pair!Revoke(m, n, p)
  BY DEF TwoMachines!Revoke, Pair!Revoke
<1>8. ASSUME NEW m, NEW n, NEW refresh
      PROVE  TwoMachines!LookAtShare(m, n, refresh) => Pair!LookAtShare(m, n, refresh)
  BY DEF TwoMachines!LookAtShare, Pair!LookAtShare, TwoMachines!Finished, Pair!Finished
<1>9. ASSUME NEW m PROVE TwoMachines!WriteRevoked(m) => Pair!WriteRevoked(m)
  BY DEF TwoMachines!WriteRevoked, Pair!WriteRevoked
<1>10. ASSUME NEW m PROVE TwoMachines!SaveStatus(m) => Pair!SaveStatus(m)
  BY DEF TwoMachines!SaveStatus, Pair!SaveStatus
<1>11. ASSUME NEW m PROVE TwoMachines!Abandon(m) => Pair!Abandon(m)
  BY DEF TwoMachines!Abandon, Pair!Abandon
<1>12. ASSUME NEW m, NEW p, NEW listed
       PROVE  TwoMachines!PassOver(m, p, listed) => Pair!PassOver(m, p, listed)
  BY DEF TwoMachines!PassOver, Pair!PassOver, TwoMachines!Known, Pair!Known
<1>13. ASSUME NEW m, NEW p, NEW c, NEW proved
       PROVE  TwoMachines!Grant(m, p, c, proved) => Pair!Grant(m, p, c, proved)
  BY DEF TwoMachines!Grant, Pair!Grant, TwoMachines!Known, Pair!Known, TwoMachines!Makable,
         Pair!Makable, TwoMachines!ClaimHolds, Pair!ClaimHolds
<1>14. ASSUME NEW n PROVE TwoMachines!Remove(n) => Pair!Remove(n)
  BY DEF TwoMachines!Remove, Pair!Remove
<1>15. ASSUME NEW n, NEW p PROVE TwoMachines!Accept(n, p) => Pair!Accept(n, p)
  BY DEF TwoMachines!Accept, Pair!Accept
<1>16. ASSUME NEW p PROVE TwoMachines!Rotate(p) => Pair!Rotate(p)
  BY DEF TwoMachines!Rotate, Pair!Rotate
<1>17. UNCHANGED TwoMachines!vars => UNCHANGED Pair!vars
  BY DEF TwoMachines!vars, Pair!vars
<1>18. TwoMachines!Offered = Pair!Offered /\ TwoMachines!Statuses = Pair!Statuses
  BY DEF TwoMachines!Offered, Pair!Offered, TwoMachines!Statuses, Pair!Statuses
<1> QED
  BY <1>1, <1>2, <1>3, <1>4, <1>5, <1>6, <1>7, <1>8, <1>9,
          <1>10, <1>11, <1>12, <1>13, <1>14, <1>15, <1>16, <1>17, <1>18
     DEF TwoMachines!Next, Pair!Next

\* TwoPeople, action by action.
LEMMA CoupleUnknown == TwoPeople!Unknown = Couple!Unknown
  BY Zenon DEF TwoPeople!Unknown, Couple!Unknown
\* Counting is the same there.
LEMMA CoupleCounts == \A S : TwoPeople!Cardinality(S) = Couple!Cardinality(S)
  BY DEF TwoPeople!Cardinality, Couple!Cardinality
\* So are those of TwoPeople.
LEMMA CoupleNext == [TwoPeople!Next]_(TwoPeople!vars) => [Couple!Next]_(Couple!vars)
<1> USE CoupleUnknown, CoupleCounts
    DEF TwoPeople!people, Couple!people, TwoPeople!local, Couple!local, TwoPeople!service,
       Couple!service, TwoPeople!Idle, Couple!Idle, TwoPeople!Nobody, Couple!Nobody,
       TwoPeople!Envelopes, Couple!Envelopes, TwoPeople!At, Couple!At, TwoPeople!Goes, Couple!Goes,
       TwoPeople!Over, Couple!Over, TwoPeople!Save, Couple!Save, TwoPeople!Fault, Couple!Fault
<1>1. ASSUME NEW m, NEW t PROVE TwoPeople!SealNamed(m, t) => Couple!SealNamed(m, t)
  BY DEF TwoPeople!SealNamed, Couple!SealNamed
<1>2. ASSUME NEW m PROVE TwoPeople!UploadNamed(m) => Couple!UploadNamed(m)
  BY DEF TwoPeople!UploadNamed, Couple!UploadNamed
<1>3. ASSUME NEW m PROVE TwoPeople!DiscardDeleted(m) => Couple!DiscardDeleted(m)
  BY DEF TwoPeople!DiscardDeleted, Couple!DiscardDeleted
<1>4. ASSUME NEW m PROVE TwoPeople!KeepOutbox(m) => Couple!KeepOutbox(m)
  BY DEF TwoPeople!KeepOutbox, Couple!KeepOutbox
<1>5. ASSUME NEW m PROVE TwoPeople!ForgetPending(m) => Couple!ForgetPending(m)
  BY DEF TwoPeople!ForgetPending, Couple!ForgetPending
<1>6. ASSUME NEW m PROVE TwoPeople!SyncNamed(m) => Couple!SyncNamed(m)
  BY DEF TwoPeople!SyncNamed, Couple!SyncNamed
<1>7. ASSUME NEW m, NEW n, NEW p PROVE TwoPeople!Revoke(m, n, p) => Couple!Revoke(m, n, p)
  BY DEF TwoPeople!Revoke, Couple!Revoke
<1>8. ASSUME NEW m, NEW n, NEW refresh
      PROVE  TwoPeople!LookAtShare(m, n, refresh) => Couple!LookAtShare(m, n, refresh)
  BY DEF TwoPeople!LookAtShare, Couple!LookAtShare, TwoPeople!Finished, Couple!Finished
<1>9. ASSUME NEW m PROVE TwoPeople!WriteRevoked(m) => Couple!WriteRevoked(m)
  BY DEF TwoPeople!WriteRevoked, Couple!WriteRevoked
<1>10. ASSUME NEW m PROVE TwoPeople!SaveStatus(m) => Couple!SaveStatus(m)
  BY DEF TwoPeople!SaveStatus, Couple!SaveStatus
<1>11. ASSUME NEW m PROVE TwoPeople!Abandon(m) => Couple!Abandon(m)
  BY SMTT(60) DEF TwoPeople!Abandon, Couple!Abandon
<1>12. ASSUME NEW m, NEW p, NEW listed
       PROVE  TwoPeople!PassOver(m, p, listed) => Couple!PassOver(m, p, listed)
  BY DEF TwoPeople!PassOver, Couple!PassOver, TwoPeople!Known, Couple!Known
<1>13. ASSUME NEW m, NEW p, NEW c, NEW proved
       PROVE  TwoPeople!Grant(m, p, c, proved) => Couple!Grant(m, p, c, proved)
  BY SMTT(60) DEF TwoPeople!Grant, Couple!Grant, TwoPeople!Known, Couple!Known, TwoPeople!Makable,
         Couple!Makable, TwoPeople!ClaimHolds, Couple!ClaimHolds
<1>14. ASSUME NEW n PROVE TwoPeople!Remove(n) => Couple!Remove(n)
  BY DEF TwoPeople!Remove, Couple!Remove
<1>15. ASSUME NEW n, NEW p PROVE TwoPeople!Accept(n, p) => Couple!Accept(n, p)
  BY DEF TwoPeople!Accept, Couple!Accept
<1>16. ASSUME NEW p PROVE TwoPeople!Rotate(p) => Couple!Rotate(p)
  BY SMTT(60) DEF TwoPeople!Rotate, Couple!Rotate
<1>17. UNCHANGED TwoPeople!vars => UNCHANGED Couple!vars
  BY DEF TwoPeople!vars, Couple!vars
<1>18. TwoPeople!Offered = Couple!Offered /\ TwoPeople!Statuses = Couple!Statuses
  BY DEF TwoPeople!Offered, Couple!Offered, TwoPeople!Statuses, Couple!Statuses
<1> QED
  BY <1>1, <1>2, <1>3, <1>4, <1>5, <1>6, <1>7, <1>8, <1>9,
          <1>10, <1>11, <1>12, <1>13, <1>14, <1>15, <1>16, <1>17, <1>18
     DEF TwoPeople!Next, Couple!Next

\* LeftPending, action by action.
LEMMA LeftUnknown == LeftPending!Unknown = Left!Unknown
  BY Zenon DEF LeftPending!Unknown, Left!Unknown
\* Counting is the same there.
LEMMA LeftCounts == \A S : LeftPending!Cardinality(S) = Left!Cardinality(S)
  BY DEF LeftPending!Cardinality, Left!Cardinality
\* So are those of LeftPending.
LEMMA LeftNext == [LeftPending!Next]_(LeftPending!vars) => [Left!Next]_(Left!vars)
<1> USE LeftUnknown, LeftCounts
    DEF LeftPending!people, Left!people, LeftPending!local, Left!local, LeftPending!service,
       Left!service, LeftPending!Idle, Left!Idle, LeftPending!Nobody, Left!Nobody,
       LeftPending!Envelopes, Left!Envelopes, LeftPending!At, Left!At, LeftPending!Goes, Left!Goes,
       LeftPending!Over, Left!Over, LeftPending!Save, Left!Save, LeftPending!Fault, Left!Fault
<1>1. ASSUME NEW m, NEW t PROVE LeftPending!SealNamed(m, t) => Left!SealNamed(m, t)
  BY DEF LeftPending!SealNamed, Left!SealNamed
<1>2. ASSUME NEW m PROVE LeftPending!UploadNamed(m) => Left!UploadNamed(m)
  BY DEF LeftPending!UploadNamed, Left!UploadNamed
<1>3. ASSUME NEW m PROVE LeftPending!DiscardDeleted(m) => Left!DiscardDeleted(m)
  BY DEF LeftPending!DiscardDeleted, Left!DiscardDeleted
<1>4. ASSUME NEW m PROVE LeftPending!KeepOutbox(m) => Left!KeepOutbox(m)
  BY DEF LeftPending!KeepOutbox, Left!KeepOutbox
<1>5. ASSUME NEW m PROVE LeftPending!ForgetPending(m) => Left!ForgetPending(m)
  BY DEF LeftPending!ForgetPending, Left!ForgetPending
<1>6. ASSUME NEW m PROVE LeftPending!SyncNamed(m) => Left!SyncNamed(m)
  BY DEF LeftPending!SyncNamed, Left!SyncNamed
<1>7. ASSUME NEW m, NEW n, NEW p PROVE LeftPending!Revoke(m, n, p) => Left!Revoke(m, n, p)
  BY DEF LeftPending!Revoke, Left!Revoke
<1>8. ASSUME NEW m, NEW n, NEW refresh
      PROVE  LeftPending!LookAtShare(m, n, refresh) => Left!LookAtShare(m, n, refresh)
  BY DEF LeftPending!LookAtShare, Left!LookAtShare, LeftPending!Finished, Left!Finished
<1>9. ASSUME NEW m PROVE LeftPending!WriteRevoked(m) => Left!WriteRevoked(m)
  BY DEF LeftPending!WriteRevoked, Left!WriteRevoked
<1>10. ASSUME NEW m PROVE LeftPending!SaveStatus(m) => Left!SaveStatus(m)
  BY DEF LeftPending!SaveStatus, Left!SaveStatus
<1>11. ASSUME NEW m PROVE LeftPending!Abandon(m) => Left!Abandon(m)
  BY DEF LeftPending!Abandon, Left!Abandon
<1>12. ASSUME NEW m, NEW p, NEW listed
       PROVE  LeftPending!PassOver(m, p, listed) => Left!PassOver(m, p, listed)
  BY DEF LeftPending!PassOver, Left!PassOver, LeftPending!Known, Left!Known
<1>13. ASSUME NEW m, NEW p, NEW c, NEW proved
       PROVE  LeftPending!Grant(m, p, c, proved) => Left!Grant(m, p, c, proved)
  BY DEF LeftPending!Grant, Left!Grant, LeftPending!Known, Left!Known, LeftPending!Makable,
         Left!Makable, LeftPending!ClaimHolds, Left!ClaimHolds
<1>14. ASSUME NEW n PROVE LeftPending!Remove(n) => Left!Remove(n)
  BY DEF LeftPending!Remove, Left!Remove
<1>15. ASSUME NEW n, NEW p PROVE LeftPending!Accept(n, p) => Left!Accept(n, p)
  BY DEF LeftPending!Accept, Left!Accept
<1>16. ASSUME NEW p PROVE LeftPending!Rotate(p) => Left!Rotate(p)
  BY DEF LeftPending!Rotate, Left!Rotate
<1>17. UNCHANGED LeftPending!vars => UNCHANGED Left!vars
  BY DEF LeftPending!vars, Left!vars
<1>18. LeftPending!Offered = Left!Offered /\ LeftPending!Statuses = Left!Statuses
  BY SMTT(60) DEF LeftPending!Offered, Left!Offered, LeftPending!Statuses, Left!Statuses
<1> QED
  BY <1>1, <1>2, <1>3, <1>4, <1>5, <1>6, <1>7, <1>8, <1>9,
          <1>10, <1>11, <1>12, <1>13, <1>14, <1>15, <1>16, <1>17, <1>18
     DEF LeftPending!Next, Left!Next

\* Vault, definition by definition: counting, reading a record and a write.
LEMMA HeldCounts == \A S : Vault!Cardinality(S) = Held!Cardinality(S)
  BY DEF Vault!Cardinality, Held!Cardinality
\* A step of the history is checked the same way there.
LEMMA HeldSteps == \A old, new : Vault!StepOK(old, new) <=> Held!StepOK(old, new)
  BY SMTT(60), HeldCounts
     DEF Vault!StepOK, Held!StepOK, Vault!SignedFor, Held!SignedFor, Vault!SharingStep,
         Held!SharingStep, Vault!SameDevices, Held!SameDevices, Vault!Added, Held!Added,
         Vault!Removed, Held!Removed, Vault!SameWraps, Held!SameWraps, Vault!Kept, Held!Kept,
         Vault!EnrollStep, Held!EnrollStep, Vault!RevokeStep, Held!RevokeStep, Vault!Devices,
         Held!Devices, Vault!None, Held!None, Vault!RootKey, Held!RootKey
\* And so is a whole history.
LEMMA HeldHistories == \A events : Vault!HistoryOK(events) <=> Held!HistoryOK(events)
<1>1. \A state : Vault!FirstOK(state) <=> Held!FirstOK(state)
  BY SMTT(60), HeldCounts
     DEF Vault!FirstOK, Held!FirstOK, Vault!Devices, Held!Devices, Vault!RootKey, Held!RootKey
<1>2. \A events, i : Vault!Introduces(events, i) <=> Held!Introduces(events, i)
  BY DEF Vault!Introduces, Held!Introduces, Vault!None, Held!None
<1> QED
  BY HeldCounts, HeldSteps, <1>1, <1>2
     DEF Vault!HistoryOK, Held!HistoryOK, Vault!Devices, Held!Devices
\* And so is a whole record.
LEMMA HeldRecords == \A rec : Vault!RecordOK(rec) <=> Held!RecordOK(rec)
  BY SMTT(60), HeldHistories
     DEF Vault!RecordOK, Held!RecordOK, Vault!Devices, Held!Devices, Vault!State, Held!State,
         Vault!RootKey, Held!RootKey
\* The pins are checked the same way.
LEMMA HeldPins == \A f, rec : Vault!PinHolds(f, rec) <=> Held!PinHolds(f, rec)
  BY SMTT(60) DEF Vault!PinHolds, Held!PinHolds, Vault!SetupConflict, Held!SetupConflict, Vault!Approved,
         Held!Approved, Vault!NoFile, Held!NoFile, Vault!None, Held!None, Vault!Devices,
         Held!Devices, Vault!State, Held!State, Vault!SameHead, Held!SameHead
\* The steps of Vault are those IdentityProofs is about.
LEMMA HeldNext == [Vault!Next]_(Vault!vars) => [Held!Next]_(Held!vars)
<1> USE HeldCounts, HeldRecords, HeldPins
    DEF Vault!service, Held!service, Vault!history, Held!history, Vault!Idle, Held!Idle,
        Vault!None, Held!None, Vault!RootKey, Held!RootKey, Vault!NoRecord, Held!NoRecord,
        Vault!NoFile, Held!NoFile, Vault!NoEvent, Held!NoEvent, Vault!At, Held!At, Vault!Post,
        Held!Post, Vault!Stop, Held!Stop, Vault!Save, Held!Save, Vault!Device, Held!Device,
        Vault!Devices, Held!Devices, Vault!State, Held!State, Vault!Approved, Held!Approved,
        Vault!Pinned, Held!Pinned, Vault!Own, Held!Own, Vault!Wrap, Held!Wrap, Vault!Unwraps,
        Held!Unwraps, Vault!Opens, Held!Opens, Vault!Readable, Held!Readable
<1>1. ASSUME NEW m PROVE Vault!SetUp(m) => Held!SetUp(m)
  BY DEF Vault!SetUp, Held!SetUp, Vault!Starts, Held!Starts, Vault!Genesis, Held!Genesis,
         Vault!Prepared, Held!Prepared, Vault!Inboxes, Held!Inboxes
<1>2. ASSUME NEW m PROVE Vault!SetUpAgain(m) => Held!SetUpAgain(m)
  BY DEF Vault!SetUpAgain, Held!SetUpAgain, Vault!Starts, Held!Starts
<1>3. ASSUME NEW m PROVE Vault!Discard(m) => Held!Discard(m)
  BY DEF Vault!Discard, Held!Discard, Vault!Starts, Held!Starts, Vault!SetupConflict,
         Held!SetupConflict
<1>4. ASSUME NEW m PROVE Vault!Locked(m) => Held!Locked(m)
  BY DEF Vault!Locked, Held!Locked, Vault!Starts, Held!Starts, Vault!Reads, Held!Reads
<1>5. ASSUME NEW m PROVE Vault!Ask(m) => Held!Ask(m)
  BY DEF Vault!Ask, Held!Ask, Vault!Starts, Held!Starts, Vault!Reads, Held!Reads
<1>6. ASSUME NEW m PROVE Vault!Recover(m) => Held!Recover(m)
  BY Zenon DEF Vault!Recover, Held!Recover, Vault!Starts, Held!Starts, Vault!Reads, Held!Reads,
         Vault!Enrolled, Held!Enrolled, Vault!Prepared, Held!Prepared, Vault!Inboxes, Held!Inboxes,
         Vault!Merged, Held!Merged
<1>7. ASSUME NEW m PROVE Vault!CannotRecover(m) => Held!CannotRecover(m)
  BY SMTT(60) DEF Vault!CannotRecover, Held!CannotRecover, Vault!Starts, Held!Starts, Vault!Reads,
         Held!Reads
<1>8. ASSUME NEW m PROVE Vault!Look(m) => Held!Look(m)
  BY SMTT(60) DEF Vault!Look, Held!Look, Vault!Starts, Held!Starts, Vault!Reads, Held!Reads, Vault!Entitled,
         Held!Entitled, Vault!Enter, Held!Enter
<1>9. ASSUME NEW m PROVE Vault!ShowRecovery(m) => Held!ShowRecovery(m)
  BY SMTT(60) DEF Vault!ShowRecovery, Held!ShowRecovery, Vault!Starts, Held!Starts, Vault!Reads, Held!Reads,
         Vault!Entitled, Held!Entitled, Vault!Enter, Held!Enter
<1>10. ASSUME NEW m PROVE Vault!ConfirmRecovery(m) => Held!ConfirmRecovery(m)
  BY SMTT(60) DEF Vault!ConfirmRecovery, Held!ConfirmRecovery, Vault!Starts, Held!Starts, Vault!Reads,
         Held!Reads, Vault!Entitled, Held!Entitled, Vault!Enter, Held!Enter
<1>11. ASSUME NEW m PROVE Vault!Sync(m) => Held!Sync(m)
  BY DEF Vault!Sync, Held!Sync, Vault!Starts, Held!Starts, Vault!Reads, Held!Reads, Vault!Entitled,
         Held!Entitled, Vault!Enter, Held!Enter, Vault!Writes, Held!Writes, Vault!Merged,
         Held!Merged, Vault!Prepared, Held!Prepared, Vault!Inboxes, Held!Inboxes
<1>12. ASSUME NEW m PROVE Vault!Approve(m) => Held!Approve(m)
  BY ZenonT(60) DEF Vault!Approve, Held!Approve, Vault!Starts, Held!Starts, Vault!Reads, Held!Reads,
         Vault!Entitled, Held!Entitled, Vault!Enter, Held!Enter, Vault!Writes, Held!Writes,
         Vault!Merged, Held!Merged, Vault!Prepared, Held!Prepared, Vault!Inboxes, Held!Inboxes,
         Vault!Enrolled, Held!Enrolled
<1>13. ASSUME NEW m PROVE Vault!Revoke(m) => Held!Revoke(m)
  BY ZenonT(60) DEF Vault!Revoke, Held!Revoke, Vault!Starts, Held!Starts, Vault!Reads, Held!Reads,
         Vault!Entitled, Held!Entitled, Vault!Enter, Held!Enter, Vault!Writes, Held!Writes,
         Vault!Merged, Held!Merged, Vault!Prepared, Held!Prepared, Vault!Inboxes, Held!Inboxes,
         Vault!Revoked, Held!Revoked
<1>14. ASSUME NEW m PROVE Vault!ShareOn(m) => Held!ShareOn(m)
  BY SMTT(60) DEF Vault!ShareOn, Held!ShareOn, Vault!Starts, Held!Starts, Vault!Reads, Held!Reads,
         Vault!Entitled, Held!Entitled, Vault!Enter, Held!Enter, Vault!Writes, Held!Writes,
         Vault!Merged, Held!Merged, Vault!Prepared, Held!Prepared, Vault!Inboxes, Held!Inboxes,
         Vault!Shared, Held!Shared
<1>15. ASSUME NEW m PROVE Vault!Taken(m) => Held!Taken(m)
  BY DEF Vault!Taken, Held!Taken, Vault!Takes, Held!Takes, Vault!Current, Held!Current,
         Vault!After, Held!After
<1>16. ASSUME NEW m PROVE Vault!RefusedWrite(m) => Held!RefusedWrite(m)
  BY DEF Vault!RefusedWrite, Held!RefusedWrite, Vault!Takes, Held!Takes, Vault!Current,
         Held!Current, Vault!After, Held!After
<1>17. ASSUME NEW m PROVE Vault!Acknowledged(m) => Held!Acknowledged(m)
  BY DEF Vault!Acknowledged, Held!Acknowledged, Vault!Wrote, Held!Wrote
<1>18. ASSUME NEW m PROVE Vault!SetupAnswered(m) => Held!SetupAnswered(m)
  BY DEF Vault!SetupAnswered, Held!SetupAnswered, Vault!After, Held!After
<1>19. ASSUME NEW m PROVE Vault!RequestStored(m) => Held!RequestStored(m)
  BY DEF Vault!RequestStored, Held!RequestStored
<1>20. ASSUME NEW m PROVE Vault!Fails(m) => Held!Fails(m)
  BY DEF Vault!Fails, Held!Fails
<1>21. ASSUME NEW m, NEW l PROVE Vault!Publish(m, l) => Held!Publish(m, l)
  BY DEF Vault!Publish, Held!Publish
<1>22. Vault!Copy => Held!Copy
  BY DEF Vault!Copy, Held!Copy
<1>23. Vault!Restore => Held!Restore
  BY DEF Vault!Restore, Held!Restore
<1>24. UNCHANGED Vault!vars => UNCHANGED Held!vars
  BY DEF Vault!vars, Held!vars
<1> QED
  BY <1>1, <1>2, <1>3, <1>4, <1>5, <1>6, <1>7, <1>8, <1>9, <1>10, <1>11, <1>12, <1>13, <1>14, <1>15, <1>16, <1>17, <1>18, <1>19, <1>20, <1>21, <1>22, <1>23, <1>24
     DEF Vault!Next, Held!Next, Vault!Act, Held!Act, Vault!Deliver, Held!Deliver
\* SharedVault, definition by definition: counting, reading a record and a write.
LEMMA BothCounts == \A S : SharedVault!Cardinality(S) = Both!Cardinality(S)
  BY DEF SharedVault!Cardinality, Both!Cardinality
\* A step of the history is checked the same way there.
LEMMA BothSteps == \A old, new : SharedVault!StepOK(old, new) <=> Both!StepOK(old, new)
  BY BothCounts
     DEF SharedVault!StepOK, Both!StepOK, SharedVault!SignedFor, Both!SignedFor,
         SharedVault!SharingStep, Both!SharingStep, SharedVault!SameDevices, Both!SameDevices,
         SharedVault!Added, Both!Added, SharedVault!Removed, Both!Removed, SharedVault!SameWraps,
         Both!SameWraps, SharedVault!Kept, Both!Kept, SharedVault!EnrollStep, Both!EnrollStep,
         SharedVault!RevokeStep, Both!RevokeStep, SharedVault!Devices, Both!Devices,
         SharedVault!None, Both!None, SharedVault!RootKey, Both!RootKey
\* And so is a whole history.
LEMMA BothHistories == \A events : SharedVault!HistoryOK(events) <=> Both!HistoryOK(events)
<1>1. \A state : SharedVault!FirstOK(state) <=> Both!FirstOK(state)
  BY BothCounts
     DEF SharedVault!FirstOK, Both!FirstOK, SharedVault!Devices, Both!Devices, SharedVault!RootKey,
         Both!RootKey
<1>2. \A events, i : SharedVault!Introduces(events, i) <=> Both!Introduces(events, i)
  BY DEF SharedVault!Introduces, Both!Introduces, SharedVault!None, Both!None
<1> QED
  BY BothCounts, BothSteps, <1>1, <1>2
     DEF SharedVault!HistoryOK, Both!HistoryOK, SharedVault!Devices, Both!Devices
\* And so is a whole record.
LEMMA BothRecords == \A rec : SharedVault!RecordOK(rec) <=> Both!RecordOK(rec)
  BY BothHistories
     DEF SharedVault!RecordOK, Both!RecordOK, SharedVault!Devices, Both!Devices, SharedVault!State,
         Both!State, SharedVault!RootKey, Both!RootKey
\* The pins are checked the same way.
LEMMA BothPins == \A f, rec : SharedVault!PinHolds(f, rec) <=> Both!PinHolds(f, rec)
  BY DEF SharedVault!PinHolds, Both!PinHolds, SharedVault!SetupConflict, Both!SetupConflict,
         SharedVault!Approved, Both!Approved, SharedVault!NoFile, Both!NoFile, SharedVault!None,
         Both!None, SharedVault!Devices, Both!Devices, SharedVault!State, Both!State,
         SharedVault!SameHead, Both!SameHead
\* The steps of SharedVault are those IdentityProofs is about.
LEMMA BothNext == [SharedVault!Next]_(SharedVault!vars) => [Both!Next]_(Both!vars)
<1> USE BothCounts, BothRecords, BothPins
    DEF SharedVault!service, Both!service, SharedVault!history, Both!history, SharedVault!Idle,
        Both!Idle, SharedVault!None, Both!None, SharedVault!RootKey, Both!RootKey,
        SharedVault!NoRecord, Both!NoRecord, SharedVault!NoFile, Both!NoFile, SharedVault!NoEvent,
        Both!NoEvent, SharedVault!At, Both!At, SharedVault!Post, Both!Post, SharedVault!Stop,
        Both!Stop, SharedVault!Save, Both!Save, SharedVault!Device, Both!Device,
        SharedVault!Devices, Both!Devices, SharedVault!State, Both!State, SharedVault!Approved,
        Both!Approved, SharedVault!Pinned, Both!Pinned, SharedVault!Own, Both!Own,
        SharedVault!Wrap, Both!Wrap, SharedVault!Unwraps, Both!Unwraps, SharedVault!Opens,
        Both!Opens, SharedVault!Readable, Both!Readable
<1>1. ASSUME NEW m PROVE SharedVault!SetUp(m) => Both!SetUp(m)
  BY DEF SharedVault!SetUp, Both!SetUp, SharedVault!Starts, Both!Starts, SharedVault!Genesis,
         Both!Genesis, SharedVault!Prepared, Both!Prepared, SharedVault!Inboxes, Both!Inboxes
<1>2. ASSUME NEW m PROVE SharedVault!SetUpAgain(m) => Both!SetUpAgain(m)
  BY DEF SharedVault!SetUpAgain, Both!SetUpAgain, SharedVault!Starts, Both!Starts
<1>3. ASSUME NEW m PROVE SharedVault!Discard(m) => Both!Discard(m)
  BY DEF SharedVault!Discard, Both!Discard, SharedVault!Starts, Both!Starts,
         SharedVault!SetupConflict, Both!SetupConflict
<1>4. ASSUME NEW m PROVE SharedVault!Locked(m) => Both!Locked(m)
  BY DEF SharedVault!Locked, Both!Locked, SharedVault!Starts, Both!Starts, SharedVault!Reads,
         Both!Reads
<1>5. ASSUME NEW m PROVE SharedVault!Ask(m) => Both!Ask(m)
  BY DEF SharedVault!Ask, Both!Ask, SharedVault!Starts, Both!Starts, SharedVault!Reads, Both!Reads
<1>6. ASSUME NEW m PROVE SharedVault!Recover(m) => Both!Recover(m)
  BY Zenon DEF SharedVault!Recover, Both!Recover, SharedVault!Starts, Both!Starts, SharedVault!Reads,
         Both!Reads, SharedVault!Enrolled, Both!Enrolled, SharedVault!Prepared, Both!Prepared,
         SharedVault!Inboxes, Both!Inboxes, SharedVault!Merged, Both!Merged
<1>7. ASSUME NEW m PROVE SharedVault!CannotRecover(m) => Both!CannotRecover(m)
  BY DEF SharedVault!CannotRecover, Both!CannotRecover, SharedVault!Starts, Both!Starts,
         SharedVault!Reads, Both!Reads
<1>8. ASSUME NEW m PROVE SharedVault!Look(m) => Both!Look(m)
  BY DEF SharedVault!Look, Both!Look, SharedVault!Starts, Both!Starts, SharedVault!Reads,
         Both!Reads, SharedVault!Entitled, Both!Entitled, SharedVault!Enter, Both!Enter
<1>9. ASSUME NEW m PROVE SharedVault!ShowRecovery(m) => Both!ShowRecovery(m)
  BY DEF SharedVault!ShowRecovery, Both!ShowRecovery, SharedVault!Starts, Both!Starts,
         SharedVault!Reads, Both!Reads, SharedVault!Entitled, Both!Entitled, SharedVault!Enter,
         Both!Enter
<1>10. ASSUME NEW m PROVE SharedVault!ConfirmRecovery(m) => Both!ConfirmRecovery(m)
  BY DEF SharedVault!ConfirmRecovery, Both!ConfirmRecovery, SharedVault!Starts, Both!Starts,
         SharedVault!Reads, Both!Reads, SharedVault!Entitled, Both!Entitled, SharedVault!Enter,
         Both!Enter
<1>11. ASSUME NEW m PROVE SharedVault!Sync(m) => Both!Sync(m)
  BY DEF SharedVault!Sync, Both!Sync, SharedVault!Starts, Both!Starts, SharedVault!Reads,
         Both!Reads, SharedVault!Entitled, Both!Entitled, SharedVault!Enter, Both!Enter,
         SharedVault!Writes, Both!Writes, SharedVault!Merged, Both!Merged, SharedVault!Prepared,
         Both!Prepared, SharedVault!Inboxes, Both!Inboxes
<1>12. ASSUME NEW m PROVE SharedVault!Approve(m) => Both!Approve(m)
  BY DEF SharedVault!Approve, Both!Approve, SharedVault!Starts, Both!Starts, SharedVault!Reads,
         Both!Reads, SharedVault!Entitled, Both!Entitled, SharedVault!Enter, Both!Enter,
         SharedVault!Writes, Both!Writes, SharedVault!Merged, Both!Merged, SharedVault!Prepared,
         Both!Prepared, SharedVault!Inboxes, Both!Inboxes, SharedVault!Enrolled, Both!Enrolled
<1>13. ASSUME NEW m PROVE SharedVault!Revoke(m) => Both!Revoke(m)
  BY ZenonT(60) DEF SharedVault!Revoke, Both!Revoke, SharedVault!Starts, Both!Starts, SharedVault!Reads,
         Both!Reads, SharedVault!Entitled, Both!Entitled, SharedVault!Enter, Both!Enter,
         SharedVault!Writes, Both!Writes, SharedVault!Merged, Both!Merged, SharedVault!Prepared,
         Both!Prepared, SharedVault!Inboxes, Both!Inboxes, SharedVault!Revoked, Both!Revoked
<1>14. ASSUME NEW m PROVE SharedVault!ShareOn(m) => Both!ShareOn(m)
  BY DEF SharedVault!ShareOn, Both!ShareOn, SharedVault!Starts, Both!Starts, SharedVault!Reads,
         Both!Reads, SharedVault!Entitled, Both!Entitled, SharedVault!Enter, Both!Enter,
         SharedVault!Writes, Both!Writes, SharedVault!Merged, Both!Merged, SharedVault!Prepared,
         Both!Prepared, SharedVault!Inboxes, Both!Inboxes, SharedVault!Shared, Both!Shared
<1>15. ASSUME NEW m PROVE SharedVault!Taken(m) => Both!Taken(m)
  BY DEF SharedVault!Taken, Both!Taken, SharedVault!Takes, Both!Takes, SharedVault!Current,
         Both!Current, SharedVault!After, Both!After
<1>16. ASSUME NEW m PROVE SharedVault!RefusedWrite(m) => Both!RefusedWrite(m)
  BY DEF SharedVault!RefusedWrite, Both!RefusedWrite, SharedVault!Takes, Both!Takes,
         SharedVault!Current, Both!Current, SharedVault!After, Both!After
<1>17. ASSUME NEW m PROVE SharedVault!Acknowledged(m) => Both!Acknowledged(m)
  BY DEF SharedVault!Acknowledged, Both!Acknowledged, SharedVault!Wrote, Both!Wrote
<1>18. ASSUME NEW m PROVE SharedVault!SetupAnswered(m) => Both!SetupAnswered(m)
  BY DEF SharedVault!SetupAnswered, Both!SetupAnswered, SharedVault!After, Both!After
<1>19. ASSUME NEW m PROVE SharedVault!RequestStored(m) => Both!RequestStored(m)
  BY DEF SharedVault!RequestStored, Both!RequestStored
<1>20. ASSUME NEW m PROVE SharedVault!Fails(m) => Both!Fails(m)
  BY DEF SharedVault!Fails, Both!Fails
<1>21. ASSUME NEW m, NEW l PROVE SharedVault!Publish(m, l) => Both!Publish(m, l)
  BY DEF SharedVault!Publish, Both!Publish
<1>22. SharedVault!Copy => Both!Copy
  BY DEF SharedVault!Copy, Both!Copy
<1>23. SharedVault!Restore => Both!Restore
  BY DEF SharedVault!Restore, Both!Restore
<1>24. UNCHANGED SharedVault!vars => UNCHANGED Both!vars
  BY DEF SharedVault!vars, Both!vars
<1> QED
  BY <1>1, <1>2, <1>3, <1>4, <1>5, <1>6, <1>7, <1>8, <1>9, <1>10, <1>11, <1>12, <1>13, <1>14, <1>15, <1>16, <1>17, <1>18, <1>19, <1>20, <1>21, <1>22, <1>23, <1>24
     DEF SharedVault!Next, Both!Next, SharedVault!Act, Both!Act, SharedVault!Deliver, Both!Deliver
\* Restored, definition by definition: counting, reading a record and a write.
LEMMA BackCounts == \A S : Restored!Cardinality(S) = Back!Cardinality(S)
  BY DEF Restored!Cardinality, Back!Cardinality
\* A step of the history is checked the same way there.
LEMMA BackSteps == \A old, new : Restored!StepOK(old, new) <=> Back!StepOK(old, new)
  BY BackCounts
     DEF Restored!StepOK, Back!StepOK, Restored!SignedFor, Back!SignedFor, Restored!SharingStep,
         Back!SharingStep, Restored!SameDevices, Back!SameDevices, Restored!Added, Back!Added,
         Restored!Removed, Back!Removed, Restored!SameWraps, Back!SameWraps, Restored!Kept,
         Back!Kept, Restored!EnrollStep, Back!EnrollStep, Restored!RevokeStep, Back!RevokeStep,
         Restored!Devices, Back!Devices, Restored!None, Back!None, Restored!RootKey, Back!RootKey
\* And so is a whole history.
LEMMA BackHistories == \A events : Restored!HistoryOK(events) <=> Back!HistoryOK(events)
<1>1. \A state : Restored!FirstOK(state) <=> Back!FirstOK(state)
  BY BackCounts
     DEF Restored!FirstOK, Back!FirstOK, Restored!Devices, Back!Devices, Restored!RootKey,
         Back!RootKey
<1>2. \A events, i : Restored!Introduces(events, i) <=> Back!Introduces(events, i)
  BY DEF Restored!Introduces, Back!Introduces, Restored!None, Back!None
<1> QED
  BY BackCounts, BackSteps, <1>1, <1>2
     DEF Restored!HistoryOK, Back!HistoryOK, Restored!Devices, Back!Devices
\* And so is a whole record.
LEMMA BackRecords == \A rec : Restored!RecordOK(rec) <=> Back!RecordOK(rec)
  BY BackHistories
     DEF Restored!RecordOK, Back!RecordOK, Restored!Devices, Back!Devices, Restored!State,
         Back!State, Restored!RootKey, Back!RootKey
\* The pins are checked the same way.
LEMMA BackPins == \A f, rec : Restored!PinHolds(f, rec) <=> Back!PinHolds(f, rec)
  BY DEF Restored!PinHolds, Back!PinHolds, Restored!SetupConflict, Back!SetupConflict,
         Restored!Approved, Back!Approved, Restored!NoFile, Back!NoFile, Restored!None, Back!None,
         Restored!Devices, Back!Devices, Restored!State, Back!State, Restored!SameHead,
         Back!SameHead
\* The steps of Restored are those IdentityProofs is about.
LEMMA BackNext == [Restored!Next]_(Restored!vars) => [Back!Next]_(Back!vars)
<1> USE BackCounts, BackRecords, BackPins
    DEF Restored!service, Back!service, Restored!history, Back!history, Restored!Idle, Back!Idle,
        Restored!None, Back!None, Restored!RootKey, Back!RootKey, Restored!NoRecord, Back!NoRecord,
        Restored!NoFile, Back!NoFile, Restored!NoEvent, Back!NoEvent, Restored!At, Back!At,
        Restored!Post, Back!Post, Restored!Stop, Back!Stop, Restored!Save, Back!Save,
        Restored!Device, Back!Device, Restored!Devices, Back!Devices, Restored!State, Back!State,
        Restored!Approved, Back!Approved, Restored!Pinned, Back!Pinned, Restored!Own, Back!Own,
        Restored!Wrap, Back!Wrap, Restored!Unwraps, Back!Unwraps, Restored!Opens, Back!Opens,
        Restored!Readable, Back!Readable
<1>1. ASSUME NEW m PROVE Restored!SetUp(m) => Back!SetUp(m)
  BY DEF Restored!SetUp, Back!SetUp, Restored!Starts, Back!Starts, Restored!Genesis, Back!Genesis,
         Restored!Prepared, Back!Prepared, Restored!Inboxes, Back!Inboxes
<1>2. ASSUME NEW m PROVE Restored!SetUpAgain(m) => Back!SetUpAgain(m)
  BY DEF Restored!SetUpAgain, Back!SetUpAgain, Restored!Starts, Back!Starts
<1>3. ASSUME NEW m PROVE Restored!Discard(m) => Back!Discard(m)
  BY DEF Restored!Discard, Back!Discard, Restored!Starts, Back!Starts, Restored!SetupConflict,
         Back!SetupConflict
<1>4. ASSUME NEW m PROVE Restored!Locked(m) => Back!Locked(m)
  BY DEF Restored!Locked, Back!Locked, Restored!Starts, Back!Starts, Restored!Reads, Back!Reads
<1>5. ASSUME NEW m PROVE Restored!Ask(m) => Back!Ask(m)
  BY DEF Restored!Ask, Back!Ask, Restored!Starts, Back!Starts, Restored!Reads, Back!Reads
<1>6. ASSUME NEW m PROVE Restored!Recover(m) => Back!Recover(m)
  BY DEF Restored!Recover, Back!Recover, Restored!Starts, Back!Starts, Restored!Reads, Back!Reads,
         Restored!Enrolled, Back!Enrolled, Restored!Prepared, Back!Prepared, Restored!Inboxes,
         Back!Inboxes, Restored!Merged, Back!Merged
<1>7. ASSUME NEW m PROVE Restored!CannotRecover(m) => Back!CannotRecover(m)
  BY DEF Restored!CannotRecover, Back!CannotRecover, Restored!Starts, Back!Starts, Restored!Reads,
         Back!Reads
<1>8. ASSUME NEW m PROVE Restored!Look(m) => Back!Look(m)
  BY DEF Restored!Look, Back!Look, Restored!Starts, Back!Starts, Restored!Reads, Back!Reads,
         Restored!Entitled, Back!Entitled, Restored!Enter, Back!Enter
<1>9. ASSUME NEW m PROVE Restored!ShowRecovery(m) => Back!ShowRecovery(m)
  BY DEF Restored!ShowRecovery, Back!ShowRecovery, Restored!Starts, Back!Starts, Restored!Reads,
         Back!Reads, Restored!Entitled, Back!Entitled, Restored!Enter, Back!Enter
<1>10. ASSUME NEW m PROVE Restored!ConfirmRecovery(m) => Back!ConfirmRecovery(m)
  BY DEF Restored!ConfirmRecovery, Back!ConfirmRecovery, Restored!Starts, Back!Starts,
         Restored!Reads, Back!Reads, Restored!Entitled, Back!Entitled, Restored!Enter, Back!Enter
<1>11. ASSUME NEW m PROVE Restored!Sync(m) => Back!Sync(m)
  BY DEF Restored!Sync, Back!Sync, Restored!Starts, Back!Starts, Restored!Reads, Back!Reads,
         Restored!Entitled, Back!Entitled, Restored!Enter, Back!Enter, Restored!Writes,
         Back!Writes, Restored!Merged, Back!Merged, Restored!Prepared, Back!Prepared,
         Restored!Inboxes, Back!Inboxes
<1>12. ASSUME NEW m PROVE Restored!Approve(m) => Back!Approve(m)
  BY DEF Restored!Approve, Back!Approve, Restored!Starts, Back!Starts, Restored!Reads, Back!Reads,
         Restored!Entitled, Back!Entitled, Restored!Enter, Back!Enter, Restored!Writes,
         Back!Writes, Restored!Merged, Back!Merged, Restored!Prepared, Back!Prepared,
         Restored!Inboxes, Back!Inboxes, Restored!Enrolled, Back!Enrolled
<1>13. ASSUME NEW m PROVE Restored!Revoke(m) => Back!Revoke(m)
  BY DEF Restored!Revoke, Back!Revoke, Restored!Starts, Back!Starts, Restored!Reads, Back!Reads,
         Restored!Entitled, Back!Entitled, Restored!Enter, Back!Enter, Restored!Writes,
         Back!Writes, Restored!Merged, Back!Merged, Restored!Prepared, Back!Prepared,
         Restored!Inboxes, Back!Inboxes, Restored!Revoked, Back!Revoked
<1>14. ASSUME NEW m PROVE Restored!ShareOn(m) => Back!ShareOn(m)
  BY DEF Restored!ShareOn, Back!ShareOn, Restored!Starts, Back!Starts, Restored!Reads, Back!Reads,
         Restored!Entitled, Back!Entitled, Restored!Enter, Back!Enter, Restored!Writes,
         Back!Writes, Restored!Merged, Back!Merged, Restored!Prepared, Back!Prepared,
         Restored!Inboxes, Back!Inboxes, Restored!Shared, Back!Shared
<1>15. ASSUME NEW m PROVE Restored!Taken(m) => Back!Taken(m)
  BY DEF Restored!Taken, Back!Taken, Restored!Takes, Back!Takes, Restored!Current, Back!Current,
         Restored!After, Back!After
<1>16. ASSUME NEW m PROVE Restored!RefusedWrite(m) => Back!RefusedWrite(m)
  BY DEF Restored!RefusedWrite, Back!RefusedWrite, Restored!Takes, Back!Takes, Restored!Current,
         Back!Current, Restored!After, Back!After
<1>17. ASSUME NEW m PROVE Restored!Acknowledged(m) => Back!Acknowledged(m)
  BY DEF Restored!Acknowledged, Back!Acknowledged, Restored!Wrote, Back!Wrote
<1>18. ASSUME NEW m PROVE Restored!SetupAnswered(m) => Back!SetupAnswered(m)
  BY DEF Restored!SetupAnswered, Back!SetupAnswered, Restored!After, Back!After
<1>19. ASSUME NEW m PROVE Restored!RequestStored(m) => Back!RequestStored(m)
  BY DEF Restored!RequestStored, Back!RequestStored
<1>20. ASSUME NEW m PROVE Restored!Fails(m) => Back!Fails(m)
  BY DEF Restored!Fails, Back!Fails
<1>21. ASSUME NEW m, NEW l PROVE Restored!Publish(m, l) => Back!Publish(m, l)
  BY DEF Restored!Publish, Back!Publish
<1>22. Restored!Copy => Back!Copy
  BY DEF Restored!Copy, Back!Copy
<1>23. Restored!Restore => Back!Restore
  BY SMTT(60) DEF Restored!Restore, Back!Restore
<1>24. UNCHANGED Restored!vars => UNCHANGED Back!vars
  BY DEF Restored!vars, Back!vars
<1> QED
  BY <1>1, <1>2, <1>3, <1>4, <1>5, <1>6, <1>7, <1>8, <1>9, <1>10, <1>11, <1>12, <1>13, <1>14, <1>15, <1>16, <1>17, <1>18, <1>19, <1>20, <1>21, <1>22, <1>23, <1>24
     DEF Restored!Next, Back!Next, Restored!Act, Back!Act, Restored!Deliver, Back!Deliver

\* At first, and what their promises name.
LEMMA AccountsInit ==
  /\ Vault!Init => Held!Init /\ Both!Init /\ Back!Init
  BY DEF Vault!Init, Held!Init, Both!Init, Back!Init, Vault!NoRecord, Held!NoRecord, Both!NoRecord,
         Back!NoRecord, Vault!NoFile, Held!NoFile, Both!NoFile, Back!NoFile, Vault!Idle, Held!Idle,
         Both!Idle, Back!Idle, Vault!None, Held!None, Both!None, Back!None

\* The constants of the three accounts are what Identity and DeviceHistory take.
LEMMA AccountsAssumptions ==
  /\ Held!IdentityAssumption /\ Held!LimitAssumption
  /\ Both!IdentityAssumption /\ Both!LimitAssumption
  /\ Back!IdentityAssumption /\ Back!LimitAssumption
  BY DEF Held!IdentityAssumption, Held!LimitAssumption, Both!IdentityAssumption,
         Both!LimitAssumption, Back!IdentityAssumption, Back!LimitAssumption

\* What IdentityProofs states of Held is what the run states of Vault.
LEMMA HeldStates ==
  /\ Held!IdentityTypeOK => Vault!IdentityTypeOK
  /\ Held!RevokedLockedOut => Vault!RevokedLockedOut
  /\ Held!NeverLockedOut => Vault!NeverLockedOut
  /\ Held!RecoveryKeyWorks => Vault!RecoveryKeyWorks
  /\ Held!HonestWritesVerify => Vault!HonestWritesVerify
  /\ Held!BackedUpStays => Vault!BackedUpStays
  /\ Held!KeepsItsPins => Vault!KeepsItsPins
<1>1. Held!IdentityTypeOK => Vault!IdentityTypeOK
  BY DEF Vault!IdentityTypeOK, Held!IdentityTypeOK, Vault!FileType, Held!FileType, Vault!Keys,
         Held!Keys, Vault!NoFile, Held!NoFile, Vault!None, Held!None
<1>2. Held!RevokedLockedOut => Vault!RevokedLockedOut
  BY SMTT(60) DEF Vault!RevokedLockedOut, Held!RevokedLockedOut, Vault!NoRecord, Held!NoRecord,
         Vault!Devices, Held!Devices, Vault!State, Held!State
<1>3. Held!NeverLockedOut => Vault!NeverLockedOut
  BY SMTT(60), HeldPins
     DEF Vault!NeverLockedOut, Held!NeverLockedOut, Vault!NoRecord, Held!NoRecord, Vault!Approved,
         Held!Approved, Vault!Devices, Held!Devices, Vault!State, Held!State, Vault!NoFile,
         Held!NoFile, Vault!None, Held!None, Vault!Opens, Held!Opens, Vault!Own, Held!Own,
         Vault!Unwraps, Held!Unwraps, Vault!Readable, Held!Readable
<1>4. Held!RecoveryKeyWorks => Vault!RecoveryKeyWorks
  BY SMTT(60) DEF Vault!RecoveryKeyWorks, Held!RecoveryKeyWorks, Vault!NoRecord, Held!NoRecord, Vault!State,
         Held!State, Vault!NoFile, Held!NoFile, Vault!None, Held!None, Vault!Opens, Held!Opens,
         Vault!Unwraps, Held!Unwraps
<1>5. Held!HonestWritesVerify => Vault!HonestWritesVerify
  BY HeldRecords, HeldCounts
     DEF Vault!HonestWritesVerify, Held!HonestWritesVerify, Vault!At, Held!At, Vault!Current,
         Held!Current, Vault!After, Held!After, Vault!State, Held!State, Vault!Devices,
         Held!Devices
<1>6. Held!BackedUpStays => Vault!BackedUpStays
  BY DEF Vault!BackedUpStays, Held!BackedUpStays, Vault!NoRecord, Held!NoRecord, Vault!None,
         Held!None
<1>7. Held!KeepsItsPins => Vault!KeepsItsPins
  BY DEF Vault!KeepsItsPins, Held!KeepsItsPins, Vault!NoFile, Held!NoFile, Vault!None, Held!None,
         Vault!Prefix, Held!Prefix
<1> QED
  BY <1>1, <1>2, <1>3, <1>4, <1>5, <1>6, <1>7

\* What IdentityProofs states of Both is what the run states of SharedVault.
LEMMA BothStates ==
  /\ Both!IdentityTypeOK => SharedVault!IdentityTypeOK
  /\ Both!RevokedLockedOut => SharedVault!RevokedLockedOut
  /\ Both!NeverLockedOut => SharedVault!NeverLockedOut
  /\ Both!RecoveryKeyWorks => SharedVault!RecoveryKeyWorks
  /\ Both!HonestWritesVerify => SharedVault!HonestWritesVerify
  /\ Both!BackedUpStays => SharedVault!BackedUpStays
<1>1. Both!IdentityTypeOK => SharedVault!IdentityTypeOK
  BY DEF SharedVault!IdentityTypeOK, Both!IdentityTypeOK, SharedVault!FileType, Both!FileType,
         SharedVault!Keys, Both!Keys, SharedVault!NoFile, Both!NoFile, SharedVault!None, Both!None
<1>2. Both!RevokedLockedOut => SharedVault!RevokedLockedOut
  BY DEF SharedVault!RevokedLockedOut, Both!RevokedLockedOut, SharedVault!NoRecord, Both!NoRecord,
         SharedVault!Devices, Both!Devices, SharedVault!State, Both!State
<1>3. Both!NeverLockedOut => SharedVault!NeverLockedOut
  BY BothPins
     DEF SharedVault!NeverLockedOut, Both!NeverLockedOut, SharedVault!NoRecord, Both!NoRecord,
         SharedVault!Approved, Both!Approved, SharedVault!Devices, Both!Devices, SharedVault!State,
         Both!State, SharedVault!NoFile, Both!NoFile, SharedVault!None, Both!None,
         SharedVault!Opens, Both!Opens, SharedVault!Own, Both!Own, SharedVault!Unwraps,
         Both!Unwraps, SharedVault!Readable, Both!Readable
<1>4. Both!RecoveryKeyWorks => SharedVault!RecoveryKeyWorks
  BY DEF SharedVault!RecoveryKeyWorks, Both!RecoveryKeyWorks, SharedVault!NoRecord, Both!NoRecord,
         SharedVault!State, Both!State, SharedVault!NoFile, Both!NoFile, SharedVault!None,
         Both!None, SharedVault!Opens, Both!Opens, SharedVault!Unwraps, Both!Unwraps
<1>5. Both!HonestWritesVerify => SharedVault!HonestWritesVerify
  BY BothRecords, BothCounts
     DEF SharedVault!HonestWritesVerify, Both!HonestWritesVerify, SharedVault!At, Both!At,
         SharedVault!Current, Both!Current, SharedVault!After, Both!After, SharedVault!State,
         Both!State, SharedVault!Devices, Both!Devices
<1>6. Both!BackedUpStays => SharedVault!BackedUpStays
  BY DEF SharedVault!BackedUpStays, Both!BackedUpStays, SharedVault!NoRecord, Both!NoRecord,
         SharedVault!None, Both!None
<1> QED
  BY <1>1, <1>2, <1>3, <1>4, <1>5, <1>6

\* What IdentityProofs states of Back is what the run states of Restored.
LEMMA BackStates ==
  /\ Back!IdentityTypeOK => Restored!IdentityTypeOK
  /\ Back!KeepsItsPins => Restored!KeepsItsPins
<1>1. Back!IdentityTypeOK => Restored!IdentityTypeOK
  BY SMTT(60) DEF Restored!IdentityTypeOK, Back!IdentityTypeOK, Restored!FileType, Back!FileType,
         Restored!Keys, Back!Keys, Restored!NoFile, Back!NoFile, Restored!None, Back!None
<1>2. Back!KeepsItsPins => Restored!KeepsItsPins
  BY DEF Restored!KeepsItsPins, Back!KeepsItsPins, Restored!NoFile, Back!NoFile, Restored!None,
         Back!None, Restored!Prefix, Back!Prefix
<1> QED
  BY <1>1, <1>2

\* So are the accounts their records are.
LEMMA HeldPromises ==
  Held!Promise!AccountNext \/ UNCHANGED Held!Promise!accountVars =>
    Vault!Promise!AccountNext \/ UNCHANGED Vault!Promise!accountVars
  BY Zenon DEF Held!Promise!AccountNext, Vault!Promise!AccountNext, Held!Promise!Save,
         Vault!Promise!Save, Held!Promise!Join, Vault!Promise!Join, Held!Promise!Open,
         Vault!Promise!Open, Held!Promise!Remove, Vault!Promise!Remove, Held!Promise!Back,
         Vault!Promise!Back, Held!Promise!Closed, Vault!Promise!Closed, Held!Promise!accountVars,
         Vault!Promise!accountVars, Held!NoRecord, Vault!NoRecord, Held!State, Vault!State,
         Held!Devices, Vault!Devices, Held!Keys, Vault!Keys

\* Replaced, Beside and Nameless, as what is proved of every choice of constants has them.
TwoProcesses == [writers |-> Machines, maxWrites |-> 3, maxFaults |-> 2]
\* The two count sets alike.
LEMMA ReplacedCounts ==
  \A S : Replaced!Cardinality(S) = Replacing(TwoProcesses)!Cardinality(S)
  BY DEF Replaced!Cardinality, Replacing!Cardinality
\* The steps of Replaced are those of any processes that replace a file.
LEMMA ReplacedSteps ==
  /\ Replacing(TwoProcesses)!PrivateAssumption <=> Replaced!PrivateAssumption
  /\ Replaced!PrivateInit => Replacing(TwoProcesses)!PrivateInit
  /\ [Replaced!PrivateNext]_(Replaced!privateVars) =>
       [Replacing(TwoProcesses)!PrivateNext]_(Replacing(TwoProcesses)!privateVars)
<1>1. /\ TwoProcesses.writers = Machines /\ TwoProcesses.maxWrites = 3 /\ TwoProcesses.maxFaults = 2
  BY DEF TwoProcesses
<1> USE <1>1, ReplacedCounts DEF Replaced!File, Replacing!File, Replaced!First, Replacing!First,
                                 Replaced!Idle, Replacing!Idle, Replaced!At, Replacing!At,
                                 Replaced!Goes, Replacing!Goes, Replaced!Trouble,
                                 Replacing!Trouble, Replaced!Temporary, Replacing!Temporary,
                                 Replaced!With, Replacing!With, Replaced!Without,
                                 Replacing!Without, Replaced!Mine, Replacing!Mine, Replaced!Begun,
                                 Replacing!Begun, Replaced!InProgress, Replacing!InProgress
<1>2. Replacing(TwoProcesses)!PrivateAssumption <=> Replaced!PrivateAssumption
  BY DEF Replaced!PrivateAssumption, Replacing!PrivateAssumption
<1>3. Replaced!PrivateInit => Replacing(TwoProcesses)!PrivateInit
  BY DEF Replaced!PrivateInit, Replacing!PrivateInit
<1>9. ASSUME NEW p PROVE Replaced!Free(p) = Replacing(TwoProcesses)!Free(p)
  <2> DEFINE Free(k) ==
        CHOOSE n \in writer[p].counter .. writer[p].counter + k :
          /\ Replaced!Temporary(p, n) \notin DOMAIN dir
          /\ \A m \in writer[p].counter .. n - 1 : Replaced!Temporary(p, m) \in DOMAIN dir
  <2>1. Replaced!Free(p) = Free(3)
    BY DEF Replaced!Free, Free
  <2>2. Replacing(TwoProcesses)!Free(p) = Free(TwoProcesses.maxWrites)
    BY SMTT(60) DEF Replacing!Free, Free
  <2> HIDE DEF Free
  <2> QED
    BY <1>1, <2>1, <2>2
<1>4. ASSUME NEW p PROVE Replaced!Create(p) => Replacing(TwoProcesses)!Create(p)
  BY <1>9 DEF Replaced!Create, Replacing!Create
<1>8. ASSUME NEW p, Replaced!Write(p) \/ Replaced!Sync(p) \/ Replaced!Rename(p) \/ Replaced!Flushed(p)
      PROVE  \/ Replacing(TwoProcesses)!Write(p) \/ Replacing(TwoProcesses)!Sync(p)
             \/ Replacing(TwoProcesses)!Rename(p) \/ Replacing(TwoProcesses)!Flushed(p)
  BY <1>8 DEF Replaced!Write, Replacing!Write, Replaced!Sync, Replacing!Sync, Replaced!Rename,
              Replacing!Rename, Replaced!Flushed, Replacing!Flushed
<1>5. ASSUME NEW p PROVE Replaced!Fails(p) \/ Replaced!Killed(p) =>
                         Replacing(TwoProcesses)!Fails(p) \/ Replacing(TwoProcesses)!Killed(p)
  BY DEF Replaced!Fails, Replacing!Fails, Replaced!Killed, Replacing!Killed
<1>6. Replaced!WritesBack \/ Replaced!PowerGoes =>
        Replacing(TwoProcesses)!WritesBack \/ Replacing(TwoProcesses)!PowerGoes
  BY DEF Replaced!WritesBack, Replacing!WritesBack, Replaced!PowerGoes, Replacing!PowerGoes
<1>7. UNCHANGED Replaced!privateVars => UNCHANGED Replacing(TwoProcesses)!privateVars
  BY DEF Replaced!privateVars, Replacing!privateVars
<1> QED
  BY <1>2, <1>3, <1>4, <1>5, <1>6, <1>7, <1>8 DEF Replaced!PrivateNext, Replacing!PrivateNext,
                                                  Replaced!Replace, Replacing!Replace
\* And so is what is stated of it.
LEMMA ReplacedStates ==
  /\ Replacing(TwoProcesses)!PrivateTypeOK => Replaced!PrivateTypeOK
  /\ Replacing(TwoProcesses)!NeverTorn => Replaced!NeverTorn
  /\ Replacing(TwoProcesses)!AcknowledgedStays => Replaced!AcknowledgedStays
  BY SMTT(60), ReplacedCounts DEF TwoProcesses, Replaced!PrivateTypeOK, Replacing!PrivateTypeOK,
                        Replaced!NeverTorn, Replacing!NeverTorn, Replaced!AcknowledgedStays,
                        Replacing!AcknowledgedStays, Replaced!File, Replacing!File, Replaced!First,
                        Replacing!First, Replaced!Begun, Replacing!Begun, Replaced!At, Replacing!At

NamedSession ==
  [tabs |-> Machines, snapshots |-> {"earlier", "later"}, unnamed |-> "unnamed",
   sessionOf |-> [p \in {"earlier", "later"} |-> "session"], picks |-> {"start", "end"},
   makes |-> [m \in {"earlier", "later"} \X {"start", "end"} |->
              IF m[2] = "start" THEN "start" ELSE m[1]],
   maxSteps |-> 3, maxFaults |-> 1]
\* The steps of Beside are those of any tabs, snapshots and drafts.
LEMMA BesideSteps ==
  /\ Beside!ExcerptsAssumption => Kept(NamedSession)!ExcerptsAssumption
  /\ Beside!ExcerptsInit => Kept(NamedSession)!ExcerptsInit
  /\ [Beside!ExcerptsNext]_(Beside!excerptVars) =>
       [Kept(NamedSession)!ExcerptsNext]_(Kept(NamedSession)!excerptVars)
<1> DEFINE c == NamedSession
<1>1. /\ c.tabs = Machines /\ c.snapshots = {"earlier", "later"} /\ c.unnamed = "unnamed"
      /\ c.sessionOf = [p \in {"earlier", "later"} |-> "session"] /\ c.picks = {"start", "end"}
      /\ c.makes = [m \in {"earlier", "later"} \X {"start", "end"} |->
              IF m[2] = "start" THEN "start" ELSE m[1]]
      /\ c.maxSteps = 3 /\ c.maxFaults = 1
  BY SMTT(60) DEF NamedSession
<1> HIDE DEF c
<1> USE <1>1 DEF Beside!No, Kept!No, Beside!Excerpts, Kept!Excerpts, Beside!Put, Kept!Put,
                 Beside!Goes, Kept!Goes, Beside!Ends, Kept!Ends, Beside!Waits, Kept!Waits,
                 Beside!Keys, Kept!Keys, Beside!Over, Kept!Over, Beside!Begin, Kept!Begin,
                 Beside!Trouble, Kept!Trouble, Beside!Made, Kept!Made
<1>2. Beside!ExcerptsAssumption => Kept(c)!ExcerptsAssumption
  BY DEF Beside!ExcerptsAssumption, Kept!ExcerptsAssumption
<1>3. Beside!ExcerptsInit => Kept(c)!ExcerptsInit
  BY DEF Beside!ExcerptsInit, Kept!ExcerptsInit
<1>4. ASSUME NEW t PROVE Beside!PutTitle(t) => Kept(c)!PutTitle(t)
  BY DEF Beside!PutTitle, Kept!PutTitle
<1>5. ASSUME NEW t PROVE Beside!UnderSnapshot(t) => Kept(c)!UnderSnapshot(t)
  BY DEF Beside!UnderSnapshot, Kept!UnderSnapshot
<1>6. ASSUME NEW t PROVE Beside!UnderSession(t) => Kept(c)!UnderSession(t)
  BY DEF Beside!UnderSession, Kept!UnderSession
<1>7. ASSUME NEW t PROVE Beside!PostExport(t) => Kept(c)!PostExport(t)
  BY DEF Beside!PostExport, Kept!PostExport
<1>8. ASSUME NEW t PROVE Beside!SaveExcerpt(t) => Kept(c)!SaveExcerpt(t)
  BY DEF Beside!SaveExcerpt, Kept!SaveExcerpt
<1>9. ASSUME NEW t PROVE Beside!RecordView(t) => Kept(c)!RecordView(t)
  BY DEF Beside!RecordView, Kept!RecordView
<1>10. ASSUME NEW t PROVE Beside!PostPublish(t) => Kept(c)!PostPublish(t)
  BY DEF Beside!PostPublish, Kept!PostPublish
<1>11. ASSUME NEW t PROVE Beside!RecordPublished(t) => Kept(c)!RecordPublished(t)
  BY DEF Beside!RecordPublished, Kept!RecordPublished
<1>12. ASSUME NEW t PROVE Beside!Reply(t) => Kept(c)!Reply(t)
  BY DEF Beside!Reply, Kept!Reply
<1>13. ASSUME NEW t PROVE Beside!CutShort(t) => Kept(c)!CutShort(t)
  BY DEF Beside!CutShort, Kept!CutShort
<1>14. ASSUME NEW x PROVE Beside!Delete(x) => Kept(c)!Delete(x)
  BY DEF Beside!Delete, Kept!Delete
<1>15. UNCHANGED Beside!excerptVars => UNCHANGED Kept(c)!excerptVars
  BY DEF Beside!excerptVars, Kept!excerptVars
<1>16. Beside!Excerpts = Kept(c)!Excerpts
  BY DEF Beside!Excerpts, Kept!Excerpts
<1>17. ASSUME NEW t PROVE Beside!Compose(t) => Kept(c)!Compose(t)
  BY <1>4, <1>5, <1>6, <1>7, <1>8, <1>9, <1>10, <1>11 DEF Beside!Compose, Kept!Compose
<1> QED
  BY <1>2, <1>3, <1>12, <1>13, <1>14, <1>15, <1>16, <1>17 DEF c, Beside!ExcerptsNext,
                                                              Kept!ExcerptsNext
\* And so is what is stated of it.
LEMMA BesideStates ==
  /\ Kept(NamedSession)!ExcerptsTypeOK => Beside!ExcerptsTypeOK
  /\ Kept(NamedSession)!TitlesStay => Beside!TitlesStay
  /\ Kept(NamedSession)!ExcerptsListed => Beside!ExcerptsListed
  /\ Kept(NamedSession)!LinkOffered => Beside!LinkOffered
<1> DEFINE c == NamedSession
<1>1. /\ c.tabs = Machines /\ c.snapshots = {"earlier", "later"} /\ c.unnamed = "unnamed"
      /\ c.sessionOf = [p \in {"earlier", "later"} |-> "session"] /\ c.picks = {"start", "end"}
      /\ c.makes = [m \in {"earlier", "later"} \X {"start", "end"} |->
              IF m[2] = "start" THEN "start" ELSE m[1]]
  BY DEF NamedSession
<1> HIDE DEF c
<1> USE <1>1
<1>2. Kept(c)!ExcerptsTypeOK => Beside!ExcerptsTypeOK
  BY DEF Beside!ExcerptsTypeOK, Kept!ExcerptsTypeOK, Beside!No, Kept!No, Beside!Excerpts,
         Kept!Excerpts
<1>3. Kept(c)!TitlesStay => Beside!TitlesStay
  BY DEF Beside!TitlesStay, Kept!TitlesStay, Beside!ToldOfTitle, Kept!ToldOfTitle, Beside!TitleFor,
         Kept!TitleFor, Beside!Typed, Kept!Typed, Beside!Keys, Kept!Keys, Beside!Older, Kept!Older
<1>4. Kept(c)!ExcerptsListed => Beside!ExcerptsListed
  BY DEF Beside!ExcerptsListed, Kept!ExcerptsListed, Beside!ToldOfNote, Kept!ToldOfNote,
         Beside!SavedViews, Kept!SavedViews, Beside!Older, Kept!Older
<1>5. Kept(c)!LinkOffered => Beside!LinkOffered
  BY DEF Beside!LinkOffered, Kept!LinkOffered, Beside!ToldOfLink, Kept!ToldOfLink, Beside!Older,
         Kept!Older
<1> QED
  BY <1>2, <1>3, <1>4, <1>5 DEF c

UnnamedSession ==
  [tabs |-> Machines, snapshots |-> {"earlier"}, unnamed |-> "unnamed",
   sessionOf |-> [p \in {"earlier"} |-> "unnamed"], picks |-> {"start"},
   makes |-> [m \in {"earlier"} \X {"start"} |-> "start"],
   maxSteps |-> 3, maxFaults |-> 1]
\* The steps of Nameless are those of any tabs, snapshots and drafts.
LEMMA NamelessSteps ==
  /\ Nameless!ExcerptsAssumption => Kept(UnnamedSession)!ExcerptsAssumption
  /\ Nameless!ExcerptsInit => Kept(UnnamedSession)!ExcerptsInit
  /\ [Nameless!ExcerptsNext]_(Nameless!excerptVars) =>
       [Kept(UnnamedSession)!ExcerptsNext]_(Kept(UnnamedSession)!excerptVars)
<1> DEFINE c == UnnamedSession
<1>1. /\ c.tabs = Machines /\ c.snapshots = {"earlier"} /\ c.unnamed = "unnamed"
      /\ c.sessionOf = [p \in {"earlier"} |-> "unnamed"] /\ c.picks = {"start"}
      /\ c.makes = [m \in {"earlier"} \X {"start"} |-> "start"]
      /\ c.maxSteps = 3 /\ c.maxFaults = 1
  BY SMTT(60) DEF UnnamedSession
<1> HIDE DEF c
<1> USE <1>1 DEF Nameless!No, Kept!No, Nameless!Excerpts, Kept!Excerpts, Nameless!Put, Kept!Put,
                 Nameless!Goes, Kept!Goes, Nameless!Ends, Kept!Ends, Nameless!Waits, Kept!Waits,
                 Nameless!Keys, Kept!Keys, Nameless!Over, Kept!Over, Nameless!Begin, Kept!Begin,
                 Nameless!Trouble, Kept!Trouble, Nameless!Made, Kept!Made
<1>2. Nameless!ExcerptsAssumption => Kept(c)!ExcerptsAssumption
  BY DEF Nameless!ExcerptsAssumption, Kept!ExcerptsAssumption
<1>3. Nameless!ExcerptsInit => Kept(c)!ExcerptsInit
  BY DEF Nameless!ExcerptsInit, Kept!ExcerptsInit
<1>4. ASSUME NEW t PROVE Nameless!PutTitle(t) => Kept(c)!PutTitle(t)
  BY DEF Nameless!PutTitle, Kept!PutTitle
<1>5. ASSUME NEW t PROVE Nameless!UnderSnapshot(t) => Kept(c)!UnderSnapshot(t)
  BY DEF Nameless!UnderSnapshot, Kept!UnderSnapshot
<1>6. ASSUME NEW t PROVE Nameless!UnderSession(t) => Kept(c)!UnderSession(t)
  BY DEF Nameless!UnderSession, Kept!UnderSession
<1>7. ASSUME NEW t PROVE Nameless!PostExport(t) => Kept(c)!PostExport(t)
  BY DEF Nameless!PostExport, Kept!PostExport
<1>8. ASSUME NEW t PROVE Nameless!SaveExcerpt(t) => Kept(c)!SaveExcerpt(t)
  BY DEF Nameless!SaveExcerpt, Kept!SaveExcerpt
<1>9. ASSUME NEW t PROVE Nameless!RecordView(t) => Kept(c)!RecordView(t)
  BY DEF Nameless!RecordView, Kept!RecordView
<1>10. ASSUME NEW t PROVE Nameless!PostPublish(t) => Kept(c)!PostPublish(t)
  BY ZenonT(60) DEF Nameless!PostPublish, Kept!PostPublish
<1>11. ASSUME NEW t PROVE Nameless!RecordPublished(t) => Kept(c)!RecordPublished(t)
  BY DEF Nameless!RecordPublished, Kept!RecordPublished
<1>12. ASSUME NEW t PROVE Nameless!Reply(t) => Kept(c)!Reply(t)
  BY DEF Nameless!Reply, Kept!Reply
<1>13. ASSUME NEW t PROVE Nameless!CutShort(t) => Kept(c)!CutShort(t)
  BY DEF Nameless!CutShort, Kept!CutShort
<1>14. ASSUME NEW x PROVE Nameless!Delete(x) => Kept(c)!Delete(x)
  BY DEF Nameless!Delete, Kept!Delete
<1>15. UNCHANGED Nameless!excerptVars => UNCHANGED Kept(c)!excerptVars
  BY DEF Nameless!excerptVars, Kept!excerptVars
<1>16. Nameless!Excerpts = Kept(c)!Excerpts
  BY SMTT(60) DEF Nameless!Excerpts, Kept!Excerpts
<1>17. ASSUME NEW t PROVE Nameless!Compose(t) => Kept(c)!Compose(t)
  BY <1>4, <1>5, <1>6, <1>7, <1>8, <1>9, <1>10, <1>11 DEF Nameless!Compose, Kept!Compose
<1> QED
  BY <1>2, <1>3, <1>12, <1>13, <1>14, <1>15, <1>16, <1>17 DEF c, Nameless!ExcerptsNext,
                                                              Kept!ExcerptsNext
\* And so is what is stated of it.
LEMMA NamelessStates ==
  /\ Kept(UnnamedSession)!ExcerptsTypeOK => Nameless!ExcerptsTypeOK
  /\ Kept(UnnamedSession)!TitlesStay => Nameless!TitlesStay
  /\ Kept(UnnamedSession)!ExcerptsListed => Nameless!ExcerptsListed
  /\ Kept(UnnamedSession)!LinkOffered => Nameless!LinkOffered
<1> DEFINE c == UnnamedSession
<1>1. /\ c.tabs = Machines /\ c.snapshots = {"earlier"} /\ c.unnamed = "unnamed"
      /\ c.sessionOf = [p \in {"earlier"} |-> "unnamed"] /\ c.picks = {"start"}
      /\ c.makes = [m \in {"earlier"} \X {"start"} |-> "start"]
  BY SMTT(60) DEF UnnamedSession
<1> HIDE DEF c
<1> USE <1>1
<1>2. Kept(c)!ExcerptsTypeOK => Nameless!ExcerptsTypeOK
  BY DEF Nameless!ExcerptsTypeOK, Kept!ExcerptsTypeOK, Nameless!No, Kept!No, Nameless!Excerpts,
         Kept!Excerpts
<1>3. Kept(c)!TitlesStay => Nameless!TitlesStay
  BY DEF Nameless!TitlesStay, Kept!TitlesStay, Nameless!ToldOfTitle, Kept!ToldOfTitle,
         Nameless!TitleFor, Kept!TitleFor, Nameless!Typed, Kept!Typed, Nameless!Keys, Kept!Keys,
         Nameless!Older, Kept!Older
<1>4. Kept(c)!ExcerptsListed => Nameless!ExcerptsListed
  BY DEF Nameless!ExcerptsListed, Kept!ExcerptsListed, Nameless!ToldOfNote, Kept!ToldOfNote,
         Nameless!SavedViews, Kept!SavedViews, Nameless!Older, Kept!Older
<1>5. Kept(c)!LinkOffered => Nameless!LinkOffered
  BY DEF Nameless!LinkOffered, Kept!LinkOffered, Nameless!ToldOfLink, Kept!ToldOfLink,
         Nameless!Older, Kept!Older
<1> QED
  BY <1>2, <1>3, <1>4, <1>5 DEF c

-----------------------------------------------------------------------------
(* What every behaviour keeps.                                             *)

AccountInv ==
  /\ Is("account") => Held!IdentityInv
  /\ Is("shared account") => Both!IdentityInv
  /\ Is("restored account") => Back!IdentityInv
  /\ Is("links") => Published!LinkInv /\ Published!FewReceipts(m1, m2)
  /\ Is("shares for a person") => Pair!NamedInv /\ Pair!WrittenInv
  /\ Is("shares for two") => Couple!NamedInv /\ Couple!WrittenInv
  /\ Is("shares left pending") => Left!NamedInv
  /\ Is("replaced file") => FileInv(TwoProcesses)
  /\ Is("beside previews") => BesideInv(NamedSession)
  /\ Is("nameless session") => BesideInv(UnnamedSession)

\* The constants of the parts are what their modules take.
LEMMA PartsAssumptions ==
  /\ Published!PublishAssumption /\ Pair!NamedAssumption /\ Couple!NamedAssumption
  /\ Left!NamedAssumption
  /\ Replacing(TwoProcesses)!PrivateAssumption
  /\ Kept(NamedSession)!ExcerptsAssumption /\ Kept(UnnamedSession)!ExcerptsAssumption
<1>1. /\ Published!PublishAssumption /\ Pair!NamedAssumption /\ Couple!NamedAssumption
      /\ Left!NamedAssumption
  BY AccountAssumption, LinkCounts
     DEF Link!PublishAssumption, Published!PublishAssumption, TwoMachines!NamedAssumption,
         Pair!NamedAssumption, TwoPeople!NamedAssumption, Couple!NamedAssumption,
         LeftPending!NamedAssumption, Left!NamedAssumption
<1>2. Replacing(TwoProcesses)!PrivateAssumption
  BY AccountAssumption, ReplacedSteps
<1>3. Kept(NamedSession)!ExcerptsAssumption /\ Kept(UnnamedSession)!ExcerptsAssumption
  BY AccountAssumption, BesideSteps, NamelessSteps
<1> QED
  BY <1>1, <1>2, <1>3

\* A behaviour is one part's, and its step is one of that part, or none.
LEMMA PartsStep ==
  [Next]_vars =>
    /\ UNCHANGED part
    /\ Is("account") => [Vault!Next]_(Vault!vars)
    /\ Is("shared account") => [SharedVault!Next]_(SharedVault!vars)
    /\ Is("restored account") => [Restored!Next]_(Restored!vars)
    /\ Is("links") => [Link!Next]_(Link!vars)
    /\ Is("shares for a person") => [TwoMachines!Next]_(TwoMachines!vars)
    /\ Is("shares for two") => [TwoPeople!Next]_(TwoPeople!vars)
    /\ Is("shares left pending") => [LeftPending!Next]_(LeftPending!vars)
    /\ Is("replaced file") => [Replaced!PrivateNext]_(Replaced!privateVars)
    /\ Is("beside previews") => [Beside!ExcerptsNext]_(Beside!excerptVars)
    /\ Is("nameless session") => [Nameless!ExcerptsNext]_(Nameless!excerptVars)
<1> USE DEF Is
<1>1. CASE AccountNext
  BY Zenon, <1>1 DEF AccountNext
<1>2. CASE NamedNext
  BY Zenon, <1>2 DEF NamedNext
<1>3. CASE LinkNext
  BY <1>3 DEF LinkNext
<1>4. CASE HomeNext
  BY Zenon, <1>4 DEF HomeNext
<1>5. CASE UNCHANGED vars
  BY <1>5 DEF vars, identityVars, namedVars, linkVars, bothVars, homeVars, fileVars, besideVars,
              Vault!vars, Vault!service, Vault!history, SharedVault!vars, SharedVault!service,
              SharedVault!history, Restored!vars, Restored!service, Restored!history,
              TwoMachines!vars, TwoMachines!local, TwoMachines!service, TwoMachines!people,
              TwoPeople!vars, TwoPeople!local, TwoPeople!service, TwoPeople!people,
              LeftPending!vars, LeftPending!local, LeftPending!service, LeftPending!people,
              Link!vars, Link!service, Replaced!privateVars, Beside!excerptVars,
              Nameless!excerptVars
<1> QED
  BY ZenonT(60), <1>1, <1>2, <1>3, <1>4, <1>5 DEF Next

\* At first each part is as its module has it.
LEMMA AccountInvInit == Init => AccountInv
<1> SUFFICES ASSUME Init PROVE AccountInv
  OBVIOUS
<1>1. Is("links") => Published!Init
  BY DEF Init, Is, Accounts, Link!Init, Published!Init, Link!Idle, Published!Idle
<1>2. Is("shares for a person") => Pair!Init
  BY Zenon DEF Init, Is, Accounts, TwoMachines!Init, Pair!Init, TwoMachines!Idle, Pair!Idle
<1>3. Is("shares for two") => Couple!Init
  BY Zenon DEF Init, Is, Accounts, TwoPeople!Init, Couple!Init, TwoPeople!Idle, Couple!Idle
<1>4. Is("shares left pending") => Left!Init
  BY Zenon DEF Init, Is, Accounts, LeftPending!Init, Left!Init, LeftPending!Idle, Left!Idle
<1>5. /\ Is("account") => Held!IdentityInv
      /\ Is("shared account") => Both!IdentityInv
      /\ Is("restored account") => Back!IdentityInv
  <2>1. part \in Accounts => Vault!Init
    BY Zenon DEF Init, Is, Accounts
  <2> QED
    BY ZenonT(60), <2>1, AccountsInit, AccountsAssumptions, Held!IdentityInvInit, Both!IdentityInvInit,
       Back!IdentityInvInit
       DEF Is, Accounts
<1>6. Is("replaced file") => FileInv(TwoProcesses)
  <2>1. Is("replaced file") => Replaced!PrivateInit
    BY Zenon DEF Init, Is, Accounts
  <2> QED
    BY ZenonT(60), <2>1, ReplacedSteps, FileInvInit
<1>7. Is("beside previews") => BesideInv(NamedSession)
  <2>1. Is("beside previews") => Beside!ExcerptsInit
    BY Zenon DEF Init, Is, Accounts
  <2> QED
    BY ZenonT(60), <2>1, BesideSteps, BesideInvInit
<1>8. Is("nameless session") => BesideInv(UnnamedSession)
  <2>1. Is("nameless session") => Nameless!ExcerptsInit
    BY Zenon DEF Init, Is, Accounts
  <2> QED
    BY ZenonT(60), <2>1, NamelessSteps, BesideInvInit
<1>9. /\ Is("links") => Published!LinkInv /\ Published!FewReceipts(m1, m2)
      /\ Is("shares for a person") => Pair!NamedInv /\ Pair!WrittenInv
      /\ Is("shares for two") => Couple!NamedInv /\ Couple!WrittenInv
      /\ Is("shares left pending") => Left!NamedInv
  BY ZenonT(60), <1>1, <1>2, <1>3, <1>4, PartsAssumptions, Published!LinkInvInit, Published!FewReceiptsInit,
     Pair!NamedInvInit, Couple!NamedInvInit, Left!NamedInvInit
<1> QED
  BY ZenonT(60), <1>5, <1>6, <1>7, <1>8, <1>9 DEF AccountInv

\* Each part's step keeps its own invariant.
LEMMA AccountInvNext == AccountInv /\ [Next]_vars => AccountInv'
<1> SUFFICES ASSUME AccountInv, [Next]_vars PROVE AccountInv'
  OBVIOUS
<1>1. Is("links") => Published!LinkInv' /\ Published!FewReceipts(m1, m2)'
  BY ZenonT(60), PartsStep, PartsAssumptions, PublishedNext, Published!LinkInvNext, Published!FewReceiptsNext
     DEF AccountInv, Machines
<1>2. Is("shares for a person") => Pair!NamedInv' /\ Pair!WrittenInv'
  BY ZenonT(60), PartsStep, PartsAssumptions, PairNext, Pair!NamedInvNext, Pair!WrittenNext
     DEF AccountInv, Pair!WrittenInv
<1>3. Is("shares for two") => Couple!NamedInv' /\ Couple!WrittenInv'
  BY ZenonT(60), PartsStep, PartsAssumptions, CoupleNext, Couple!NamedInvNext, Couple!WrittenNext
     DEF AccountInv, Couple!WrittenInv
<1>4. Is("shares left pending") => Left!NamedInv'
  BY ZenonT(60), PartsStep, PartsAssumptions, LeftNext, Left!NamedInvNext DEF AccountInv
<1>5. Is("account") => Held!IdentityInv'
  BY ZenonT(60), PartsStep, AccountsAssumptions, HeldNext, Held!IdentityInvNext DEF AccountInv
<1>6. Is("shared account") => Both!IdentityInv'
  BY ZenonT(60), PartsStep, AccountsAssumptions, BothNext, Both!IdentityInvNext DEF AccountInv
<1>7. Is("restored account") => Back!IdentityInv'
  BY ZenonT(60), PartsStep, AccountsAssumptions, BackNext, Back!IdentityInvNext DEF AccountInv
<1>8. Is("replaced file") => FileInv(TwoProcesses)'
  BY ZenonT(60), PartsStep, PartsAssumptions, ReplacedSteps, FileInvNext DEF AccountInv
<1>9. Is("beside previews") => BesideInv(NamedSession)'
  BY ZenonT(60), PartsStep, PartsAssumptions, BesideSteps, BesideInvNext DEF AccountInv
<1>10. Is("nameless session") => BesideInv(UnnamedSession)'
  BY ZenonT(60), PartsStep, PartsAssumptions, NamelessSteps, BesideInvNext DEF AccountInv
<1>11. part' = part
  BY Zenon, PartsStep
<1> QED
  BY ZenonT(60), <1>1, <1>2, <1>3, <1>4, <1>5, <1>6, <1>7, <1>8, <1>9, <1>10, <1>11 DEF AccountInv, Is

\* The invariant holds in every reachable state.
THEOREM AccountInvariance == Spec => []AccountInv
  BY AccountInvInit, AccountInvNext, PTL DEF Spec

\* Files, records, receipts and steps are of their kinds in every part.
THEOREM AccountTypes == Spec => []AccountTypeOK
<1>1. AccountInv =>
        /\ Is("account") => Vault!IdentityTypeOK
        /\ Is("shared account") => SharedVault!IdentityTypeOK
        /\ Is("restored account") => Restored!IdentityTypeOK
  BY ZenonT(60), AccountsAssumptions, HeldStates, BothStates, BackStates, Held!InvTypeOK, Both!InvTypeOK,
     Back!InvTypeOK
     DEF AccountInv
<1>2. AccountInv /\ Is("shares for a person") => TwoMachines!NamedTypeOK
  BY ZenonT(60), PairUnknown
     DEF AccountInv, Pair!NamedInv, Pair!NamedTyped, Pair!NamedTypeOK, TwoMachines!NamedTypeOK,
         Pair!Envelopes, TwoMachines!Envelopes, Pair!Statuses, TwoMachines!Statuses
<1>3. AccountInv /\ Is("shares for two") => TwoPeople!NamedTypeOK
  BY ZenonT(60), CoupleUnknown
     DEF AccountInv, Couple!NamedInv, Couple!NamedTyped, Couple!NamedTypeOK,
         TwoPeople!NamedTypeOK, Couple!Envelopes, TwoPeople!Envelopes, Couple!Statuses,
         TwoPeople!Statuses
<1>4. AccountInv /\ Is("shares left pending") => LeftPending!NamedTypeOK
  BY Zenon, LeftUnknown
     DEF AccountInv, Left!NamedInv, Left!NamedTyped, Left!NamedTypeOK, LeftPending!NamedTypeOK,
         Left!Envelopes, LeftPending!Envelopes, Left!Statuses, LeftPending!Statuses
<1>5. AccountInv /\ Is("links") => Link!LinkTypeOK
  BY ZenonT(60), Published!LinkInvTypes
     DEF AccountInv, Link!LinkTypeOK, Published!LinkTypeOK, Link!AllEnvelopes,
         Published!AllEnvelopes, Link!Steps, Published!Steps
<1>6. AccountInv =>
        /\ Is("replaced file") => Replaced!PrivateTypeOK
        /\ Is("beside previews") => Beside!ExcerptsTypeOK
        /\ Is("nameless session") => Nameless!ExcerptsTypeOK
  BY ZenonT(60), PartsAssumptions, FileInvHolds, BesideInvHolds, ReplacedStates, BesideStates, NamelessStates
     DEF AccountInv
<1> QED
  BY <1>1, <1>2, <1>3, <1>4, <1>5, <1>6, AccountInvariance, PTL DEF AccountTypeOK

\* The keys go with the devices the account lists, whichever writes race or are lost
\* (identity.rs, vault.rs, history.rs).
THEOREM KeysAreTheAccounts == Spec => []KeysFollowTheDevices
<1>1. AccountInv => KeysFollowTheDevices
  BY ZenonT(60), AccountsAssumptions, HeldStates, BothStates, Held!InvKeys, Both!InvKeys
     DEF AccountInv, KeysFollowTheDevices
<1> QED
  BY <1>1, AccountInvariance, PTL

\* What a machine was told is backed up stays in the vault (identity.rs), what a program was
\* told is written is there whole after any failure (home.rs), and what a person was told of
\* stays what is shown until another is made (drafts.rs).
THEOREM ToldIsKept == Spec => []BackedUpStays
<1>1. AccountInv =>
        /\ Is("account") => Vault!BackedUpStays
        /\ Is("shared account") => SharedVault!BackedUpStays
  BY ZenonT(60), AccountsAssumptions, HeldStates, BothStates, Held!InvKeys, Both!InvKeys DEF AccountInv
<1>2. AccountInv =>
        /\ Is("replaced file") => Replaced!NeverTorn /\ Replaced!AcknowledgedStays
        /\ Is("beside previews") => Beside!TitlesStay /\ Beside!ExcerptsListed /\ Beside!LinkOffered
        /\ Is("nameless session") =>
             Nameless!TitlesStay /\ Nameless!ExcerptsListed /\ Nameless!LinkOffered
  BY ZenonT(60), PartsAssumptions, FileInvHolds, BesideInvHolds, ReplacedStates, BesideStates, NamelessStates
     DEF AccountInv
<1> QED
  BY <1>1, <1>2, AccountInvariance, PTL DEF BackedUpStays

\* The service's record is an account as Account.tla states it: every step of any part that
\* is about an account takes the record as the abstract account allows, or leaves it.
THEOREM RecordsAreAccounts == Spec => ImplementsAccount
<1>1. AccountInv /\ AccountInv' /\ [Next]_vars /\ Is("account") =>
        Vault!Promise!AccountNext \/ UNCHANGED Vault!Promise!accountVars
  <2> SUFFICES ASSUME AccountInv, AccountInv', [Next]_vars, Is("account")
               PROVE  Vault!Promise!AccountNext \/ UNCHANGED Vault!Promise!accountVars
    OBVIOUS
  <2>1. Held!IdentityInv /\ Held!IdentityInv' /\ [Held!Next]_(Held!vars)
    BY Zenon, PartsStep, HeldNext DEF AccountInv, Is
  <2>2. restores' \in 0 .. 0
    BY <2>1 DEF Held!IdentityInv, Held!PinsInv, Held!Typed
  <2>3. restores' = 0
    BY <2>2
  <2> QED
    BY <2>1, <2>3, AccountsAssumptions, Held!PromiseStep, HeldPromises
<1> QED
  BY <1>1, AccountInvariance, PTL DEF Spec, ImplementsAccount

\* Where no pending copy may be left behind, none is.
LEMMA NoLeftovers ==
  /\ AccountInv /\ Is("shares for a person") => leftovers = 0
  /\ AccountInv /\ Is("shares for two") => leftovers = 0
<1>1. Pair!NamedInv => leftovers \in 0 .. 0
  BY DEF Pair!NamedInv, Pair!NamedTyped, Pair!NamedTypeOK
<1>2. Couple!NamedInv => leftovers \in 0 .. 0
  BY DEF Couple!NamedInv, Couple!NamedTyped, Couple!NamedTypeOK
<1>3. \A x \in 0 .. 0 : x = 0
  OBVIOUS
<1> QED
  BY ZenonT(60), <1>1, <1>2, <1>3 DEF AccountInv

\* Whatever answers were lost and whoever died on the way: the key of everything online is
\* on a machine, a link a person was given has its receipt, and a retry sends what an
\* attempt before it sealed (publish.rs, named.rs).
THEOREM LinkKeysAreKept == Spec => []LinkKeysKept
<1>1. AccountInv /\ Is("links") => Link!KeyNeverLost /\ Link!LinkHasReceipt
  BY Zenon DEF AccountInv, Published!LinkInv, Link!KeyNeverLost, Published!KeyNeverLost,
         Link!LinkHasReceipt, Published!LinkHasReceipt
<1>2. AccountInv /\ Is("links") => Link!RetriesReuse
  <2>1. m1 # m2 => Cardinality(Machines) = 2
    <3>1. IsFiniteSet({m1}) /\ Cardinality({m1}) = 1
      BY FS_Singleton
    <3>2. Machines = {m1} \union {m2}
      BY DEF Machines
    <3> QED
      BY <3>1, <3>2, FS_AddElement
  <2>2. m1 # m2 => Published!Cardinality(Machines) = 2
    BY <2>1, LinkCounts
  <2>3. AccountInv /\ Is("links") => Published!RetriesReuse
    BY ZenonT(60), <2>2, PartsAssumptions, Published!FewReceiptsIsReuse DEF AccountInv, Machines
  <2> QED
    BY <2>3, LinkCounts
       DEF Link!RetriesReuse, Published!RetriesReuse, Link!Kept, Published!Kept, Link!At,
           Published!At
<1>3. AccountInv /\ Is("shares for a person") => TwoMachines!NamedKeyKept
  BY Zenon DEF AccountInv, Pair!NamedInv, TwoMachines!NamedKeyKept, Pair!NamedKeyKept
<1> QED
  BY <1>1, <1>2, <1>3, AccountInvariance, PTL DEF LinkKeysKept

\* Only what a person agreed to publish, where they agreed to, is online, and a key goes
\* only to the person invited, who proved it, and never after they were revoked.
THEOREM OnlyAsWasAgreed == Spec => []OnlyAsAgreed
<1>1. AccountInv /\ Is("links") => Link!OnlyWhatWasAgreed
  BY Zenon DEF AccountInv, Published!LinkInv, Link!OnlyWhatWasAgreed, Published!OnlyWhatWasAgreed
<1>2. AccountInv /\ Is("shares for two") => TwoPeople!OnlyTheInvited
  BY Zenon DEF AccountInv, Couple!NamedInv, TwoPeople!OnlyTheInvited, Couple!OnlyTheInvited
<1>3. AccountInv /\ Is("shares left pending") => LeftPending!OnlyTheInvited
  BY Zenon DEF AccountInv, Left!NamedInv, LeftPending!OnlyTheInvited, Left!OnlyTheInvited
<1>4. AccountInv /\ Is("shares for a person") => TwoMachines!NeverGrantedAfter
  BY Zenon, NoLeftovers
     DEF AccountInv, Pair!WrittenInv, TwoMachines!NeverGrantedAfter, Pair!NeverGrantedAfter
<1> QED
  BY <1>1, <1>2, <1>3, <1>4, AccountInvariance, PTL DEF OnlyAsAgreed

\* In the parts "account" and "restored account", no machine forgets what it accepted, even if
\* the service was restored from a copy of its disk (device.rs: pin, wrote); in "shares for a
\* person" and "shares for two", no step takes back what was written down of the people a share
\* is for (named.rs: grant).  Nothing is said of the other parts: in "shares left pending", where
\* a pending copy of a share is left behind, it fails.
THEOREM AcceptedStays == Spec => NothingForgotten
<1>1. AccountInv /\ [Next]_vars /\ Is("account") => Vault!KeepsItsPins
  BY ZenonT(60), PartsStep, AccountsAssumptions, HeldNext, HeldStates, Held!PinsKept DEF AccountInv
<1>2. AccountInv /\ [Next]_vars /\ Is("restored account") => Restored!KeepsItsPins
  BY ZenonT(60), PartsStep, AccountsAssumptions, BackNext, BackStates, Back!PinsKept DEF AccountInv
<1>0. \A x \in 0 .. 0 : x = 0
  OBVIOUS
<1>3. AccountInv /\ AccountInv' /\ [Next]_vars /\ Is("shares for a person") =>
        TwoMachines!KeepsWhatIsWritten
  <2> SUFFICES ASSUME AccountInv, AccountInv', [Next]_vars, Is("shares for a person")
               PROVE  TwoMachines!KeepsWhatIsWritten
    BY Zenon
  <2>1. Pair!NamedInv /\ Pair!WrittenInv /\ Pair!NamedInv'
    BY Zenon, PartsStep DEF AccountInv, Is
  <2>2. leftovers' \in 0 .. 0
    BY Zenon, <2>1 DEF Pair!NamedInv, Pair!NamedTyped, Pair!NamedTypeOK
  <2>3. leftovers' = 0 /\ [Pair!Next]_(Pair!vars)
    BY ZenonT(60), <1>0, <2>2, PartsStep, PairNext
  <2>4. Pair!KeepsWhatIsWritten
    BY ZenonT(60), <2>1, <2>3, Pair!WrittenNext
  <2> QED
    BY Zenon, <2>4 DEF Pair!KeepsWhatIsWritten, TwoMachines!KeepsWhatIsWritten
<1>4. AccountInv /\ AccountInv' /\ [Next]_vars /\ Is("shares for two") =>
        TwoPeople!KeepsWhatIsWritten
  <2> SUFFICES ASSUME AccountInv, AccountInv', [Next]_vars, Is("shares for two")
               PROVE  TwoPeople!KeepsWhatIsWritten
    BY Zenon
  <2>1. Couple!NamedInv /\ Couple!WrittenInv /\ Couple!NamedInv'
    BY Zenon, PartsStep DEF AccountInv, Is
  <2>2. leftovers' \in 0 .. 0
    BY Zenon, <2>1 DEF Couple!NamedInv, Couple!NamedTyped, Couple!NamedTypeOK
  <2>3. leftovers' = 0 /\ [Couple!Next]_(Couple!vars)
    BY ZenonT(60), <1>0, <2>2, PartsStep, CoupleNext
  <2>4. Couple!KeepsWhatIsWritten
    BY Zenon, <2>1, <2>3, Couple!WrittenNext
  <2> QED
    BY Zenon, <2>4 DEF Couple!KeepsWhatIsWritten, TwoPeople!KeepsWhatIsWritten
<1> QED
  BY <1>1, <1>2, <1>3, <1>4, AccountInvariance, PTL DEF Spec, NothingForgotten
=============================================================================
