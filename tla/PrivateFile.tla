----------------------------- MODULE PrivateFile -----------------------------
(***************************************************************************)
(* How every file of the home is replaced (src/crates/slink-local:         *)
(* home.rs, write_private): written beside it under a name made for it     *)
(* alone, flushed, renamed over it, and the directory flushed.             *)
(*                                                                         *)
(* Several processes write one file; a process is killed at any step; the  *)
(* power goes.  What a directory or a file holds is on disk once it is     *)
(* flushed, or when the system writes it back on its own.  The directory   *)
(* itself is taken to be on disk: one just made is not flushed in its      *)
(* parent.                                                                 *)
(***************************************************************************)
EXTENDS Naturals, FiniteSets

CONSTANTS
  Writers,     \* processes that replace the file
  MaxWrites,   \* bound: writes begun
  MaxFaults    \* bound: steps that fail, processes killed and losses of power

\* No process is numbered as the file is named.
PrivateAssumption == "file" \notin Writers /\ MaxWrites \in Nat \ {0} /\ MaxFaults \in Nat

VARIABLES
  dir,      \* name |-> the node a reader finds under it
  onDisk,   \* the directory as a loss of power would leave it
  nodes,    \* node |-> [text, whole, flushed]: the write it is of, and how much of it is there
  writer,   \* process |-> [at, node, counter, before]: its write, and the writes over before it
  replaced, \* history: writes that were over before one that was acknowledged was begun
  trouble

privateVars == <<dir, onDisk, nodes, writer, replaced, trouble>>

\* The file itself, and the names made of a process and its count of them.
File == <<"file", 0>>
Temporary(p, n) == <<p, n>>

\* A node is a write's; the file was written before any of them.
First == 0
Node == First .. MaxWrites
Begun == Cardinality(DOMAIN nodes) - 1
Idle == [at |-> "idle", node |-> First, counter |-> 0, before |-> {}]

With(f, name, node) == [x \in DOMAIN f \union {name} |-> IF x = name THEN node ELSE f[x]]
Without(f, name) == [x \in DOMAIN f \ {name} |-> f[x]]
At(p, step) == writer[p].at = step
Goes(p, step) == writer' = [writer EXCEPT ![p].at = step]
Mine(p) == Temporary(p, writer[p].counter)
Trouble == trouble < MaxFaults /\ trouble' = trouble + 1
InProgress == {writer[q].node : q \in {q \in Writers : writer[q].at # "idle"}}

-----------------------------------------------------------------------------
\* A name that is taken, left by a process that had the same number, is passed over.
Free(p) ==
  CHOOSE n \in writer[p].counter .. writer[p].counter + MaxWrites :
    /\ Temporary(p, n) \notin DOMAIN dir
    /\ \A m \in writer[p].counter .. n - 1 : Temporary(p, m) \in DOMAIN dir

Create(p) ==
  /\ At(p, "idle") /\ Begun < MaxWrites
  /\ LET node == Begun + 1
     IN /\ nodes' = With(nodes, node, [whole |-> FALSE, flushed |-> FALSE])
        /\ dir' = With(dir, Temporary(p, Free(p)), node)
        /\ writer' = [writer EXCEPT ![p] =
             [at |-> "created", node |-> node, counter |-> Free(p),
              before |-> DOMAIN nodes \ InProgress]]
  /\ UNCHANGED <<onDisk, replaced, trouble>>

Write(p) ==
  /\ At(p, "created") /\ Goes(p, "written")
  /\ nodes' = [nodes EXCEPT ![writer[p].node].whole = TRUE]
  /\ UNCHANGED <<dir, onDisk, replaced, trouble>>

Sync(p) ==
  /\ At(p, "written") /\ Goes(p, "flushed")
  /\ nodes' = [nodes EXCEPT ![writer[p].node].flushed = TRUE]
  /\ UNCHANGED <<dir, onDisk, replaced, trouble>>

Rename(p) ==
  /\ At(p, "flushed") /\ Goes(p, "renamed")
  /\ dir' = With(Without(dir, Mine(p)), File, writer[p].node)
  /\ UNCHANGED <<onDisk, nodes, replaced, trouble>>

\* The directory is flushed, and the caller told.
Flushed(p) ==
  /\ At(p, "renamed") /\ onDisk' = dir
  /\ replaced' = replaced \union writer[p].before
  /\ writer' = [writer EXCEPT ![p] = [Idle EXCEPT !.counter = writer[p].counter + 1]]
  /\ UNCHANGED <<dir, nodes, trouble>>

\* A step of it fails: what was made is removed, if the file is not replaced already.
Fails(p) ==
  /\ writer[p].at \in {"created", "written", "flushed", "renamed"} /\ Trouble
  /\ dir' = IF At(p, "renamed") THEN dir ELSE Without(dir, Mine(p))
  /\ writer' = [writer EXCEPT ![p] = [Idle EXCEPT !.counter = writer[p].counter + 1]]
  /\ UNCHANGED <<onDisk, nodes, replaced>>

\* A process is killed; another has its number one day.
Killed(p) ==
  /\ ~At(p, "idle") /\ Trouble /\ writer' = [writer EXCEPT ![p] = Idle]
  /\ UNCHANGED <<dir, onDisk, nodes, replaced>>

\* The system writes what it likes, when it likes.
WritesBack ==
  \/ onDisk' = dir /\ UNCHANGED <<dir, nodes, writer, replaced, trouble>>
  \/ /\ \E n \in DOMAIN nodes : nodes[n].whole /\ nodes' = [nodes EXCEPT ![n].flushed = TRUE]
     /\ UNCHANGED <<dir, onDisk, writer, replaced, trouble>>

PowerGoes ==
  /\ Trouble /\ dir' = onDisk /\ writer' = [p \in Writers |-> Idle]
  /\ nodes' = [n \in DOMAIN nodes |-> [nodes[n] EXCEPT !.whole = nodes[n].flushed]]
  /\ UNCHANGED <<onDisk, replaced>>

PrivateInit ==
  /\ dir = [x \in {File} |-> First] /\ onDisk = dir
  /\ nodes = [n \in {First} |-> [whole |-> TRUE, flushed |-> TRUE]]
  /\ writer = [p \in Writers |-> Idle] /\ replaced = {} /\ trouble = 0

Replace(p) == Create(p) \/ Write(p) \/ Sync(p) \/ Rename(p) \/ Flushed(p)
PrivateNext ==
  \/ \E p \in Writers : Replace(p) \/ Fails(p) \/ Killed(p)
  \/ WritesBack \/ PowerGoes

-----------------------------------------------------------------------------
(* Properties.                                                             *)

PrivateTypeOK ==
  /\ DOMAIN nodes = First .. Begun /\ replaced \subseteq DOMAIN nodes
  /\ \A x \in DOMAIN dir : dir[x] \in DOMAIN nodes
  /\ \A p \in Writers : ~At(p, "idle") => writer[p].node \in DOMAIN nodes

\* Whoever reads the file, at any moment and after any crash, reads the whole of one write.
NeverTorn == nodes[dir[File]].whole /\ nodes[onDisk[File]].flushed

\* Once a write is acknowledged, nothing that was there before it began is read again, the
\* power lost or not.
AcknowledgedStays == dir[File] \notin replaced /\ onDisk[File] \notin replaced
=============================================================================
