------------------------------- MODULE Previews -------------------------------
(***************************************************************************)
(* Saved previews of sessions found in an agent's own files                *)
(* (src/crates/slink-local: preview.rs; src/crates/slink/src/view.rs:      *)
(* Source::preview, build_stamp).                                          *)
(*                                                                         *)
(* A preview request stamps the session's files, uses the preview made     *)
(* from that stamp if there is one, and otherwise imports the files, saves *)
(* what came of it under its hash, and notes the stamp.  The agent goes on *)
(* writing meanwhile, other viewers do the same, and the binary may be     *)
(* replaced under a running viewer.  A file's version stands for its size  *)
(* and modification time, version 0 for no file.  A preview is told apart  *)
(* by the versions, and the importer, it was made from.                    *)
(***************************************************************************)
EXTENDS Naturals, FiniteSets

CONSTANTS
  Viewers,
  Files,         \* the files an import of the session reads
  Listed,        \* those it had when the viewer listed it
  MaxVersion,    \* bound: writes of each file
  MaxBuild,      \* bound: builds of the binary
  MaxFaults,     \* bound: damaged previews, unwritten notes and viewers that stop
  NamesItself    \* whether a replaced binary's path still names a file (not on Linux)

\* What the constants must satisfy.
PreviewsAssumption ==
  /\ Listed \subseteq Files /\ NamesItself \in BOOLEAN
  /\ MaxVersion \in Nat \ {0} /\ MaxBuild \in Nat \ {0} /\ MaxFaults \in Nat

VARIABLES
  version,  \* file |-> how often it was written
  build,    \* the binary on disk
  saved,    \* previews stored whole
  note,     \* the record of the session's source: [stamp, preview], in a set of at most one
  op,       \* viewer |-> its request
  running,  \* viewer |-> the build it runs
  served,   \* history: [preview, from, by] of the last answer, in a set of at most one
  faults

vars == <<version, build, saved, note, op, running, served, faults>>

Idle == [at |-> "idle"]
At(v, step) == op[v].at = step
Goes(v, next) == op' = [op EXCEPT ![v] = next]
Fault == faults < MaxFaults /\ faults' = faults + 1

\* What a preview of these versions by this build's importer is stored under.
Preview(b, read) == [importer |-> b, read |-> read]

\* build_stamp: the file at the path of this process's binary; none when it is gone.
BuildStamp(v) == IF build = running[v] \/ NamesItself THEN {build} ELSE {}
FileStamp == [f \in Listed |-> version[f]]

\* source_stamp: none when there is no file, or one or the binary cannot be read.
SourceStamp(v) ==
  IF Listed = {} \/ \E f \in Listed : version[f] = 0 THEN {}
  ELSE {[build |-> b, files |-> FileStamp] : b \in BuildStamp(v)}

-----------------------------------------------------------------------------
\* The files are stamped before anything is read.
Stamp(v) ==
  /\ At(v, "idle")
  /\ Goes(v, [at |-> "stamped", stamp |-> SourceStamp(v), read |-> <<>>, began |-> version])
  /\ UNCHANGED <<version, build, saved, note, running, served, faults>>

Serve(v, preview) ==
  /\ served' = {[preview |-> preview, began |-> op[v].began, by |-> running[v]]}
  /\ Goes(v, Idle)

\* The preview made from exactly this stamp, if it is still what its name says.
Reusable(v) == {n.preview : n \in {m \in note : m.stamp \in op[v].stamp /\ m.preview \in saved}}

Reuse(v) ==
  /\ At(v, "stamped")
  /\ \E p \in Reusable(v) : Serve(v, p)
  /\ UNCHANGED <<version, build, saved, note, running, faults>>

\* Each file is read in its turn, as it then is.
Import(v, f) ==
  /\ (At(v, "stamped") /\ Reusable(v) = {}) \/ At(v, "reads")
  /\ f \notin DOMAIN op[v].read
  /\ LET read == [g \in DOMAIN op[v].read \union {f} |-> IF g = f THEN version[f] ELSE op[v].read[g]]
     IN  Goes(v, [op[v] EXCEPT !.at = "reads", !.read = read])
  /\ UNCHANGED <<version, build, saved, note, running, served, faults>>

\* save_preview: stored again when it is not there as it should be.
SavePreview(v) ==
  /\ At(v, "reads") /\ DOMAIN op[v].read = Files
  /\ saved' = saved \union {Preview(running[v], op[v].read)}
  /\ Goes(v, [op[v] EXCEPT !.at = "saved"])
  /\ UNCHANGED <<version, build, note, running, served, faults>>

\* Mutant: the files are stamped again after the import.
RememberLate(v) ==
  /\ At(v, "saved")
  /\ LET preview == Preview(running[v], op[v].read)
     IN  /\ note' = {[stamp |-> s, preview |-> preview] : s \in SourceStamp(v)}
         /\ Serve(v, preview)
  /\ UNCHANGED <<version, build, saved, running, faults>>

\* The note is replaced, or not, as best it can be; without a stamp there is none.
Remember(v) ==
  /\ At(v, "saved")
  /\ LET preview == Preview(running[v], op[v].read)
     IN  /\ \/ /\ note' = IF op[v].stamp = {} THEN note
                          ELSE {[stamp |-> s, preview |-> preview] : s \in op[v].stamp}
               /\ UNCHANGED faults
            \/ Fault /\ UNCHANGED note
         /\ Serve(v, preview)
  /\ UNCHANGED <<version, build, saved, running>>

-----------------------------------------------------------------------------
\* The agent writes: a listed file exists already.
Write(f) ==
  /\ version[f] < MaxVersion /\ version' = [version EXCEPT ![f] = @ + 1]
  /\ UNCHANGED <<build, saved, note, op, running, served, faults>>

\* The binary is replaced; a viewer started from now on runs the new one.
Upgrade ==
  /\ build < MaxBuild /\ build' = build + 1
  /\ UNCHANGED <<version, saved, note, op, running, served, faults>>

Restart(v) ==
  /\ Fault /\ running' = [running EXCEPT ![v] = build] /\ Goes(v, Idle)
  /\ UNCHANGED <<version, build, saved, note, served>>

Damage ==
  /\ Fault
  /\ \E p \in saved : saved' = saved \ {p}
  /\ UNCHANGED <<version, build, note, op, running, served>>

Init ==
  /\ version = [f \in Files |-> IF f \in Listed THEN 1 ELSE 0]
  /\ build = 1 /\ saved = {} /\ note = {} /\ served = {} /\ faults = 0
  /\ op = [v \in Viewers |-> Idle] /\ running = [v \in Viewers |-> 1]

Next ==
  \/ \E v \in Viewers :
       \/ Stamp(v) \/ Reuse(v) \/ SavePreview(v) \/ Remember(v) \/ Restart(v)
       \/ \E f \in Files : Import(v, f)
  \/ \E f \in Files : Write(f)
  \/ Upgrade \/ Damage

Spec == Init /\ [][Next]_vars

-----------------------------------------------------------------------------
(* Properties.                                                             *)

PreviewsTypeOK ==
  /\ version \in [Files -> 0 .. MaxVersion] /\ build \in 1 .. MaxBuild
  /\ \A p \in saved : p.importer \in 1 .. MaxBuild /\ p.read \in [Files -> 0 .. MaxVersion]
  /\ Cardinality(note) <= 1 /\ Cardinality(served) <= 1
  /\ \A v \in Viewers : op[v].at \in {"idle", "stamped", "reads", "saved"}

\* view.rs: "a file that changes during the import costs another import later, never a
\* stale preview".  A preview served shows every file as it was when it was asked for, or
\* later.
NeverStale == \A x \in served : \A f \in Files : x.preview.read[f] >= x.began[f]

\* view.rs: "a preview an older importer made is not used after the binary changes".
OwnImporter == \A x \in served : x.preview.importer = x.by
=============================================================================
