--------------------------- MODULE SpoolInvariant ---------------------------
(***************************************************************************)
(* Why the spool protocol loses nothing and shows nothing false: the       *)
(* inductive invariant behind NoSpanLost, FinishedIsComplete,              *)
(* NeverStranded, RootEndsLast, GateHonest, FinishedKeepsSpans,            *)
(* FinishedSurvives and the refinement of Capture, for a session whose     *)
(* write drain does not time out (MayWedge = FALSE), a liveness rule that  *)
(* can be believed (BootReliable) and a lock that keeps commits apart.     *)
(***************************************************************************)
EXTENDS Spool

\* No append will ever touch the spool again.
Sealed ==
  append.step = "idle" /\ (~alive \/ (closed /\ pc[Rec] \notin {"idle", "drain"}))

\* p is bringing the capture to its end.
Ending(p) ==
  IF p = Rec THEN pc[p] \notin {"idle", "drain"}
             ELSE job[p].mode = "finalize" \/ pc[p] \in {"aside", "asidepid"}

\* p has assembled a document and may still commit it.
Carries(p, mode) ==
  job[p].mode = mode /\ pc[p] \in {"flush", "commit", "rename"}

\* The recorder: what it does not finish before its drain, it never does; a
\* spool it can still write to has a sidecar beside it, and is the only one.
RecorderInv ==
  /\ ~alive => append.step = "idle"
  /\ pc[Rec] = "drain" => closed
  /\ Exists(spool) \/ append.step \in {"open", "write"} => Sealed \/ sidecar # "absent"
  /\ append.step = "write" => Exists(spool) /\ append.fd = spool.ino
  /\ ~Exists(spool) => spool = NoFile
  /\ spool.size = 0 => ~spool.hdr
  /\ ~Sealed => corrupt = NoFile

\* Whoever finalizes or sets aside does so when no append can come any more;
\* whoever commits is inside the lock, with a document the spool still backs.
PassOf(p) ==
  /\ Ending(p) => Sealed
  /\ pc[p] \in {"rename", "chtimes", "consume", "disown"} => stage[p] = "in"
  /\ pc[p] \in {"consume", "disown"} => job[p].mode = "finalize"
  /\ pc[p] = "rename" => job[p].mode \in {"snapshot", "finalize"} /\ Exists(spool)
  /\ pc[p] = "consume" => json.phase = "finished"
  /\ pc[p] = "aside" /\ Exists(spool) => Refused(spool)
  /\ Carries(p, "snapshot") =>
       /\ job[p].tmp.phase = "live"
       /\ IF Exists(spool) THEN ~Refused(spool) ELSE Sealed
  /\ Carries(p, "finalize") =>
       /\ job[p].tmp.phase = "finished"
       /\ Exists(spool) => ~Refused(spool) /\ job[p].tmp.spans = spool.spans

PassInv == \A p \in Procs : PassOf(p)

\* Where the recorded spans are: in the spool until it goes, which is after the
\* session was sealed; then in the document, or aside.
KeptInv ==
  /\ \/ recorded \subseteq spool.spans
     \/ Sealed /\ ~Exists(spool) /\ (recorded \subseteq corrupt.spans
                                       \/ recorded \subseteq json.spans)
  /\ json.phase = "finished" => Sealed /\ recorded \subseteq json.spans
  /\ json.phase = "live" => Exists(spool) /\ ~Refused(spool)
  /\ json.phase = "none" => json.spans = {}

SpoolInv == RecorderInv /\ PassInv /\ KeptInv
-----------------------------------------------------------------------------
(* What the numbers of the spans and the times of the files say.           *)

\* Spans are written in the order of their numbers, and a spool is as old as
\* the last of them.
OrderInv ==
  /\ clock <= lastEnded /\ lastEnded <= seq
  /\ append.step \in {"stat", "gate", "touch", "open", "write"} => lastEnded = seq
  /\ append.step # "idle" => clock < seq
  /\ spool.mtime <= clock
  /\ \A s \in spool.spans : s <= spool.mtime
  /\ \A s \in recorded : s <= clock

\* A capture that ends at this moment ends no earlier than s, unless s was overtaken.
EndedBy(s, at, n) == InTurn(s, n) => EndOf[s] <= at

\* A finished document ends no earlier than its spans.
EndsLast(d) == d.phase = "finished" => \A s \in d.spans : EndedBy(s, d.ended, seq)

\* A document with these spans and this mtime is older than the spool if it
\* lacks a span of it.
Honest(S, stamp) ==
  Exists(spool) =>
    /\ stamp <= 2 * spool.mtime + 1
    /\ spool.spans \subseteq S \/ stamp < 2 * spool.mtime + 1

\* What a process has read: its document ends last, is not stamped yet, and holds
\* only what was recorded.  Nothing is appended after a finalizer's end of the capture.  A
\* snapshot is stamped honestly, and replaces no document younger than it.
CarriedBy(p) ==
  /\ EndsLast(job[p].tmp) /\ job[p].tmp.spans \subseteq recorded
  /\ job[p].tmp.mtime <= 2 * clock + 2 /\ ~Stamped(job[p].tmp)
  /\ p = Rec /\ pc[p] \notin {"idle", "done", "release", "dead"} => job[p].mode = "finalize"
  /\ job[p].mode = "finalize" =>
       /\ closed \/ Sealed
       /\ \A s \in spool.spans : EndedBy(s, job[p].ended, seq)
       /\ append.step \in {"touch", "open", "write"} => EndedBy(seq, job[p].ended, seq)
  /\ Carries(p, "finalize") /\ pc[p] # "flush" => job[p].tmp.mtime = 2 * clock + 2
  /\ pc[p] = "read" => Exists(spool) \/ Sealed
  /\ pc[p] = "read" /\ job[p].mode = "snapshot" =>
       /\ job[p].before <= 2 * clock + 2
       /\ Exists(spool) => job[p].mtime <= 2 * spool.mtime + 1
  /\ Carries(p, "snapshot") =>
       /\ job[p].before <= 2 * clock + 2
       /\ Honest(job[p].tmp.spans, job[p].mtime)
       /\ Exists(spool) /\ job[p].before = 2 * clock + 2 => spool.spans \subseteq job[p].tmp.spans
  /\ pc[p] = "rename" /\ job[p].mode = "snapshot" => json.mtime = job[p].before
  /\ pc[p] = "chtimes" => /\ job[p].mode = "snapshot" /\ InProgress
                          /\ Honest(json.spans, job[p].mtime)

\* The documents hold only what was recorded; a finished one is as young as the
\* last append, and one in progress is honest if it was stamped.
DocumentsInv ==
  /\ spool.spans \union json.spans \union corrupt.spans \subseteq recorded
  /\ Exists(corrupt) => ~Exists(spool)
  /\ EndsLast(json)
  /\ json.phase = "finished" /\ Exists(spool) => json.spans \subseteq spool.spans
  /\ json.phase = "finished" => json.mtime = 2 * clock + 2
  /\ json.mtime <= 2 * clock + 2
  /\ InProgress /\ Stamped(json) => Honest(json.spans, json.mtime)

TimesInv == OrderInv /\ DocumentsInv /\ \A p \in Procs : CarriedBy(p)

CaptureInv == SpoolInv /\ TimesInv
=============================================================================
