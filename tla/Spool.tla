------------------------------- MODULE Spool --------------------------------
(***************************************************************************)
(* One capture of the spool protocol, as src/go/internal/spool and the     *)
(* recorder session of src/go/internal/tap implement it: its files, the    *)
(* recorder that appends to it, heartbeats and finalizes it, and the other *)
(* slink processes that snapshot, recover and heal it.  Capture paths are  *)
(* unique, so captures never share a file and one stands for all.          *)
(*                                                                         *)
(* Every action is one file-system call, or a check made of several reads, *)
(* or one critical section of the session's mutex: any process may die,    *)
(* and any other may run, between two of them.  The commits run inside     *)
(* CommitLock's critical section.                                          *)
(*                                                                         *)
(* Data is abstracted: a span is its number 1, 2, ... (id s<n>); the spool *)
(* is the set of spans with a parseable line, whether its first parseable  *)
(* line is the skeleton (hdr), the number of writes it took (its size) and *)
(* its inode.  Time is counted in appends: a spool's mtime is the number   *)
(* of its latest append n; the json's is 2n + 1 if it was stamped with the *)
(* spool's, 2n + 2 if it was written after append n, 0 without a json.     *)
(* A call has its number when it is recorded, but its end before that, so  *)
(* calls may end in another order: EndOf gives the moment of each end.     *)
(***************************************************************************)
EXTENDS CommitLock

CONSTANTS
  Rec,           \* the recorder process; the others are slink commands
  MaxSpans,      \* bound: spans the session tries to record
  EndOf,         \* the moment at which the n-th recorded call ended
  MaxFaults,     \* bound: file-system calls that fail (ENOSPC, EIO)
  MaxCrashes,    \* bound: slink commands that die halfway
  MaxAttempts,   \* commit attempts of Session.Finalize (5 in the code)
  MayWedge,      \* can an append last longer than Finalize's write drain (3 s)?
  Heartbeats,    \* the tap daemon has a heartbeat timer, slink record has none
  MaySuspend,    \* can the recorder live on without touching its sidecar?
  BootReliable   \* the boot token works and the recorder is not pid 1

ASSUME RecAssumption == Rec \in Procs
ASSUME BoundsAssumption ==
  /\ MaxSpans \in Nat /\ MaxFaults \in Nat /\ MaxCrashes \in Nat
  /\ MaxAttempts \in Nat \ {0}
ASSUME EndsAssumption == EndOf \in [1 .. MaxSpans -> 1 .. MaxSpans]
ASSUME EnvironmentAssumption ==
  /\ MayWedge \in BOOLEAN /\ Heartbeats \in BOOLEAN
  /\ MaySuspend \in BOOLEAN /\ BootReliable \in BOOLEAN

VARIABLES
  spool, corrupt,  \* <json>.spool and <json>.spool.corrupt
  json,            \* the capture document
  sidecar,         \* <json>.spool.pid: absent, fresh (touched < 3 min ago) or stale
  alive, closed,   \* the recorder process runs; the session's closed flag
  seq, lastEnded,  \* Session.seq; the span whose end is Session.lastEndedAt
  append,          \* the append in flight: its step, payload kind and open file
  beat,            \* a heartbeat is between its check and its touch
  attempts,        \* commit attempts of Session.Finalize so far
  pc, job,         \* the step of each process and what its pass has read
  clock,           \* the latest append that reached a file
  recorded,        \* spans whose Append wrote everything it had to
  wedged,          \* the span whose append outlasted the write drain
  faults, crashes  \* counters of the bounds

files == <<spool, corrupt, json, sidecar>>
session == <<alive, closed, seq, lastEnded, append, beat, attempts>>
history == <<clock, recorded, wedged, faults, crashes>>
vars == <<lockVars, files, session, pc, job, history>>

-----------------------------------------------------------------------------
(* Files                                                                   *)

Spans == 1 .. MaxSpans
Workers == Procs \ {Rec}

\* The moments at which the first n recorded calls have ended, of those that the
\* ends of the calls recorded so far tell apart.
After(n) == {at \in {EndOf[t] : t \in 1 .. seq} : \A s \in 1 .. n : EndOf[s] <= at}

\* ino is the number of the append that created the file, 0 if there is none.
NoFile == [ino |-> 0, size |-> 0, hdr |-> FALSE, spans |-> {}, mtime |-> 0]
NewFile(n) == [NoFile EXCEPT !.ino = n, !.mtime = clock]
Exists(f) == f.ino # 0

NoJson == [phase |-> "none", spans |-> {}, ended |-> 0, mtime |-> 0]
InProgress == json.phase = "live"

\* What Assemble refuses: no skeleton line first, or no span after it.
Refused(f) == ~f.hdr \/ f.spans = {}

\* f after the write of append n: `whole' unless the span's line is torn, `hdr'
\* if the write also holds a whole skeleton line, which counts in a new file
\* only.  Any other write starts on a fresh line, so it ruins nothing before it.
Extended(f, n, whole, hdr) ==
  [f EXCEPT !.size = @ + 1, !.mtime = n,
            !.spans = IF whole THEN @ \union {n} ELSE @,
            !.hdr = IF f.size = 0 THEN hdr ELSE @]

\* The liveness rule, for a sidecar written by this recorder.
OwnerAlive ==
  sidecar # "absent" /\ alive /\ (sidecar = "fresh" \/ BootReliable)

-----------------------------------------------------------------------------
(* Passes of a process: what it is doing and what it has read              *)

NoJob == [mode |-> "none", size |-> 0, mtime |-> 0, before |-> 0, ended |-> 0,
          tmp |-> NoJson, res |-> "none"]

Goto(p, step) == pc' = [pc EXCEPT ![p] = step]

Start(p, mode, ended, step) ==
  /\ Goto(p, step)
  /\ job' = [job EXCEPT ![p] = [NoJob EXCEPT !.mode = mode, !.ended = ended]]

\* Leaving the critical section with a result for the caller of Assemble, and
\* nothing else of the pass.
Conclude(p, res) ==
  /\ Goto(p, "leaving")
  /\ job' = [job EXCEPT ![p] = [NoJob EXCEPT !.mode = job[p].mode, !.ended = job[p].ended,
                                             !.res = res]]

\* A plausible bug: a protective abort treated like a refusal.
ReturnRetryIsCorrupt(p, res) ==
  /\ Goto(p, IF p = Rec THEN (IF res = "ok" THEN "done" ELSE "release")
             ELSE IF res \in {"refused", "retry"} /\ job[p].mode = "finalize"
               THEN "aside" ELSE "idle")
  /\ job' = [job EXCEPT ![p] = NoJob]
  /\ UNCHANGED attempts

\* What the caller of Assemble (or HealStranded) does with the result.  The
\* tap retries a protective abort in-process and releases ownership on any
\* other failure; RecoverDead sets a refused spool aside and leaves a
\* retryable one alone; snapshots and heals are best effort.
Return(p, res) ==
  IF p = Rec
    THEN /\ LET retry == res = "retry" /\ attempts + 1 < MaxAttempts
            IN  /\ Goto(p, IF res = "ok" THEN "done"
                           ELSE IF retry THEN "stat" ELSE "release")
                /\ job' = [job EXCEPT ![p] =
                             IF retry THEN [NoJob EXCEPT !.mode = "finalize",
                                                         !.ended = job[p].ended]
                             ELSE NoJob]
         /\ attempts' = IF res = "retry" THEN attempts + 1 ELSE attempts
    ELSE /\ Goto(p, IF res = "refused" /\ job[p].mode = "finalize"
                      THEN "aside" ELSE "idle")
         /\ job' = [job EXCEPT ![p] = NoJob]
         /\ UNCHANGED attempts

otherThanAttempts == <<alive, closed, seq, lastEnded, append, beat>>

-----------------------------------------------------------------------------
(* Assemble                                                                *)

\* A plausible bug: the mtime to stamp is taken after the stat, not from it.
StatSpoolNow(p) ==
  /\ pc[p] = "stat" /\ Exists(spool)
  /\ job' = [job EXCEPT ![p].size = spool.size,
                        ![p].mtime = 2 * spool.mtime + 2,
                        ![p].before = json.mtime]
  /\ Goto(p, "read")
  /\ UNCHANGED <<lockVars, files, session, history>>

\* os.Stat of the spool and of the json, before the read pass: a finalizer will
\* compare the size, a snapshot the mtimes.
StatSpool(p) ==
  /\ pc[p] = "stat"
  /\ IF Exists(spool)
       THEN /\ job' = IF job[p].mode = "finalize"
                        THEN [job EXCEPT ![p].size = spool.size]
                        ELSE [job EXCEPT ![p].mtime = 2 * spool.mtime + 1,
                                         ![p].before = json.mtime]
            /\ Goto(p, "read")
            /\ UNCHANGED attempts
       ELSE Return(p, "missing")
  /\ UNCHANGED <<lockVars, files, otherThanAttempts, history>>

\* Document assembled from the spool, in the pass's mode.
Assembled(p) ==
  [phase |-> IF job[p].mode = "finalize" THEN "finished" ELSE "live",
   spans |-> spool.spans,
   ended |-> IF job[p].mode = "finalize" THEN job[p].ended ELSE 0,
   mtime |-> 0]

\* The streaming pass over the spool into a private .tmp.
ReadSpool(p) ==
  /\ pc[p] = "read"
  /\ IF Exists(spool) /\ ~Refused(spool)
       THEN /\ job' = [job EXCEPT ![p].tmp = Assembled(p)]
            /\ Goto(p, "flush")
            /\ UNCHANGED attempts
       ELSE Return(p, IF Exists(spool) THEN "refused" ELSE "missing")
  /\ UNCHANGED <<lockVars, files, otherThanAttempts, history>>

\* The .tmp is flushed and closed (its mtime is now) and the lock asked for.
FlushTmp(p) ==
  /\ pc[p] = "flush"
  /\ job' = [job EXCEPT ![p].tmp.mtime = 2 * clock + 2]
  /\ Goto(p, "commit")
  /\ Request(p)
  /\ UNCHANGED <<files, session, history>>

\* ErrLockStuck: snapshots give up quietly, everyone else fails.
LockStuck(p) ==
  /\ pc[p] = "commit"
  /\ GiveUp(p)
  /\ Return(p, "stuck")
  /\ UNCHANGED <<files, otherThanAttempts, history>>

\* The lock file cannot be created, or its token not written: it is removed again.
LockFails(p) ==
  /\ pc[p] = "commit" /\ stage[p] = "wait" /\ faults < MaxFaults
  /\ faults' = faults + 1
  /\ Abandon(p)
  /\ Return(p, "failed")
  /\ UNCHANGED <<files, otherThanAttempts, clock, recorded, wedged, crashes>>

\* Plausible bugs: what was seen before the lock is not seen again under it.
SnapshotUnchecked(p) ==
  /\ pc[p] = "commit" /\ stage[p] = "in" /\ job[p].mode = "snapshot"
  /\ IF Held(p) THEN Goto(p, "rename") /\ UNCHANGED job ELSE Conclude(p, "quiet")
  /\ UNCHANGED <<lockVars, files, session, history>>

SnapshotIgnoresSpool(p) ==
  /\ pc[p] = "commit" /\ stage[p] = "in" /\ job[p].mode = "snapshot"
  /\ IF json.mtime = job[p].before /\ Held(p)
       THEN Goto(p, "rename") /\ UNCHANGED job
       ELSE Conclude(p, "quiet")
  /\ UNCHANGED <<lockVars, files, session, history>>

\* Snapshot mode, under the lock: the spool still exists, the json is the one
\* seen before the read pass, the lock is still held.
SnapshotCheck(p) ==
  /\ pc[p] = "commit" /\ stage[p] = "in" /\ job[p].mode = "snapshot"
  /\ IF Exists(spool) /\ json.mtime = job[p].before /\ Held(p)
       THEN Goto(p, "rename") /\ UNCHANGED job
       ELSE Conclude(p, "quiet")
  /\ UNCHANGED <<lockVars, files, session, history>>

\* Finalize mode, under the lock: the spool has not grown, the lock is held.
FinalizeCheck(p) ==
  /\ pc[p] = "commit" /\ stage[p] = "in" /\ job[p].mode = "finalize"
  /\ IF Exists(spool) /\ spool.size = job[p].size /\ Held(p)
       THEN Goto(p, "rename") /\ UNCHANGED job
       ELSE Conclude(p, "retry")
  /\ UNCHANGED <<lockVars, files, session, history>>

\* The document healed: the root is stamped from the last span.
Healed(last) ==
  [json EXCEPT !.phase = "finished", !.ended = EndOf[last], !.mtime = 2 * clock + 2]

\* HealStranded, under the lock: the json is re-read there; it must be in
\* progress with no spool beside it.
HealCheck(p) ==
  /\ pc[p] = "commit" /\ stage[p] = "in" /\ job[p].mode = "heal"
  /\ IF InProgress /\ ~Exists(spool) /\ Held(p)
       THEN \E last \in json.spans :
              /\ \A s \in json.spans : s <= last
              /\ job' = [job EXCEPT ![p].tmp = Healed(last)]
              /\ Goto(p, "rename")
       ELSE Conclude(p, "quiet")
  /\ UNCHANGED <<lockVars, files, session, history>>

\* os.Rename(tmp, captureJSON): the commit point of all three.
Rename(p) ==
  /\ pc[p] = "rename"
  /\ json' = job[p].tmp
  /\ CASE job[p].mode = "snapshot" -> Goto(p, "chtimes") /\ UNCHANGED job
       [] job[p].mode = "finalize" -> Goto(p, "consume") /\ UNCHANGED job
       [] OTHER -> Conclude(p, "ok")
  /\ UNCHANGED <<lockVars, spool, corrupt, sidecar, session, history>>

\* A plausible bug: the stamp is the spool's mtime by now, not the one before the read.
StampLate(p) ==
  /\ pc[p] = "chtimes"
  /\ json' = [json EXCEPT !.mtime = 2 * spool.mtime + 1]
  /\ Conclude(p, "ok")
  /\ UNCHANGED <<lockVars, spool, corrupt, sidecar, session, history>>

\* os.Chtimes: the snapshot's mtime becomes that of the spool before the read.
StampSnapshot(p) ==
  /\ pc[p] = "chtimes"
  /\ json' = [json EXCEPT !.mtime = job[p].mtime]
  /\ Conclude(p, "ok")
  /\ UNCHANGED <<lockVars, spool, corrupt, sidecar, session, history>>

\* os.Chtimes fails and its error is ignored: the mtime stays that of the writing.
StampFails(p) ==
  /\ pc[p] = "chtimes" /\ faults < MaxFaults
  /\ faults' = faults + 1
  /\ Conclude(p, "ok")
  /\ UNCHANGED <<lockVars, files, session, clock, recorded, wedged, crashes>>

\* The finalizer removes the spool, then the sidecar, by path.
ConsumeSpool(p) ==
  /\ pc[p] = "consume"
  /\ spool' = NoFile
  /\ Goto(p, "disown")
  /\ UNCHANGED <<lockVars, corrupt, json, sidecar, session, job, history>>

RemoveSidecar(p) ==
  /\ pc[p] = "disown"
  /\ sidecar' = "absent"
  /\ Conclude(p, "ok")
  /\ UNCHANGED <<lockVars, spool, corrupt, json, session, history>>

\* A call fails on the way: the .tmp is removed and the error returned, from
\* under the lock if it was held.  A json already renamed stays.
AssembleFails(p) ==
  /\ pc[p] \in {"flush", "rename", "consume", "disown"} /\ faults < MaxFaults
  /\ faults' = faults + 1
  /\ IF pc[p] = "flush" THEN Return(p, "failed")
                        ELSE Conclude(p, "failed") /\ UNCHANGED attempts
  /\ UNCHANGED <<lockVars, files, otherThanAttempts, clock, recorded, wedged, crashes>>

\* withCommitLock returns: at once if the lock was lost, else after removing it.
LeaveLock(p) ==
  /\ pc[p] = "leaving"
  /\ Leave(p)
  /\ IF Held(p) THEN UNCHANGED <<pc, job, attempts>> ELSE Return(p, job[p].res)
  /\ UNCHANGED <<files, otherThanAttempts, history>>

RemoveLock(p) ==
  /\ pc[p] = "leaving"
  /\ Unlink(p)
  /\ Return(p, job[p].res)
  /\ UNCHANGED <<files, otherThanAttempts, history>>

\* The steps of the wait for the lock.
AwaitLock(p) ==
  /\ Acquire(p) \/ SeeOld(p) \/ Break(p)
  /\ UNCHANGED <<files, session, pc, job, history>>

AssembleStep(p) ==
  \/ StatSpool(p) \/ ReadSpool(p) \/ FlushTmp(p) \/ AwaitLock(p) \/ LockStuck(p)
  \/ LockFails(p) \/ SnapshotCheck(p) \/ FinalizeCheck(p) \/ HealCheck(p) \/ Rename(p)
  \/ StampSnapshot(p) \/ StampFails(p) \/ ConsumeSpool(p) \/ RemoveSidecar(p)
  \/ AssembleFails(p) \/ LeaveLock(p) \/ RemoveLock(p)

-----------------------------------------------------------------------------
(* Other slink processes: RecoverDead, ListCaptures, InspectRunFile        *)

\* RecoverDead meets a spool whose owner is not alive: the capture will end at
\* the spool's mtime, when every call written to it had ended.
RecoverDead(w) ==
  /\ pc[w] = "idle" /\ Exists(spool) /\ ~OwnerAlive
  /\ \E at \in After(spool.mtime) : Start(w, "finalize", at, "stat")
  /\ UNCHANGED <<lockVars, files, session, history>>

\* A plausible bug: the refused spool is copied aside and stays in place.
SetAsideCopy(w) ==
  /\ pc[w] = "aside"
  /\ corrupt' = IF Exists(spool) THEN spool ELSE corrupt
  /\ Goto(w, "asidepid")
  /\ UNCHANGED <<lockVars, spool, json, sidecar, session, job, history>>

\* A refused spool goes aside (replacing an earlier one), then its sidecar.
SetAside(w) ==
  /\ pc[w] = "aside"
  /\ IF Exists(spool) THEN corrupt' = spool /\ spool' = NoFile
                      ELSE UNCHANGED <<corrupt, spool>>
  /\ Goto(w, "asidepid")
  /\ UNCHANGED <<lockVars, json, sidecar, session, job, history>>

RemoveSidecarAside(w) ==
  /\ pc[w] = "asidepid"
  /\ sidecar' = "absent"
  /\ Goto(w, "idle")
  /\ UNCHANGED <<lockVars, spool, corrupt, json, session, job, history>>

\* RecoverDead's sweeps: a lock file ten minutes old, and a sidecar nobody
\* touched for an hour beside no spool.  An append that has touched it for its
\* own spool and lasts that long is a wedged one.
SweepLitter ==
  /\ \/ Sweep /\ UNCHANGED sidecar
     \/ /\ sidecar # "absent" /\ ~Exists(spool)
        /\ alive => sidecar = "stale" /\ (append.step \in {"open", "write"} => MayWedge)
        /\ sidecar' = "absent" /\ UNCHANGED lockVars
  /\ UNCHANGED <<spool, corrupt, json, session, pc, job, history>>

\* InspectRunFile snapshots unconditionally, ListCaptures a live capture whose
\* spool is newer than its json.
Snapshot(w) ==
  /\ pc[w] = "idle" /\ Exists(spool)
  /\ Start(w, "snapshot", 0, "stat")
  /\ UNCHANGED <<lockVars, files, session, history>>

\* ListCaptures meets an in-progress json with no spool and no live owner.
HealStranded(w) ==
  /\ pc[w] = "idle" /\ InProgress /\ ~Exists(spool) /\ ~OwnerAlive
  /\ Start(w, "heal", 0, "commit")
  /\ Request(w)
  /\ UNCHANGED <<files, session, history>>

\* A slink command dies at any step; only its files stay.
Crash(w) ==
  /\ crashes < MaxCrashes /\ pc[w] # "idle"
  /\ crashes' = crashes + 1
  /\ Start(w, "none", 0, "idle")
  /\ Abandon(w)
  /\ UNCHANGED <<files, session, clock, recorded, wedged, faults>>

-----------------------------------------------------------------------------
(* The recorder: Session.Record, Heartbeat, Finalize                       *)

NoAppend == [step |-> "idle", lay |-> FALSE, fd |-> 0]
Append(step) == append' = [append EXCEPT !.step = step]

unchangedByAppend == <<lockVars, alive, closed, beat, attempts, pc, job,
                       wedged, crashes>>

\* Under the mutex: not closed, and the next id is taken.  writeSem lets one
\* append run at a time.
Record ==
  /\ alive /\ append.step = "idle" /\ ~closed /\ seq < MaxSpans
  /\ seq' = seq + 1
  /\ Append("ended")
  /\ UNCHANGED <<unchangedByAppend, files, lastEnded, clock, recorded, faults>>

\* A plausible bug: lastEndedAt is set by the first span only.
SetEndedOnce ==
  /\ append.step = "ended"
  /\ lastEnded' = IF lastEnded = 0 THEN seq ELSE lastEnded
  /\ Append("stat")
  /\ UNCHANGED <<unchangedByAppend, files, seq, clock, recorded, faults>>

\* Under the mutex again, before the append: the span's end is the latest.
SetEnded ==
  /\ append.step = "ended"
  /\ lastEnded' = seq
  /\ Append("stat")
  /\ UNCHANGED <<unchangedByAppend, files, seq, clock, recorded, faults>>

\* The spool's size decides whether the skeleton is laid.
AppendStat ==
  /\ append.step = "stat"
  /\ append' = [append EXCEPT !.step = "gate", !.lay = spool.size = 0]
  /\ UNCHANGED <<unchangedByAppend, files, seq, lastEnded, clock, recorded, faults>>

\* The last isClosed gate.
AppendGate ==
  /\ append.step = "gate"
  /\ IF closed THEN append' = NoAppend ELSE Append("touch")
  /\ UNCHANGED <<unchangedByAppend, files, seq, lastEnded, clock, recorded, faults>>

\* A plausible bug: the sidecar is left to the heartbeat.
AppendTouchNothing ==
  /\ append.step = "touch"
  /\ Append("open")
  /\ UNCHANGED <<unchangedByAppend, files, seq, lastEnded, clock, recorded, faults>>

\* The sidecar is touched before the spool is opened.
AppendTouch ==
  /\ append.step = "touch"
  /\ Append("open")
  /\ sidecar' = "fresh"
  /\ UNCHANGED <<unchangedByAppend, spool, corrupt, json, seq, lastEnded, clock,
                 recorded, faults>>

\* os.OpenFile with O_APPEND|O_CREATE: the file behind the path, or a new one.
AppendOpen ==
  /\ append.step = "open"
  /\ spool' = IF Exists(spool) THEN spool ELSE NewFile(seq)
  /\ append' = [append EXCEPT !.step = "write", !.fd = spool'.ino]
  /\ UNCHANGED <<unchangedByAppend, corrupt, json, sidecar, seq, lastEnded, clock,
                 recorded, faults>>

\* The write reaches the open file wherever it is linked now, if it still is.
WriteTo(whole, hdr) ==
  /\ append.step = "write"
  /\ spool' = IF spool.ino = append.fd THEN Extended(spool, seq, whole, hdr) ELSE spool
  /\ corrupt' = IF corrupt.ino = append.fd THEN Extended(corrupt, seq, whole, hdr)
                                          ELSE corrupt
  /\ clock' = seq
  /\ append' = NoAppend
  /\ UNCHANGED <<unchangedByAppend, json, sidecar, seq, lastEnded>>

AppendWrite ==
  /\ WriteTo(TRUE, append.lay)
  /\ recorded' = recorded \union {seq}
  /\ UNCHANGED faults

\* A full disk: the write stops midway, or a call before it fails.  The error
\* is logged and the session goes on.
AppendTorn ==
  /\ faults < MaxFaults
  /\ faults' = faults + 1
  /\ \E hdr \in {FALSE, append.lay} : WriteTo(FALSE, hdr)
  /\ UNCHANGED recorded

AppendFails ==
  /\ append.step \in {"touch", "open", "write"} /\ faults < MaxFaults
  /\ faults' = faults + 1
  /\ append' = NoAppend
  /\ UNCHANGED <<unchangedByAppend, files, seq, lastEnded, clock, recorded>>

\* The heartbeat checks the session under the mutex and touches afterwards.
HeartbeatCheck ==
  /\ Heartbeats /\ alive /\ ~beat /\ seq > 0 /\ ~closed
  /\ beat' = TRUE
  /\ UNCHANGED <<lockVars, files, alive, closed, seq, lastEnded, append, attempts,
                 pc, job, history>>

HeartbeatTouch ==
  /\ beat
  /\ beat' = FALSE
  /\ sidecar' = "fresh"
  /\ UNCHANGED <<lockVars, spool, corrupt, json, alive, closed, seq, lastEnded,
                 append, attempts, pc, job, history>>

\* Session.Finalize: closed, seq and lastEndedAt in one critical section.  With
\* no lastEndedAt yet the capture will end now.
Finalize ==
  /\ alive /\ pc[Rec] = "idle"
  /\ closed' = TRUE
  /\ IF seq = 0 THEN Goto(Rec, "done") /\ UNCHANGED job
     ELSE \E at \in IF lastEnded = 0 THEN After(seq) ELSE {EndOf[lastEnded]} :
            Start(Rec, "finalize", at, "drain")
  /\ UNCHANGED <<lockVars, files, alive, seq, lastEnded, append, beat, attempts,
                 history>>

\* A plausible bug: Finalize does not wait for the write in flight.
DrainNothing ==
  /\ pc[Rec] = "drain"
  /\ Goto(Rec, "stat")
  /\ UNCHANGED <<lockVars, files, session, job, history>>

\* drainWrites: the write in flight ends, or three seconds pass.
Drain ==
  /\ pc[Rec] = "drain"
  /\ \/ append.step = "idle" /\ UNCHANGED wedged
     \/ MayWedge /\ append.step # "idle" /\ wedged' = {seq}
  /\ Goto(Rec, "stat")
  /\ UNCHANGED <<lockVars, files, session, job, clock, recorded, faults, crashes>>

ReleaseOwnership ==
  /\ pc[Rec] = "release"
  /\ sidecar' = "absent"
  /\ Goto(Rec, "done")
  /\ UNCHANGED <<lockVars, spool, corrupt, json, session, job, history>>

\* The recorder dies, or exits after Finalize.
RecorderDies ==
  /\ alive
  /\ alive' = FALSE
  /\ append' = NoAppend /\ beat' = FALSE
  /\ Start(Rec, "none", 0, "dead")
  /\ Abandon(Rec)
  /\ UNCHANGED <<files, closed, seq, lastEnded, attempts, history>>

\* Three minutes without a touch; the age of a dead recorder's sidecar decides
\* nothing.
SidecarAges ==
  /\ MaySuspend /\ alive /\ sidecar = "fresh"
  /\ sidecar' = "stale"
  /\ UNCHANGED <<lockVars, spool, corrupt, json, session, pc, job, history>>

LockAges == Ages /\ UNCHANGED <<files, session, pc, job, history>>

-----------------------------------------------------------------------------
Init ==
  /\ LockInit
  /\ spool = NoFile /\ corrupt = NoFile /\ json = NoJson /\ sidecar = "absent"
  /\ alive = TRUE /\ closed = FALSE /\ seq = 0 /\ lastEnded = 0
  /\ append = NoAppend /\ beat = FALSE /\ attempts = 0
  /\ pc = [p \in Procs |-> "idle"] /\ job = [p \in Procs |-> NoJob]
  /\ clock = 0 /\ recorded = {} /\ wedged = {} /\ faults = 0 /\ crashes = 0

AppendStep ==
  SetEnded \/ AppendStat \/ AppendGate \/ AppendTouch \/ AppendOpen \/ AppendWrite
  \/ AppendTorn \/ AppendFails

RecorderStep ==
  Record \/ AppendStep \/ HeartbeatCheck \/ HeartbeatTouch
  \/ Finalize \/ Drain \/ ReleaseOwnership \/ RecorderDies

WorkerStep(w) ==
  RecoverDead(w) \/ SetAside(w) \/ RemoveSidecarAside(w) \/ Snapshot(w)
  \/ HealStranded(w) \/ Crash(w)

Next ==
  \/ RecorderStep
  \/ \E p \in Procs : AssembleStep(p)
  \/ \E w \in Workers : WorkerStep(w)
  \/ SweepLitter \/ SidecarAges \/ LockAges

Spec == Init /\ [][Next]_vars

-----------------------------------------------------------------------------
(* Correctness                                                             *)

Files == [ino : 0 .. MaxSpans, size : Nat, hdr : BOOLEAN,
          spans : SUBSET Spans, mtime : 0 .. MaxSpans]
Documents == [phase : {"none", "live", "finished"}, spans : SUBSET Spans,
              ended : 0 .. MaxSpans, mtime : 0 .. 2 * MaxSpans + 2]
Steps == {"idle", "drain", "stat", "read", "flush", "commit", "rename", "chtimes",
          "consume", "disown", "leaving", "aside", "asidepid", "release", "done",
          "dead"}
Appends == [step : {"idle", "ended", "stat", "gate", "touch", "open", "write"},
            lay : BOOLEAN, fd : 0 .. MaxSpans]
Jobs == [mode : {"none", "finalize", "snapshot", "heal"}, size : Nat,
         mtime : 0 .. 2 * MaxSpans + 1, before : 0 .. 2 * MaxSpans + 2,
         ended : 0 .. MaxSpans, tmp : Documents,
         res : {"none", "ok", "quiet", "retry", "failed"}]

TypeOK ==
  /\ LockTypeOK
  /\ spool \in Files /\ corrupt \in Files /\ json \in Documents
  /\ sidecar \in {"absent", "fresh", "stale"}
  /\ alive \in BOOLEAN /\ closed \in BOOLEAN /\ beat \in BOOLEAN
  /\ seq \in 0 .. MaxSpans /\ lastEnded \in 0 .. MaxSpans
  /\ append \in Appends
  /\ attempts \in Nat
  /\ pc \in [Procs -> Steps] /\ job \in [Procs -> Jobs]
  /\ clock \in 0 .. MaxSpans /\ recorded \subseteq Spans /\ wedged \subseteq Spans
  /\ faults \in 0 .. MaxFaults /\ crashes \in 0 .. MaxCrashes

\* Every span whose append succeeded is in the spool, in the capture or set
\* aside, at every moment and whoever dies; the one exception is the span whose
\* append was still in the write call when the shutdown stopped waiting for it.
NoSpanLost ==
  recorded \ wedged \subseteq spool.spans \union json.spans \union corrupt.spans

\* A finished capture holds everything recorded for it (but a wedged span): no
\* span stays behind in a file that nothing reads again.
FinishedIsComplete ==
  json.phase = "finished" => recorded \ wedged \subseteq json.spans

\* A capture shown in progress has a spool beside it that can be assembled, so
\* someone can still finish it (in a session whose write drain did not time out).
NeverStranded ==
  InProgress /\ wedged = {} => Exists(spool) /\ ~Refused(spool)

\* Of the first n recorded calls none that was recorded after s ended before it.
InTurn(s, n) == \A t \in s .. n : EndOf[s] <= EndOf[t]

\* The root of a finished capture ends no earlier than any of its spans that no
\* later-recorded call overtook, though Finalize reads lastEndedAt before it
\* drains the append in flight and a process that never saw the session may
\* stamp the end.  (The root ends with the call recorded last, so an overtaken
\* one may end after it.)
RootEndsLast ==
  json.phase = "finished" =>
    \A s \in json.spans \ wedged : InTurn(s, seq) => EndOf[s] <= json.ended

\* Stamped with the mtime its spool had before it was read.
Stamped(d) == d.mtime % 2 = 1

\* The freshness gate of ListCaptures is honest: while a stamped snapshot lacks a
\* span of the spool its mtime is older than the spool's, so that listing again
\* catches up, whoever else snapshots, dies or fails in between.  (A snapshot
\* whose os.Chtimes failed or never came catches up after the next append.)
GateHonest ==
  InProgress /\ Stamped(json) /\ ~(spool.spans \subseteq json.spans)
    => 2 * spool.mtime + 1 > json.mtime

\* Assembling for recovery sets aside only what cannot be assembled: a spool
\* that was refused has not become readable by the time it is renamed.
AsideOnlyRefused ==
  [][corrupt'.ino # corrupt.ino => Refused(corrupt')]_corrupt

\* Once its spool is consumed a finished capture survives whatever comes late:
\* nothing shows it in progress again.
FinishedSurvives ==
  [][json.phase = "finished" /\ (Exists(spool) => Refused(spool))
       => json'.phase = "finished"]_json

\* A finished capture never loses a span to a later commit.
FinishedKeepsSpans ==
  [][json.phase = "finished" => json.spans \subseteq json'.spans]_json

\* The promise: this protocol implements Capture.  The spans kept are those
\* whose append succeeded; the capture is finished when its spool is consumed.
Promise == INSTANCE Capture WITH
  kept <- recorded,
  doc  <- IF json.phase # "none"
            THEN [phase |-> IF Exists(spool) THEN "live" ELSE json.phase,
                  spans |-> json.spans]
          ELSE [phase |-> IF Exists(corrupt) THEN "aside" ELSE "none",
                spans |-> corrupt.spans]
ImplementsCapture == Promise!CaptureSpec

\* Whatever a dead recorder left is settled in the end, provided slink commands
\* go on being run: no spool is left and nothing is shown in progress.
Settled == ~Exists(spool) /\ ~InProgress
EventuallySettled == <>[](alive \/ Settled)

\* Scheduling: a process that is not killed takes its next step; the recorder's
\* appends and Finalize, once begun, go on; every slink list starts with
\* RecoverDead and heals what it finds stranded, and such commands keep coming.
Fairness ==
  /\ WF_vars(LockAges)
  /\ \A p \in Procs : WF_vars(AssembleStep(p))
  /\ WF_vars(AppendStep) /\ WF_vars(Drain) /\ WF_vars(ReleaseOwnership)
  /\ \A w \in Workers : /\ WF_vars(SetAside(w) \/ RemoveSidecarAside(w))
                        /\ SF_vars(RecoverDead(w)) /\ SF_vars(HealStranded(w))

FairSpec == Spec /\ Fairness
=============================================================================
