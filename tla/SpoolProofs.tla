---------------------------- MODULE SpoolProofs -----------------------------
(***************************************************************************)
(* Proofs about the spool protocol for every value of its constants: any   *)
(* number of processes, spans, faults and crashes.  They go in four        *)
(* stages.  The lock file alone: it keeps its types under every assumption *)
(* about time, and keeps commits apart when holders do not stall           *)
(* (MaxStalls = 0) and a breaker is not overtaken (PromptBreak); both      *)
(* conditions are needed, as the run lock_break shows for the second.      *)
(* Then that the protocol uses the lock file only as CommitLock describes, *)
(* so that what is proved of the lock holds of the protocol, and that its  *)
(* variables keep their types.  Then that SpoolInv is invariant, with one  *)
(* lemma per group of actions, and the safety properties that follow.      *)
(* Last TimesInv, which orders spans, appends and file times, and what     *)
(* rests on it: the root ends last, the freshness gate is honest, a        *)
(* finished capture keeps its spans and survives, and the protocol         *)
(* implements the abstract Capture, step by step.                          *)
(***************************************************************************)
EXTENDS SpoolInvariant, TLAPS

-----------------------------------------------------------------------------
(* The lock file.                                                          *)

\* At first nobody has the lock.
LEMMA LockTypedInit == LockInit => LockTypeOK
BY TimingAssumption DEF LockTypeOK, LockInit, Locks, Stages

\* The lock machine stays within its types, for any set of processes.
THEOREM LockTyping == LockSpec => []LockTypeOK
<1> USE TimingAssumption DEF LockTypeOK
<1>1. LockInit => LockTypeOK
  BY LockTypedInit
<1>2. LockTypeOK /\ [LockNext]_lockVars => LockTypeOK'
  <2> SUFFICES ASSUME LockTypeOK, [LockNext]_lockVars
               PROVE  LockTypeOK'
    OBVIOUS
  <2>1. CASE Ages
    <3>1. lock' \in Locks
      BY <2>1 DEF Ages, Locks, NoLock
    <3>2. stalls' \in 0 .. MaxStalls
      BY <2>1 DEF Ages
    <3> QED
      BY <2>1, <3>1, <3>2 DEF Ages
  <2>2. CASE Sweep
    BY <2>2 DEF Sweep, Locks, NoLock
  <2>3. ASSUME NEW p \in Procs, Request(p) \/ SeeOld(p) \/ GiveUp(p) \/ Leave(p) \/ Abandon(p)
        PROVE  LockTypeOK'
    BY <2>3 DEF Request, SeeOld, GiveUp, Leave, Abandon, Stages
  <2>4. ASSUME NEW p \in Procs, Acquire(p)
        PROVE  LockTypeOK'
    BY <2>4 DEF Acquire, Locks, LockBy, Stages
  <2>5. ASSUME NEW p \in Procs, Break(p) \/ Unlink(p)
        PROVE  LockTypeOK'
    BY <2>5 DEF Break, Unlink, Locks, NoLock, Stages
  <2>6. CASE UNCHANGED lockVars
    BY <2>6 DEF lockVars
  <2> QED
    BY <2>1, <2>2, <2>3, <2>4, <2>5, <2>6 DEF LockNext
<1> QED
  BY <1>1, <1>2, PTL DEF LockSpec

-----------------------------------------------------------------------------
\* Whoever is inside holds a young lock.
InsideHolds == \A p \in Procs : Inside(p) => Held(p) /\ ~lock.old

\* While a breaker is about to rename, the lock it saw is still there, old, or
\* another breaker has taken it away.
BreakersSeeOld == \A p \in Procs : stage[p] = "break" => lock = NoLock \/ lock.old

LockInv == LockTypeOK /\ InsideHolds /\ BreakersSeeOld

\* One lock file has one owner.
LEMMA HolderIsOne ==
  ASSUME NEW p, NEW q, Held(p), Held(q)
  PROVE  p = q
BY DEF Held

\* At first nobody is inside.
LEMMA LockInvInit == LockInit => LockInv
BY LockTypedInit DEF LockInit, LockInv, InsideHolds, BreakersSeeOld, Inside

\* Every lock step preserves it, if time is kind.
LEMMA LockInvStep ==
  ASSUME MaxStalls = 0, PromptBreak, LockInv, LockTypeOK', [LockNext]_lockVars
  PROVE  LockInv'
<1> USE DEF LockInv, InsideHolds, BreakersSeeOld, Inside, Held, NoLock, LockTypeOK
<1>1. CASE Ages
  BY <1>1 DEF Ages
<1>2. CASE Sweep
  BY <1>2 DEF Sweep
<1>3. ASSUME NEW p \in Procs, Request(p) \/ SeeOld(p) \/ GiveUp(p) \/ Abandon(p)
      PROVE  LockInv'
  BY <1>3 DEF Request, SeeOld, GiveUp, Abandon
<1>4. ASSUME NEW p \in Procs, Leave(p)
      PROVE  LockInv'
  BY <1>4 DEF Leave
<1>5. ASSUME NEW p \in Procs, Acquire(p)
      PROVE  LockInv'
  BY <1>5 DEF Acquire, LockBy
<1>6. ASSUME NEW p \in Procs, Break(p)
      PROVE  LockInv'
  BY <1>6 DEF Break
<1>7. ASSUME NEW p \in Procs, Unlink(p)
      PROVE  LockInv'
  BY <1>7 DEF Unlink
<1>8. CASE UNCHANGED lockVars
  BY <1>8 DEF lockVars
<1> QED
  BY <1>1, <1>2, <1>3, <1>4, <1>5, <1>6, <1>7, <1>8 DEF LockNext

\* Two that are inside both hold the one lock.
LEMMA LockInvIsMutex == LockInv => CommitMutex
BY HolderIsOne DEF LockInv, InsideHolds, Inside, CommitMutex

\* Commits never overlap: whoever crashes inside the lock and whoever breaks or
\* sweeps a lock file, two processes are never in the critical section at once.
THEOREM LockMutex ==
  ASSUME MaxStalls = 0, PromptBreak
  PROVE  LockSpec => []CommitMutex
<1>1. LockInit => LockInv
  BY LockInvInit
<1>2. LockInv /\ LockTypeOK' /\ [LockNext]_lockVars => LockInv'
  BY LockInvStep
<1> QED
  BY <1>1, <1>2, LockTyping, LockInvIsMutex, PTL DEF LockSpec

-----------------------------------------------------------------------------
(* The protocol's use of it, and its types.                                *)

\* A process of the spool protocol uses the lock file only as withCommitLock
\* does: every step is a step of the lock machine, or leaves the lock alone.
LEMMA LockDiscipline == [Next]_vars => [LockNext]_lockVars
<1> SUFFICES ASSUME [Next]_vars
             PROVE  LockNext \/ UNCHANGED lockVars
  OBVIOUS
<1>1. CASE RecorderStep
  <2>1. CASE Record
    BY <2>1 DEF Record, unchangedByAppend
  <2>2. CASE AppendStep
    BY <2>2 DEF AppendStep, SetEnded, AppendStat, AppendGate, AppendTouch, AppendOpen, AppendWrite,
       AppendTorn, AppendFails, WriteTo, unchangedByAppend
  <2>3. CASE HeartbeatCheck \/ HeartbeatTouch
    BY <2>3 DEF HeartbeatCheck, HeartbeatTouch
  <2>4. CASE Finalize \/ Drain \/ ReleaseOwnership
    BY <2>4 DEF Finalize, Drain, ReleaseOwnership
  <2>5. CASE RecorderDies
    BY <2>5, RecAssumption DEF RecorderDies, LockNext
  <2> QED
    BY <1>1, <2>1, <2>2, <2>3, <2>4, <2>5 DEF RecorderStep
<1>2. ASSUME NEW p \in Procs, AssembleStep(p)
      PROVE  LockNext \/ UNCHANGED lockVars
  <2>1. CASE StatSpool(p) \/ ReadSpool(p)
    BY <2>1 DEF StatSpool, ReadSpool
  <2>2. CASE FlushTmp(p)
    BY <2>2 DEF FlushTmp, LockNext
  <2>3. CASE AwaitLock(p)
    BY <2>3 DEF AwaitLock, LockNext
  <2>4. CASE LockStuck(p) \/ LockFails(p)
    BY <2>4 DEF LockStuck, LockFails, LockNext
  <2>5. CASE SnapshotCheck(p) \/ FinalizeCheck(p) \/ HealCheck(p)
    BY <2>5 DEF SnapshotCheck, FinalizeCheck, HealCheck
  <2>6. CASE \/ Rename(p) \/ StampSnapshot(p) \/ StampFails(p)
             \/ ConsumeSpool(p) \/ RemoveSidecar(p)
    BY <2>6 DEF Rename, StampSnapshot, StampFails, ConsumeSpool, RemoveSidecar
  <2>7. CASE AssembleFails(p)
    BY <2>7 DEF AssembleFails
  <2>8. CASE LeaveLock(p) \/ RemoveLock(p)
    BY <2>8 DEF LeaveLock, RemoveLock, LockNext
  <2> QED
    BY <1>2, <2>1, <2>2, <2>3, <2>4, <2>5, <2>6, <2>7, <2>8 DEF AssembleStep
<1>3. ASSUME NEW w \in Workers, WorkerStep(w)
      PROVE  LockNext \/ UNCHANGED lockVars
  <2>1. CASE RecoverDead(w) \/ SetAside(w) \/ RemoveSidecarAside(w) \/ Snapshot(w)
    BY <2>1 DEF RecoverDead, SetAside, RemoveSidecarAside, Snapshot
  <2>2. CASE HealStranded(w) \/ Crash(w)
    BY <2>2 DEF HealStranded, Crash, LockNext, Workers
  <2> QED
    BY <1>3, <2>1, <2>2 DEF WorkerStep
<1>4. CASE SweepLitter \/ SidecarAges \/ LockAges
  BY <1>4 DEF SweepLitter, SidecarAges, LockAges, LockNext
<1>5. CASE UNCHANGED vars
  BY <1>5 DEF vars
<1> QED
  BY <1>1, <1>2, <1>3, <1>4, <1>5 DEF Next

\* Hence the protocol's runs are runs of the lock, and its theorems apply.
THEOREM SpoolUsesLock == Spec => LockSpec
<1>1. Init => LockInit
  BY DEF Init
<1> QED
  BY <1>1, LockDiscipline, PTL DEF Spec, LockSpec

\* Two commits of one capture never overlap, whichever of recorder, snapshots,
\* recoveries and heals race and whoever of them crashes.
THEOREM SpoolMutex ==
  ASSUME MaxStalls = 0, PromptBreak
  PROVE  Spec => []CommitMutex
BY SpoolUsesLock, LockMutex, PTL
-----------------------------------------------------------------------------
(* Types.  The session numbers its appends from 1: the typing of what an   *)
(* append writes rests on it.                                              *)

AppendNumbered == append.step # "idle" => seq > 0

Typed == TypeOK /\ AppendNumbered

\* The placeholders are of the types they stand in for.
LEMMA NoFileTyped == NoFile \in Files
BY BoundsAssumption DEF NoFile, Files

\* A worker with no job has one of its type.
LEMMA NoJobTyped == NoJob \in Jobs
BY BoundsAssumption DEF NoJob, NoJson, Jobs, Documents

\* So has a recorder with nothing to append.
LEMMA NoAppendTyped == NoAppend \in Appends
BY BoundsAssumption DEF NoAppend, Appends

\* A write leaves a file a file.
LEMMA ExtendedTyped ==
  ASSUME NEW f \in Files, NEW n \in Spans, NEW whole \in BOOLEAN, NEW hdr \in BOOLEAN
  PROVE  Extended(f, n, whole, hdr) \in Files
<1>1. f.size + 1 \in Nat /\ n \in 0 .. MaxSpans
  BY BoundsAssumption DEF Files, Spans
<1>2. f.spans \union {n} \in SUBSET Spans
  BY DEF Files
<1> QED
  BY <1>1, <1>2 DEF Extended, Files

\* The three ways a pass is started, concluded and handed back to its caller.
LEMMA StartTyped ==
  ASSUME TypeOK, NEW p \in Procs, NEW mode \in {"none", "finalize", "snapshot", "heal"},
         NEW ended \in 0 .. MaxSpans, NEW step \in Steps, Start(p, mode, ended, step)
  PROVE  pc' \in [Procs -> Steps] /\ job' \in [Procs -> Jobs]
<1>1. [NoJob EXCEPT !.mode = mode, !.ended = ended] \in Jobs
  BY NoJobTyped DEF Jobs
<1> QED
  BY <1>1 DEF Start, Goto, TypeOK

\* Ends are moments.
LEMMA AfterTyped ==
  ASSUME TypeOK, NEW n, NEW at \in After(n)
  PROVE  at \in 0 .. MaxSpans
BY BoundsAssumption, EndsAssumption DEF After, TypeOK

\* What an assembly concludes with is a result.
LEMMA ConcludeTyped ==
  ASSUME TypeOK, NEW p \in Procs, NEW res \in {"ok", "quiet", "retry", "failed"},
         Conclude(p, res)
  PROVE  pc' \in [Procs -> Steps] /\ job' \in [Procs -> Jobs]
<1>1. [NoJob EXCEPT !.mode = job[p].mode, !.ended = job[p].ended, !.res = res] \in Jobs
  BY NoJobTyped DEF TypeOK, Jobs
<1>2. job' = [job EXCEPT ![p] = [NoJob EXCEPT !.mode = job[p].mode, !.ended = job[p].ended,
                                              !.res = res]]
  BY DEF Conclude
<1> QED
  BY <1>1, <1>2 DEF Conclude, Goto, TypeOK, Steps

\* Who returns from an assembly is where its job says.
LEMMA ReturnTyped ==
  ASSUME TypeOK, NEW p \in Procs, NEW res, Return(p, res)
  PROVE  /\ pc' \in [Procs -> Steps] /\ job' \in [Procs -> Jobs]
         /\ attempts' \in Nat
<1>1. [NoJob EXCEPT !.mode = "finalize", !.ended = job[p].ended] \in Jobs
  BY NoJobTyped DEF Jobs, TypeOK
<1>2. pc' \in [Procs -> Steps]
  BY DEF Return, Goto, TypeOK, Steps
<1>3. job' \in [Procs -> Jobs]
  <2>1. CASE p = Rec
    BY <1>1, <2>1, NoJobTyped DEF Return, TypeOK
  <2>2. CASE p # Rec
    BY <2>2, NoJobTyped DEF Return, TypeOK
  <2> QED
    BY <2>1, <2>2
<1>4. attempts' \in Nat
  BY DEF Return, TypeOK
<1> QED
  BY <1>2, <1>3, <1>4

\* The steps of Assemble keep the types.
LEMMA AssembleTyped ==
  ASSUME Typed, LockTypeOK', NEW p \in Procs, AssembleStep(p)
  PROVE  Typed'
<1> USE DEF Typed, TypeOK, AppendNumbered, otherThanAttempts, files, session, history
<1>1. CASE StatSpool(p)
  <2>1. CASE Exists(spool)
    <3>1. [job[p] EXCEPT !.mtime = 2 * spool.mtime + 1, !.before = json.mtime] \in Jobs
      <4>1. 2 * spool.mtime + 1 \in 0 .. 2 * MaxSpans + 1
        BY BoundsAssumption DEF Files
      <4>2. json.mtime \in 0 .. 2 * MaxSpans + 2
        BY DEF Documents
      <4> QED
        BY ZenonT(60), <4>1, <4>2 DEF Jobs
    <3>2. [job[p] EXCEPT !.size = spool.size] \in Jobs
      BY DEF Files, Jobs
    <3>3. job' \in [Procs -> Jobs]
      <4>1. CASE job[p].mode = "finalize"
        BY <1>1, <2>1, <3>2, <4>1 DEF StatSpool
      <4>2. CASE job[p].mode # "finalize"
        BY <1>1, <2>1, <3>1, <4>2 DEF StatSpool
      <4> QED
        BY <4>1, <4>2
    <3> QED
      BY <1>1, <2>1, <3>3 DEF StatSpool, Goto, Steps
  <2>2. CASE ~Exists(spool)
    BY <1>1, <2>2, ReturnTyped DEF StatSpool
  <2> QED
    BY <2>1, <2>2
<1>2. CASE ReadSpool(p)
  <2>1. CASE Exists(spool) /\ ~Refused(spool)
    <3>1. Assembled(p) \in Documents
      BY BoundsAssumption DEF Assembled, Documents, Files, Jobs
    <3>2. [job[p] EXCEPT !.tmp = Assembled(p)] \in Jobs
      BY <3>1 DEF Jobs
    <3> QED
      BY <1>2, <2>1, <3>2 DEF ReadSpool, Goto, Steps
  <2>2. CASE ~(Exists(spool) /\ ~Refused(spool))
    BY <1>2, <2>2, ReturnTyped DEF ReadSpool
  <2> QED
    BY <2>1, <2>2
<1>3. CASE FlushTmp(p)
  <2>1. [job[p].tmp EXCEPT !.mtime = 2 * clock + 2] \in Documents
    BY BoundsAssumption DEF Jobs, Documents
  <2>2. [job[p] EXCEPT !.tmp = [job[p].tmp EXCEPT !.mtime = 2 * clock + 2]] \in Jobs
    BY <2>1 DEF Jobs
  <2> QED
    BY <1>3, <2>2 DEF FlushTmp, Goto, Steps
<1>4. CASE AwaitLock(p)
  BY <1>4 DEF AwaitLock
<1>5. CASE LockStuck(p) \/ LockFails(p)
  <2>1. CASE LockStuck(p)
    BY <2>1, ReturnTyped DEF LockStuck
  <2>2. CASE LockFails(p)
    <3>1. faults' \in 0 .. MaxFaults
      BY <2>2, BoundsAssumption DEF LockFails
    <3> QED
      BY <2>2, <3>1, ReturnTyped DEF LockFails
  <2> QED
    BY <1>5, <2>1, <2>2
<1>6. CASE SnapshotCheck(p)
  BY <1>6, ConcludeTyped DEF SnapshotCheck, Goto, Steps
<1>7. CASE FinalizeCheck(p)
  BY <1>7, ConcludeTyped DEF FinalizeCheck, Goto, Steps
<1>8. CASE HealCheck(p)
  <2>1. CASE InProgress /\ ~Exists(spool) /\ Held(p)
    <3>1. PICK last \in json.spans : job' = [job EXCEPT ![p].tmp = Healed(last)]
      BY <1>8, <2>1 DEF HealCheck
    <3>2. Healed(last) \in Documents
      <4>1. EndOf[last] \in 0 .. MaxSpans /\ 2 * clock + 2 \in 0 .. 2 * MaxSpans + 2
        BY BoundsAssumption, EndsAssumption DEF Documents, Spans
      <4> QED
        BY <4>1 DEF Documents, Healed
    <3>3. [job[p] EXCEPT !.tmp = Healed(last)] \in Jobs
      BY <3>2 DEF Jobs
    <3> QED
      BY <1>8, <2>1, <3>1, <3>3 DEF HealCheck, Goto, Steps
  <2>2. CASE ~(InProgress /\ ~Exists(spool) /\ Held(p))
    BY <1>8, <2>2, ConcludeTyped DEF HealCheck
  <2> QED
    BY <2>1, <2>2
<1>9. CASE Rename(p)
  <2>1. json' \in Documents
    BY <1>9 DEF Rename, Jobs
  <2>2. pc' \in [Procs -> Steps] /\ job' \in [Procs -> Jobs]
    <3>1. CASE job[p].mode = "snapshot"
      BY <1>9, <3>1 DEF Rename, Goto, Steps
    <3>2. CASE job[p].mode = "finalize"
      BY <1>9, <3>2 DEF Rename, Goto, Steps
    <3>3. CASE job[p].mode # "snapshot" /\ job[p].mode # "finalize"
      <4>1. Conclude(p, "ok")
        BY <1>9, <3>3 DEF Rename
      <4> QED
        BY <4>1, ConcludeTyped
    <3> QED
      BY <3>1, <3>2, <3>3
  <2> QED
    BY <1>9, <2>1, <2>2 DEF Rename
<1>10. CASE StampSnapshot(p)
  <2>1. [json EXCEPT !.mtime = job[p].mtime] \in Documents
    BY BoundsAssumption DEF Documents, Jobs
  <2> QED
    BY <1>10, <2>1, ConcludeTyped DEF StampSnapshot
<1>16. CASE StampFails(p)
  <2>1. faults' \in 0 .. MaxFaults
    BY <1>16, BoundsAssumption DEF StampFails
  <2> QED
    BY <1>16, <2>1, ConcludeTyped DEF StampFails
<1>11. CASE ConsumeSpool(p)
  BY <1>11, NoFileTyped DEF ConsumeSpool, Goto, Steps
<1>12. CASE RemoveSidecar(p)
  BY <1>12, ConcludeTyped DEF RemoveSidecar
<1>13. CASE AssembleFails(p)
  <2>1. faults' \in 0 .. MaxFaults
    BY <1>13, BoundsAssumption DEF AssembleFails
  <2>2. CASE pc[p] = "flush"
    BY <1>13, <2>1, <2>2, ReturnTyped DEF AssembleFails
  <2>3. CASE pc[p] # "flush"
    BY <1>13, <2>1, <2>3, ConcludeTyped DEF AssembleFails
  <2> QED
    BY <2>2, <2>3
<1>14. CASE LeaveLock(p)
  <2>1. CASE Held(p)
    BY <1>14, <2>1 DEF LeaveLock
  <2>2. CASE ~Held(p)
    BY <1>14, <2>2, ReturnTyped DEF LeaveLock
  <2> QED
    BY <2>1, <2>2
<1>15. CASE RemoveLock(p)
  BY <1>15, ReturnTyped DEF RemoveLock
<1> QED
  BY <1>1, <1>2, <1>3, <1>4, <1>5, <1>6, <1>7, <1>8, <1>9, <1>10, <1>11, <1>12, <1>13,
     <1>14, <1>15, <1>16 DEF AssembleStep

\* The steps of the other commands keep the types.
LEMMA WorkerTyped ==
  ASSUME Typed, LockTypeOK', NEW w \in Workers, WorkerStep(w)
  PROVE  Typed'
<1> USE DEF Typed, TypeOK, AppendNumbered, files, session, history
<1>0. w \in Procs
  BY DEF Workers
<1>1. CASE RecoverDead(w)
  <2>1. PICK at \in After(spool.mtime) : Start(w, "finalize", at, "stat")
    BY <1>1 DEF RecoverDead
  <2>3. at \in 0 .. MaxSpans /\ "stat" \in Steps
    BY AfterTyped DEF Steps
  <2>2. pc' \in [Procs -> Steps] /\ job' \in [Procs -> Jobs]
    BY <1>0, <2>1, <2>3, StartTyped
  <2> QED
    BY <1>1, <2>2 DEF RecoverDead
<1>2. CASE SetAside(w)
  BY <1>0, <1>2, NoFileTyped DEF SetAside, Goto, Steps
<1>3. CASE RemoveSidecarAside(w)
  BY <1>0, <1>3 DEF RemoveSidecarAside, Goto, Steps
<1>4. CASE Snapshot(w)
  <2>1. 0 \in 0 .. MaxSpans /\ "stat" \in Steps
    BY BoundsAssumption DEF Steps
  <2>2. pc' \in [Procs -> Steps] /\ job' \in [Procs -> Jobs]
    BY <1>0, <1>4, <2>1, StartTyped DEF Snapshot
  <2> QED
    BY <1>4, <2>2 DEF Snapshot
<1>5. CASE HealStranded(w)
  <2>1. 0 \in 0 .. MaxSpans /\ "commit" \in Steps
    BY BoundsAssumption DEF Steps
  <2>2. pc' \in [Procs -> Steps] /\ job' \in [Procs -> Jobs]
    BY <1>0, <1>5, <2>1, StartTyped DEF HealStranded
  <2> QED
    BY <1>5, <2>2 DEF HealStranded
<1>6. CASE Crash(w)
  <2>1. 0 \in 0 .. MaxSpans /\ "idle" \in Steps
    BY BoundsAssumption DEF Steps
  <2>2. pc' \in [Procs -> Steps] /\ job' \in [Procs -> Jobs]
    BY <1>0, <1>6, <2>1, StartTyped DEF Crash
  <2>3. crashes' \in 0 .. MaxCrashes
    BY <1>6, BoundsAssumption DEF Crash
  <2> QED
    BY <1>6, <2>2, <2>3 DEF Crash
<1> QED
  BY <1>1, <1>2, <1>3, <1>4, <1>5, <1>6 DEF WorkerStep

\* The steps of an append keep the types.
LEMMA AppendTyped ==
  ASSUME Typed, LockTypeOK', AppendStep
  PROVE  Typed'
<1> USE DEF Typed, TypeOK, AppendNumbered, files, unchangedByAppend
<1>1. CASE SetEnded
  BY <1>1 DEF SetEnded, Append, Appends
<1>2. CASE AppendStat
  BY <1>2 DEF AppendStat, Appends
<1>3. CASE AppendGate
  <2>1. append' \in Appends
    <3>1. [append EXCEPT !.step = "touch"] \in Appends
      BY DEF Appends
    <3> QED
      BY <1>3, <3>1, NoAppendTyped DEF AppendGate, Append
  <2>2. append'.step # "idle" => seq > 0
    BY <1>3 DEF AppendGate, NoAppend
  <2> QED
    BY <1>3, <2>1, <2>2 DEF AppendGate
<1>9. CASE AppendTouch
  BY <1>9 DEF AppendTouch, Append, Appends
<1>4. CASE AppendOpen
  <2>1. NewFile(seq) \in Files
    BY <1>4, NoFileTyped DEF NewFile, Files
  <2>2. spool' \in Files
    BY <1>4, <2>1 DEF AppendOpen
  <2>3. spool'.ino \in 0 .. MaxSpans
    BY <2>2 DEF Files
  <2> QED
    BY <1>4, <2>2, <2>3 DEF AppendOpen, Appends
<1>5. ASSUME NEW whole \in BOOLEAN, NEW hdr \in BOOLEAN, WriteTo(whole, hdr)
      PROVE  /\ spool' \in Files /\ corrupt' \in Files /\ clock' \in 0 .. MaxSpans
             /\ append' \in Appends
             /\ append'.step = "idle" /\ seq \in Spans
  <2>1. seq \in Spans
    BY <1>5 DEF WriteTo, Spans
  <2>2. Extended(spool, seq, whole, hdr) \in Files /\ Extended(corrupt, seq, whole, hdr) \in Files
    BY <2>1, ExtendedTyped
  <2> QED
    BY <1>5, <2>1, <2>2, NoAppendTyped, BoundsAssumption DEF WriteTo, NoAppend
<1>6. CASE AppendWrite
  <2>1. append.lay \in BOOLEAN
    BY DEF Appends
  <2>2. recorded' \subseteq Spans
    BY <1>5, <1>6, <2>1 DEF AppendWrite
  <2> QED
    BY <1>5, <1>6, <2>1, <2>2 DEF AppendWrite, WriteTo
<1>7. CASE AppendTorn
  <2>1. PICK hdr \in {FALSE, append.lay} : WriteTo(FALSE, hdr)
    BY <1>7 DEF AppendTorn
  <2>2. hdr \in BOOLEAN
    BY DEF Appends
  <2>3. faults' \in 0 .. MaxFaults
    BY <1>7, BoundsAssumption DEF AppendTorn
  <2> QED
    BY <1>5, <1>7, <2>1, <2>2, <2>3 DEF AppendTorn, WriteTo
<1>8. CASE AppendFails
  BY <1>8, NoAppendTyped, BoundsAssumption DEF AppendFails, NoAppend
<1> QED
  BY <1>1, <1>2, <1>3, <1>4, <1>6, <1>7, <1>8, <1>9 DEF AppendStep

\* The recorder's other steps keep the types.
LEMMA RecorderTyped ==
  ASSUME Typed, LockTypeOK',
         \/ Record \/ HeartbeatCheck \/ HeartbeatTouch \/ Finalize \/ Drain
         \/ ReleaseOwnership \/ RecorderDies
  PROVE  Typed'
<1> USE RecAssumption DEF Typed, TypeOK, AppendNumbered, files, history
<1>1. CASE Record
  BY <1>1, BoundsAssumption DEF Record, Append, Appends, unchangedByAppend
<1>2. CASE HeartbeatCheck \/ HeartbeatTouch
  BY <1>2 DEF HeartbeatCheck, HeartbeatTouch
<1>3. CASE Finalize
  <2>1. CASE seq = 0
    BY <1>3, <2>1 DEF Finalize, Goto, Steps
  <2>2. CASE seq # 0
    <3>1. PICK at \in IF lastEnded = 0 THEN After(seq) ELSE {EndOf[lastEnded]} :
            Start(Rec, "finalize", at, "drain")
      BY <1>3, <2>2 DEF Finalize
    <3>3. at \in 0 .. MaxSpans /\ "drain" \in Steps
      BY AfterTyped, BoundsAssumption, EndsAssumption DEF Steps
    <3>2. pc' \in [Procs -> Steps] /\ job' \in [Procs -> Jobs]
      BY <3>1, <3>3, StartTyped
    <3> QED
      BY <1>3, <3>2 DEF Finalize
  <2> QED
    BY <2>1, <2>2
<1>4. CASE Drain
  <2>1. seq > 0 => {seq} \subseteq Spans
    BY BoundsAssumption DEF Spans
  <2> QED
    BY <1>4, <2>1 DEF Drain, Goto, Steps, session
<1>5. CASE ReleaseOwnership
  BY <1>5 DEF ReleaseOwnership, Goto, Steps, session
<1>6. CASE RecorderDies
  <2>1. 0 \in 0 .. MaxSpans /\ "dead" \in Steps
    BY BoundsAssumption DEF Steps
  <2>2. pc' \in [Procs -> Steps] /\ job' \in [Procs -> Jobs]
    BY <1>6, <2>1, StartTyped DEF RecorderDies
  <2> QED
    BY <1>6, <2>2, NoAppendTyped DEF RecorderDies, NoAppend
<1> QED
  BY <1>1, <1>2, <1>3, <1>4, <1>5, <1>6

\* At first there is no file.
LEMMA TypedInit == Init => Typed
<1> SUFFICES ASSUME Init
             PROVE  Typed
  OBVIOUS
<1>1. LockTypeOK
  BY LockTypedInit DEF Init
<1>2. json \in Documents
  BY BoundsAssumption DEF Init, NoJson, Documents
<1>3. pc \in [Procs -> Steps] /\ job \in [Procs -> Jobs]
  BY NoJobTyped DEF Init, Steps
<1>4. append \in Appends /\ append.step = "idle"
  BY NoAppendTyped DEF Init, NoAppend
<1>5. spool \in Files /\ corrupt \in Files
  BY NoFileTyped DEF Init
<1>6. /\ seq \in 0 .. MaxSpans /\ lastEnded \in 0 .. MaxSpans /\ clock \in 0 .. MaxSpans
      /\ attempts \in Nat /\ faults \in 0 .. MaxFaults /\ crashes \in 0 .. MaxCrashes
  BY BoundsAssumption DEF Init
<1>7. /\ alive \in BOOLEAN /\ closed \in BOOLEAN /\ beat \in BOOLEAN
      /\ sidecar \in {"absent", "fresh", "stale"}
      /\ recorded \subseteq Spans /\ wedged \subseteq Spans
  BY DEF Init
<1> QED
  BY <1>1, <1>2, <1>3, <1>4, <1>5, <1>6, <1>7 DEF Typed, TypeOK, AppendNumbered

\* Every step of the recorder and of the workers keeps the types.
LEMMA TypedStep == Typed /\ LockTypeOK' /\ [Next]_vars => Typed'
<1> SUFFICES ASSUME Typed, LockTypeOK', [Next]_vars
             PROVE  Typed'
  OBVIOUS
<1>1. CASE SweepLitter \/ SidecarAges \/ LockAges
  BY <1>1 DEF SweepLitter, SidecarAges, LockAges, Typed, TypeOK, AppendNumbered, files,
     session, history
<1>2. CASE UNCHANGED vars
  BY <1>2 DEF vars, Typed, TypeOK, AppendNumbered, files, session, history
<1> QED
  BY <1>1, <1>2, AssembleTyped, WorkerTyped, AppendTyped, RecorderTyped
     DEF Next, RecorderStep

\* Type correctness of the whole protocol, for any number of commands and spans.
THEOREM SpoolTyping == Spec => []TypeOK
<1>1. Spec => []LockTypeOK
  BY SpoolUsesLock, LockTyping, PTL
<1>2. Typed => TypeOK
  BY DEF Typed
<1> QED
  BY <1>1, <1>2, TypedInit, TypedStep, PTL DEF Spec

-----------------------------------------------------------------------------
(* Nothing recorded is lost.                                               *)

\* Where the theorems of this module hold.
Kind == ~MayWedge /\ BootReliable /\ MaxStalls = 0 /\ PromptBreak

\* What the types say of the variables, as the steps below use it.
LEMMA Shape ==
  ASSUME TypeOK
  PROVE  /\ spool \in Files /\ corrupt \in Files /\ json \in Documents
         /\ append \in Appends /\ alive \in BOOLEAN /\ closed \in BOOLEAN
         /\ pc \in [Procs -> Steps] /\ job \in [Procs -> Jobs]
         /\ stage \in [Procs -> Stages] /\ seq \in 0 .. MaxSpans
         /\ recorded \subseteq Spans
BY DEF TypeOK, LockTypeOK

\* A process only moves itself.
Alone(p) ==
  \A q \in Procs \ {p} : pc'[q] = pc[q] /\ job'[q] = job[q] /\ stage'[q] = stage[q]

\* What a step of another process must respect for PassOf(q) to stay true.
LEMMA PassOfOther ==
  ASSUME NEW q \in Procs, PassOf(q), Sealed => Sealed',
         pc'[q] = pc[q], job'[q] = job[q], stage'[q] = stage[q],
         pc[q] = "consume" => json'.phase = json.phase,
         \/ spool' = spool
         \/ Sealed /\ spool' = NoFile /\ pc[q] # "rename"
         \/ ~Sealed /\ ~Exists(spool)
         \/ ~Sealed /\ Exists(spool) /\ Exists(spool') /\ (~Refused(spool) => ~Refused(spool'))
  PROVE  PassOf(q)'
<1>1. Carries(q, "snapshot")' <=> Carries(q, "snapshot")
  BY DEF Carries
<1>2. Carries(q, "finalize")' <=> Carries(q, "finalize")
  BY DEF Carries
<1>3. Ending(q)' <=> Ending(q)
  BY DEF Ending
<1>4. Carries(q, "finalize") => Ending(q)
  BY DEF Carries, Ending
<1>5. ~Exists(NoFile)
  BY DEF Exists, NoFile
<1>6. CASE spool' = spool
  BY <1>1, <1>2, <1>3, <1>6 DEF PassOf, Exists, Refused
<1>7. CASE Sealed /\ spool' = NoFile /\ pc[q] # "rename"
  BY <1>1, <1>2, <1>3, <1>5, <1>7 DEF PassOf, Exists, Refused
<1>8. CASE ~Sealed /\ ~Exists(spool)
  BY <1>1, <1>2, <1>3, <1>4, <1>8 DEF PassOf, Ending
<1>9. CASE ~Sealed /\ Exists(spool) /\ Exists(spool') /\ (~Refused(spool) => ~Refused(spool'))
  BY <1>1, <1>2, <1>3, <1>4, <1>9 DEF PassOf, Ending, Exists, Refused
<1> QED
  BY <1>6, <1>7, <1>8, <1>9

\* A step that only moves p, and removes a sidecar only when sealed, preserves
\* the invariant if it preserves p's part of it.
LEMMA QuietStep ==
  ASSUME SpoolInv, NEW p \in Procs, Alone(p), PassOf(p)', Sealed => Sealed',
         UNCHANGED <<spool, corrupt, json, recorded, append, alive, closed>>,
         \/ sidecar' # "absent" \/ sidecar' = sidecar \/ Sealed
         \/ ~Exists(spool) /\ append.step \notin {"open", "write"},
         pc'[Rec] = "drain" => closed
  PROVE  SpoolInv'
<1> USE DEF SpoolInv
<1>1. RecorderInv'
  BY DEF RecorderInv, Exists
<1>2. PassInv'
  BY PassOfOther DEF PassInv, Alone
<1>3. KeptInv'
  BY DEF KeptInv, Exists, Refused
<1> QED
  BY <1>1, <1>2, <1>3

\* The lock's steps move one process.
LEMMA LockAlone ==
  ASSUME TypeOK, NEW p \in Procs, NEW q \in Procs, q # p,
         \/ Request(p) \/ Acquire(p) \/ SeeOld(p) \/ Break(p) \/ GiveUp(p)
         \/ Leave(p) \/ Unlink(p) \/ Abandon(p) \/ UNCHANGED lockVars
  PROVE  stage'[q] = stage[q]
BY Shape DEF Request, Acquire, SeeOld, Break, GiveUp, Leave, Unlink, Abandon, lockVars

\* The three ends of a pass move one process and carry nothing on.
LEMMA GotoEffect ==
  ASSUME TypeOK, NEW p \in Procs, NEW step, Goto(p, step)
  PROVE  pc'[p] = step /\ \A q \in Procs \ {p} : pc'[q] = pc[q]
BY Shape DEF Goto

\* Who starts an assembly changes only its own place.
LEMMA StartEffect ==
  ASSUME TypeOK, NEW p \in Procs, NEW mode, NEW ended, NEW step, Start(p, mode, ended, step)
  PROVE  /\ pc'[p] = step /\ job'[p].mode = mode
         /\ \A q \in Procs \ {p} : pc'[q] = pc[q] /\ job'[q] = job[q]
<1>1. NoJob \in Jobs
  BY NoJobTyped
<1>2. job'[p] = [NoJob EXCEPT !.mode = mode, !.ended = ended]
  BY Shape DEF Start
<1> QED
  BY <1>1, <1>2, Shape, GotoEffect DEF Start, Jobs

\* Who concludes one, its own place and what it returns.
LEMMA ConcludeEffect ==
  ASSUME TypeOK, NEW p \in Procs, NEW res, Conclude(p, res)
  PROVE  /\ pc'[p] = "leaving" /\ job'[p].mode = job[p].mode
         /\ job'[p].ended = job[p].ended /\ job'[p].tmp = NoJson
         /\ \A q \in Procs \ {p} : pc'[q] = pc[q] /\ job'[q] = job[q]
<1>1. job'[p] = [NoJob EXCEPT !.mode = job[p].mode, !.ended = job[p].ended, !.res = res]
  BY Shape DEF Conclude
<1>2. NoJob \in Jobs /\ NoJob.tmp = NoJson
  BY NoJobTyped DEF NoJob
<1> QED
  BY <1>1, <1>2, Shape, GotoEffect DEF Conclude, Jobs

\* Who returns, its own place and what its caller does next.
LEMMA ReturnEffect ==
  ASSUME TypeOK, NEW p \in Procs, NEW res, Return(p, res)
  PROVE  /\ p = Rec => pc'[p] \in {"done", "stat", "release"}
         /\ p # Rec => /\ pc'[p] = "idle" \/ (/\ pc'[p] = "aside" /\ res = "refused"
                                              /\ job[p].mode = "finalize")
                       /\ job'[p].mode = "none"
         /\ \A q \in Procs \ {p} : pc'[q] = pc[q] /\ job'[q] = job[q]
<1>1. NoJob.mode = "none"
  BY DEF NoJob
<1>2. CASE p = Rec
  BY <1>2, Shape DEF Return, Goto
<1>3. CASE p # Rec
  BY <1>1, <1>3, Shape DEF Return, Goto
<1> QED
  BY <1>2, <1>3

\* A session stays sealed while its recorder goes on with its Finalize.
LEMMA SealedKept ==
  ASSUME UNCHANGED <<append, alive, closed>>,
         pc'[Rec] = pc[Rec] \/ pc'[Rec] \notin {"idle", "drain"}
  PROVE  Sealed => Sealed'
BY DEF Sealed

\* The files and the session a pass leaves alone while it reads, checks and waits.
Untouched == UNCHANGED <<spool, corrupt, json, recorded, append, alive, closed>>
OnlyStage(p) == \A q \in Procs \ {p} : stage'[q] = stage[q]

\* A pass that has begun is concluded, or returns, as the invariant wants it.
LEMMA ConcludeSafe ==
  ASSUME TypeOK, SpoolInv, NEW p \in Procs, NEW res, Conclude(p, res),
         pc[p] \notin {"idle", "drain"}, Untouched, OnlyStage(p),
         sidecar' = sidecar \/ Sealed
  PROVE  SpoolInv'
<1> USE DEF Untouched
<1>1. pc'[p] = "leaving" /\ job'[p].mode = job[p].mode /\ Alone(p)
  BY ConcludeEffect DEF Alone, OnlyStage
<1>2. Sealed => Sealed'
  BY <1>1, SealedKept, RecAssumption DEF Alone
<1>3. Ending(p)' => Ending(p)
  BY <1>1 DEF Ending
<1>4. PassOf(p)
  BY DEF SpoolInv, PassInv
<1>5. PassOf(p)'
  BY <1>1, <1>2, <1>3, <1>4 DEF PassOf, Carries
<1>6. pc'[Rec] = "drain" => closed
  BY <1>1, RecAssumption DEF Alone, SpoolInv, RecorderInv
<1> QED
  BY <1>1, <1>2, <1>5, <1>6, QuietStep

\* Returning from an assembly keeps the invariant.
LEMMA ReturnSafe ==
  ASSUME TypeOK, SpoolInv, NEW p \in Procs, NEW res, Return(p, res),
         pc[p] \notin {"idle", "drain"}, Untouched, OnlyStage(p),
         sidecar' = sidecar, res = "refused" => Refused(spool)
  PROVE  SpoolInv'
<1> USE DEF Untouched
<1>1. Alone(p)
  BY ReturnEffect DEF Alone, OnlyStage
<1>2. \/ pc'[p] \in {"done", "stat", "release", "idle"}
      \/ pc'[p] = "aside" /\ Refused(spool)
  BY ReturnEffect
<1>3. Sealed => Sealed'
  BY <1>1, ReturnEffect, SealedKept, RecAssumption DEF Alone
<1>4. Ending(p)' => Ending(p)
  BY ReturnEffect DEF Ending
<1>5. PassOf(p)
  BY DEF SpoolInv, PassInv
<1>6. PassOf(p)'
  BY <1>2, <1>3, <1>4, <1>5 DEF PassOf, Carries, Refused
<1>7. pc'[Rec] = "drain" => closed
  BY <1>1, <1>2, RecAssumption DEF Alone, SpoolInv, RecorderInv
<1> QED
  BY <1>1, <1>3, <1>6, <1>7, QuietStep

\* A step of a pass that has begun, to another step of it.
LEMMA PassSafe ==
  ASSUME TypeOK, SpoolInv, NEW p \in Procs, Alone(p), PassOf(p)', Untouched,
         pc[p] \notin {"idle", "drain"}, pc'[p] \notin {"idle", "drain"}, sidecar' = sidecar
  PROVE  SpoolInv'
<1> USE DEF Untouched
<1>1. Sealed => Sealed'
  BY SealedKept, RecAssumption DEF Alone
<1>2. pc'[Rec] = "drain" => closed
  BY RecAssumption DEF Alone, SpoolInv, RecorderInv
<1> QED
  BY <1>1, <1>2, QuietStep

-----------------------------------------------------------------------------
\* Reading the spool and checking under the lock preserve the invariant.
LEMMA ReadingSafe ==
  ASSUME Typed, SpoolInv, NEW p \in Procs,
         \/ StatSpool(p) \/ ReadSpool(p) \/ FlushTmp(p) \/ LockStuck(p) \/ LockFails(p)
             \/ AwaitLock(p)
         \/ SnapshotCheck(p) \/ FinalizeCheck(p) \/ HealCheck(p)
  PROVE  SpoolInv'
<1> USE DEF files, session, history, otherThanAttempts, Untouched
<1>0. TypeOK /\ PassOf(p)
  BY DEF Typed, SpoolInv, PassInv
<1>1. CASE StatSpool(p)
  <2>0. OnlyStage(p)
    BY <1>1 DEF StatSpool, OnlyStage, lockVars
  <2>1. CASE Exists(spool)
    <3>1. pc'[p] = "read" /\ job'[p].mode = job[p].mode /\ Alone(p)
      BY <1>0, <1>1, <2>0, <2>1, Shape, GotoEffect DEF StatSpool, Alone, OnlyStage, Jobs
    <3>2. PassOf(p)'
      BY <1>0, <1>1, <3>1, SealedKept, RecAssumption
         DEF PassOf, Ending, Carries, StatSpool, Alone
    <3> QED
      BY <1>0, <1>1, <2>1, <3>1, <3>2, PassSafe DEF StatSpool
  <2>2. CASE ~Exists(spool)
    BY <1>0, <1>1, <2>0, <2>2, ReturnSafe DEF StatSpool
  <2> QED
    BY <2>1, <2>2
<1>2. CASE ReadSpool(p)
  <2>0. OnlyStage(p)
    BY <1>2 DEF ReadSpool, OnlyStage, lockVars
  <2>1. CASE Exists(spool) /\ ~Refused(spool)
    <3>1. pc'[p] = "flush" /\ job'[p].mode = job[p].mode /\ Alone(p)
      BY <1>0, <1>2, <2>0, <2>1, Shape, GotoEffect DEF ReadSpool, Alone, OnlyStage, Jobs
    <3>2. job'[p].tmp = Assembled(p)
      BY <1>0, <1>2, <2>1, Shape DEF ReadSpool, Jobs
    <3>3. Sealed => Sealed'
      BY <1>2, <3>1, SealedKept, RecAssumption DEF ReadSpool, Alone
    <3>4. Ending(p)' => Ending(p)
      BY <1>2, <3>1 DEF Ending, ReadSpool
    <3>5. PassOf(p)'
      BY <1>0, <1>2, <2>1, <3>1, <3>2, <3>3, <3>4
         DEF PassOf, Carries, ReadSpool, Assembled, Exists, Refused
    <3> QED
      BY <1>0, <1>2, <2>1, <3>1, <3>5, PassSafe DEF ReadSpool
  <2>2. CASE ~(Exists(spool) /\ ~Refused(spool))
    BY <1>0, <1>2, <2>0, <2>2, ReturnSafe DEF ReadSpool
  <2> QED
    BY <2>1, <2>2
<1>3. CASE FlushTmp(p)
  <2>1. pc'[p] = "commit" /\ Alone(p)
    BY <1>0, <1>3, Shape, GotoEffect, LockAlone DEF FlushTmp, Alone
  <2>2. /\ job'[p].mode = job[p].mode /\ job'[p].tmp.phase = job[p].tmp.phase
        /\ job'[p].tmp.spans = job[p].tmp.spans
    <3>1. job'[p] = [job[p] EXCEPT !.tmp = [job[p].tmp EXCEPT !.mtime = 2 * clock + 2]]
      BY <1>0, <1>3, Shape DEF FlushTmp
    <3>2. job[p] \in Jobs /\ job[p].tmp \in Documents
      BY <1>0, Shape DEF Jobs
    <3> QED
      BY <3>1, <3>2 DEF Jobs, Documents
  <2>3. Sealed => Sealed'
    BY <1>3, <2>1, SealedKept, RecAssumption DEF FlushTmp, Alone
  <2>4. Ending(p)' => Ending(p)
    BY <1>3, <2>1, <2>2 DEF Ending, FlushTmp
  <2>5. PassOf(p)'
    BY <1>0, <1>3, <2>1, <2>2, <2>3, <2>4
       DEF PassOf, Carries, FlushTmp, Exists, Refused
  <2> QED
    BY <1>0, <1>3, <2>1, <2>5, PassSafe DEF FlushTmp
<1>4. CASE LockStuck(p) \/ LockFails(p)
  BY <1>0, <1>4, LockAlone, ReturnSafe DEF LockStuck, LockFails, OnlyStage
<1>5. CASE AwaitLock(p)
  <2>1. Alone(p) /\ pc' = pc /\ job' = job
    BY <1>0, <1>5, LockAlone DEF AwaitLock, Alone
  <2>2. stage[p] # "in"
    BY <1>5 DEF AwaitLock, Acquire, SeeOld, Break
  <2>3. Sealed => Sealed'
    BY <1>5, SealedKept DEF AwaitLock
  <2>4. PassOf(p)'
    BY <1>0, <1>5, <2>1, <2>2, <2>3
       DEF PassOf, Carries, Ending, AwaitLock, Exists, Refused
  <2> QED
    BY <1>5, <2>1, <2>3, <2>4, QuietStep DEF AwaitLock, SpoolInv, RecorderInv
<1>6. CASE SnapshotCheck(p)
  <2>0. OnlyStage(p)
    BY <1>6 DEF SnapshotCheck, OnlyStage, lockVars
  <2>1. CASE Exists(spool) /\ json.mtime = job[p].before /\ Held(p)
    <3>1. pc'[p] = "rename" /\ job' = job /\ Alone(p) /\ stage' = stage
      BY <1>0, <1>6, <2>1, GotoEffect DEF SnapshotCheck, Alone, lockVars
    <3>2. PassOf(p)'
      BY <1>0, <1>6, <2>1, <3>1, SealedKept, RecAssumption
         DEF PassOf, Carries, Ending, SnapshotCheck, Exists, Refused, Alone
    <3> QED
      BY <1>0, <1>6, <3>1, <3>2, PassSafe DEF SnapshotCheck
  <2>2. CASE ~(Exists(spool) /\ json.mtime = job[p].before /\ Held(p))
    BY <1>0, <1>6, <2>0, <2>2, ConcludeSafe DEF SnapshotCheck
  <2> QED
    BY <2>1, <2>2
<1>7. CASE FinalizeCheck(p)
  <2>0. OnlyStage(p)
    BY <1>7 DEF FinalizeCheck, OnlyStage, lockVars
  <2>1. CASE Exists(spool) /\ spool.size = job[p].size /\ Held(p)
    <3>1. pc'[p] = "rename" /\ job' = job /\ Alone(p) /\ stage' = stage
      BY <1>0, <1>7, <2>1, GotoEffect DEF FinalizeCheck, Alone, lockVars
    <3>2. PassOf(p)'
      BY <1>0, <1>7, <2>1, <3>1, SealedKept, RecAssumption
         DEF PassOf, Carries, Ending, FinalizeCheck, Exists, Refused, Alone
    <3> QED
      BY <1>0, <1>7, <3>1, <3>2, PassSafe DEF FinalizeCheck
  <2>2. CASE ~(Exists(spool) /\ spool.size = job[p].size /\ Held(p))
    BY <1>0, <1>7, <2>0, <2>2, ConcludeSafe DEF FinalizeCheck
  <2> QED
    BY <2>1, <2>2
<1>8. CASE HealCheck(p)
  <2>1. OnlyStage(p)
    BY <1>8 DEF HealCheck, OnlyStage, lockVars
  <2>2. ~(InProgress /\ ~Exists(spool))
    BY DEF SpoolInv, KeptInv, InProgress
  <2> QED
    BY <1>0, <1>8, <2>1, <2>2, ConcludeSafe DEF HealCheck
<1> QED
  BY <1>1, <1>2, <1>3, <1>4, <1>5, <1>6, <1>7, <1>8

\* What the lock gives: no two processes are inside it.
LEMMA AloneInside ==
  ASSUME LockInv, NEW p \in Procs, NEW q \in Procs, stage[p] = "in", stage[q] = "in"
  PROVE  p = q
BY LockInvIsMutex DEF CommitMutex

\* The commit itself preserves the invariant.
LEMMA CommitSafe ==
  ASSUME Typed, LockInv, SpoolInv, NEW p \in Procs,
         \/ Rename(p) \/ StampSnapshot(p) \/ StampFails(p)
         \/ ConsumeSpool(p) \/ RemoveSidecar(p)
  PROVE  SpoolInv'
<1> USE DEF files, session, history, Untouched
<1>0. TypeOK /\ PassOf(p) /\ KeptInv
  BY DEF Typed, SpoolInv, PassInv
<1>1. CASE Rename(p)
  <2>1. job[p].mode \in {"snapshot", "finalize"} /\ Exists(spool) /\ stage[p] = "in"
    BY <1>0, <1>1 DEF Rename, PassOf
  <2>2. /\ job' = job /\ Alone(p)
        /\ pc'[p] = IF job[p].mode = "snapshot" THEN "chtimes" ELSE "consume"
    <3>1. CASE job[p].mode = "snapshot"
      BY <1>0, <1>1, <2>1, <3>1, GotoEffect DEF Rename, Alone, lockVars
    <3>2. CASE job[p].mode = "finalize"
      BY <1>0, <1>1, <2>1, <3>2, GotoEffect DEF Rename, Alone, lockVars
    <3> QED
      BY <2>1, <3>1, <3>2
  <2>3. Sealed => Sealed'
    BY <1>1, <2>2, SealedKept, RecAssumption DEF Rename, Alone
  <2>4. ASSUME NEW q \in Procs, q # p
        PROVE  PassOf(q)'
    <3>1. pc[q] # "consume"
      BY <2>1, <2>4, AloneInside DEF SpoolInv, PassInv, PassOf
    <3> QED
      BY <1>1, <2>2, <2>3, <2>4, <3>1, PassOfOther DEF Rename, SpoolInv, PassInv, Alone
  <2>5. json' = job[p].tmp /\ stage' = stage /\ spool' = spool
    BY <1>1 DEF Rename, lockVars
  <2>6. /\ job[p].mode = "snapshot" => json'.phase = "live" /\ ~Refused(spool)
        /\ job[p].mode = "finalize" =>
             json'.phase = "finished" /\ json'.spans = spool.spans /\ Sealed
    BY <1>0, <1>1, <2>1, <2>5 DEF PassOf, Carries, Rename, Ending
  <2>7. PassOf(p)'
    BY <1>0, <1>1, <2>1, <2>2, <2>3, <2>5, <2>6 DEF PassOf, Ending, Carries, Rename
  <2>8. PassInv'
    BY <2>4, <2>7 DEF PassInv
  <2>9. RecorderInv'
    BY <1>1, <2>2, <2>3, RecAssumption
       DEF Rename, SpoolInv, RecorderInv, Exists, Alone
  <2>10. recorded \subseteq spool.spans
    BY <1>0, <2>1 DEF KeptInv
  <2>11. KeptInv'
    BY <1>1, <2>1, <2>3, <2>5, <2>6, <2>10 DEF Rename, KeptInv, Exists, Refused
  <2> QED
    BY <2>8, <2>9, <2>11 DEF SpoolInv
<1>2. CASE StampSnapshot(p)
  <2>1. pc'[p] = "leaving" /\ job'[p].mode = job[p].mode /\ Alone(p)
    BY <1>0, <1>2, ConcludeEffect DEF StampSnapshot, Alone, lockVars
  <2>2. json'.phase = json.phase /\ json'.spans = json.spans
    BY <1>0, <1>2, Shape DEF StampSnapshot, Documents
  <2>3. Sealed => Sealed'
    BY <1>2, <2>1, SealedKept, RecAssumption DEF StampSnapshot, Alone
  <2>4. Ending(p)' => Ending(p)
    BY <1>2, <2>1 DEF Ending, StampSnapshot
  <2>5. PassOf(p)'
    BY <1>0, <2>1, <2>3, <2>4 DEF PassOf, Carries
  <2>6. PassInv'
    BY <1>2, <2>1, <2>2, <2>3, <2>5, PassOfOther
       DEF StampSnapshot, SpoolInv, PassInv, Alone
  <2>7. RecorderInv'
    BY <1>2, <2>1, <2>3, RecAssumption
       DEF StampSnapshot, SpoolInv, RecorderInv, Exists, Alone
  <2>8. KeptInv'
    BY <1>0, <1>2, <2>2, <2>3 DEF StampSnapshot, KeptInv, Exists, Refused
  <2> QED
    BY <2>6, <2>7, <2>8 DEF SpoolInv
<1>5. CASE StampFails(p)
  BY <1>0, <1>5, ConcludeSafe DEF StampFails, OnlyStage, lockVars
<1>3. CASE ConsumeSpool(p)
  <2>1. /\ json.phase = "finished" /\ stage[p] = "in" /\ Sealed
        /\ job[p].mode = "finalize"
    BY <1>0, <1>3 DEF ConsumeSpool, PassOf, Ending
  <2>2. pc'[p] = "disown" /\ job' = job /\ Alone(p) /\ stage' = stage
    BY <1>0, <1>3, GotoEffect DEF ConsumeSpool, Alone, lockVars
  <2>3. Sealed'
    BY <1>3, <2>1, <2>2, SealedKept, RecAssumption DEF ConsumeSpool, Alone
  <2>4. ASSUME NEW q \in Procs, q # p
        PROVE  PassOf(q)'
    <3>1. pc[q] # "rename"
      BY <2>1, <2>4, AloneInside DEF SpoolInv, PassInv, PassOf
    <3> QED
      BY <1>3, <2>1, <2>2, <2>3, <2>4, <3>1, PassOfOther
         DEF ConsumeSpool, SpoolInv, PassInv, Alone
  <2>5. PassOf(p)'
    BY <1>0, <2>1, <2>2, <2>3 DEF PassOf, Carries
  <2>6. ~Exists(spool') /\ spool' = NoFile /\ ~NoFile.hdr
    BY <1>3 DEF ConsumeSpool, Exists, NoFile
  <2>7. RecorderInv'
    BY <1>3, <2>1, <2>2, <2>3, <2>6, RecAssumption
       DEF ConsumeSpool, SpoolInv, RecorderInv, Exists, Alone, Sealed
  <2>8. KeptInv'
    BY <1>0, <1>3, <2>1, <2>3, <2>6 DEF ConsumeSpool, KeptInv, Exists
  <2> QED
    BY <2>4, <2>5, <2>7, <2>8 DEF SpoolInv, PassInv
<1>4. CASE RemoveSidecar(p)
  <2>1. Sealed
    BY <1>0, <1>4 DEF RemoveSidecar, PassOf, Ending
  <2> QED
    BY <1>0, <1>4, <2>1, ConcludeSafe DEF RemoveSidecar, OnlyStage, lockVars
<1> QED
  BY <1>1, <1>2, <1>3, <1>4, <1>5

\* Failing and leaving the lock preserve the invariant.
LEMMA LeavingSafe ==
  ASSUME Typed, SpoolInv, NEW p \in Procs,
         AssembleFails(p) \/ LeaveLock(p) \/ RemoveLock(p)
  PROVE  SpoolInv'
<1> USE DEF files, session, history, otherThanAttempts, Untouched
<1>0. TypeOK /\ PassOf(p)
  BY DEF Typed, SpoolInv, PassInv
<1>1. CASE AssembleFails(p)
  <2>1. OnlyStage(p)
    BY <1>1 DEF AssembleFails, OnlyStage, lockVars
  <2>2. CASE pc[p] = "flush"
    BY <1>0, <1>1, <2>1, <2>2, ReturnSafe DEF AssembleFails
  <2>3. CASE pc[p] # "flush"
    BY <1>0, <1>1, <2>1, <2>3, ConcludeSafe DEF AssembleFails
  <2> QED
    BY <2>2, <2>3
<1>2. CASE LeaveLock(p)
  <2>1. OnlyStage(p)
    BY <1>0, <1>2, LockAlone DEF LeaveLock, OnlyStage
  <2>2. CASE Held(p)
    <3>1. pc' = pc /\ job' = job /\ Alone(p)
      BY <1>2, <2>1, <2>2 DEF LeaveLock, Alone, OnlyStage
    <3>2. PassOf(p)'
      BY <1>0, <1>2, <2>2, <3>1, SealedKept DEF LeaveLock, PassOf, Ending, Carries
    <3> QED
      BY <1>0, <1>2, <2>2, <3>1, <3>2, PassSafe DEF LeaveLock
  <2>3. CASE ~Held(p)
    <3>1. job[p].res # "refused"
      BY <1>0, Shape DEF Jobs
    <3> QED
      BY <1>0, <1>2, <2>1, <2>3, <3>1, ReturnSafe DEF LeaveLock
  <2> QED
    BY <2>2, <2>3
<1>3. CASE RemoveLock(p)
  <2>1. OnlyStage(p)
    BY <1>0, <1>3, LockAlone DEF RemoveLock, OnlyStage
  <2>2. job[p].res # "refused"
    BY <1>0, Shape DEF Jobs
  <2> QED
    BY <1>0, <1>3, <2>1, <2>2, ReturnSafe DEF RemoveLock
<1> QED
  BY <1>1, <1>2, <1>3

\* The other commands preserve the invariant.
LEMMA WorkerSafe ==
  ASSUME Kind, Typed, SpoolInv, NEW w \in Workers, WorkerStep(w)
  PROVE  SpoolInv'
<1> USE DEF files, session, history, Untouched
<1>0. /\ TypeOK /\ PassOf(w) /\ KeptInv /\ RecorderInv
      /\ w \in Procs /\ w # Rec
  BY DEF Typed, SpoolInv, PassInv, Workers
<1>1. CASE RecoverDead(w)
  <2>1. Sealed
    <3>1. alive => sidecar = "absent"
      BY <1>1 DEF RecoverDead, OwnerAlive, Kind
    <3> QED
      BY <1>0, <1>1, <3>1 DEF RecoverDead, RecorderInv, Sealed
  <2>2. pc'[w] = "stat" /\ job'[w].mode = "finalize" /\ Alone(w)
    BY <1>0, <1>1, StartEffect DEF RecoverDead, Alone, lockVars
  <2>3. Sealed'
    BY <1>0, <1>1, <2>1, <2>2, SealedKept, RecAssumption DEF RecoverDead, Alone
  <2>4. PassOf(w)'
    BY <1>0, <2>2, <2>3 DEF PassOf, Carries
  <2> QED
    BY <1>0, <1>1, <2>2, <2>3, <2>4, QuietStep, RecAssumption
       DEF RecoverDead, Alone, RecorderInv
<1>2. CASE SetAside(w)
  <2>1. Sealed /\ pc[w] = "aside"
    BY <1>0, <1>2 DEF SetAside, PassOf, Ending
  <2>2. pc'[w] = "asidepid" /\ job' = job /\ Alone(w) /\ stage' = stage
    BY <1>0, <1>2, GotoEffect DEF SetAside, Alone, lockVars
  <2>3. Sealed'
    BY <1>0, <1>2, <2>1, <2>2, SealedKept, RecAssumption DEF SetAside, Alone
  <2>4. PassOf(w)'
    BY <1>0, <2>2, <2>3 DEF PassOf, Carries
  <2>5. CASE Exists(spool)
    <3>1. Refused(spool) /\ spool' = NoFile /\ corrupt' = spool
      BY <1>0, <1>2, <2>1, <2>5 DEF SetAside, PassOf
    <3>2. ASSUME NEW q \in Procs, q # w
          PROVE  PassOf(q)'
      <4>1. pc[q] # "rename"
        BY <2>5, <3>1 DEF SpoolInv, PassInv, PassOf, Carries
      <4> QED
        BY <1>2, <2>1, <2>2, <2>3, <3>1, <3>2, <4>1, PassOfOther
           DEF SetAside, SpoolInv, PassInv, Alone
    <3>3. ~Exists(spool') /\ ~NoFile.hdr
      BY <3>1 DEF Exists, NoFile
    <3>4. RecorderInv'
      BY <1>0, <1>2, <2>1, <2>2, <2>3, <3>1, <3>3, RecAssumption
         DEF SetAside, RecorderInv, Exists, Alone, Sealed
    <3>5. KeptInv'
      BY <1>0, <1>2, <2>3, <2>5, <3>1, <3>3 DEF SetAside, KeptInv, Exists
    <3> QED
      BY <2>4, <3>2, <3>4, <3>5 DEF SpoolInv, PassInv
  <2>6. CASE ~Exists(spool)
    BY <1>0, <1>2, <2>2, <2>3, <2>4, <2>6, QuietStep, RecAssumption
       DEF SetAside, Alone, RecorderInv
  <2> QED
    BY <2>5, <2>6
<1>3. CASE RemoveSidecarAside(w)
  <2>1. Sealed
    BY <1>0, <1>3 DEF RemoveSidecarAside, PassOf, Ending
  <2>2. pc'[w] = "idle" /\ job' = job /\ Alone(w)
    BY <1>0, <1>3, GotoEffect DEF RemoveSidecarAside, Alone, lockVars
  <2>3. Sealed'
    BY <1>0, <1>3, <2>1, <2>2, SealedKept, RecAssumption DEF RemoveSidecarAside, Alone
  <2>4. PassOf(w)'
    BY <1>0, <2>2, <2>3 DEF PassOf, Carries
  <2> QED
    BY <1>0, <1>3, <2>1, <2>2, <2>3, <2>4, QuietStep, RecAssumption
       DEF RemoveSidecarAside, Alone, RecorderInv
<1>4. ASSUME NEW mode \in {"none", "snapshot", "heal"}, NEW ended,
             NEW step \in {"stat", "commit", "idle"},
             Start(w, mode, ended, step), OnlyStage(w), Untouched, sidecar' = sidecar,
             step = "commit" => mode = "heal"
      PROVE  SpoolInv'
  <2>1. pc'[w] = step /\ job'[w].mode = mode /\ Alone(w)
    BY <1>0, <1>4, StartEffect DEF Alone, OnlyStage
  <2>2. Sealed => Sealed'
    BY <1>0, <1>4, <2>1, SealedKept, RecAssumption DEF Alone
  <2>3. PassOf(w)'
    BY <1>0, <1>4, <2>1 DEF PassOf, Carries, Ending
  <2> QED
    BY <1>0, <1>4, <2>1, <2>2, <2>3, QuietStep, RecAssumption DEF Alone, RecorderInv
<1>5. CASE Snapshot(w)
  BY <1>4, <1>5 DEF Snapshot, OnlyStage, lockVars
<1>6. CASE HealStranded(w)
  <2>1. OnlyStage(w)
    BY <1>0, <1>6, LockAlone DEF HealStranded, OnlyStage
  <2> QED
    BY <1>4, <1>6, <2>1 DEF HealStranded
<1>7. CASE Crash(w)
  <2>1. OnlyStage(w)
    BY <1>0, <1>7, LockAlone DEF Crash, OnlyStage
  <2> QED
    BY <1>4, <1>7, <2>1 DEF Crash
<1> QED
  BY <1>1, <1>2, <1>3, <1>5, <1>6, <1>7 DEF WorkerStep

-----------------------------------------------------------------------------
\* A step of the recorder that moves no pass; it seals nothing that was open to
\* an append before, and unseals nothing.
LEMMA PassesStand ==
  ASSUME SpoolInv, UNCHANGED <<pc, job, stage, json>>, Sealed => Sealed',
         \/ spool' = spool
         \/ ~Sealed /\ ~Exists(spool)
         \/ ~Sealed /\ Exists(spool) /\ Exists(spool') /\ (~Refused(spool) => ~Refused(spool'))
  PROVE  PassInv'
BY PassOfOther DEF SpoolInv, PassInv

\* The steps of an append preserve the invariant.
LEMMA AppendSafe ==
  ASSUME Typed, SpoolInv, AppendStep
  PROVE  SpoolInv'
<1> USE DEF files, unchangedByAppend, lockVars
<1>0. TypeOK /\ RecorderInv /\ KeptInv /\ append.step # "idle" /\ ~Sealed
  BY DEF Typed, SpoolInv, AppendStep, SetEnded, AppendStat, AppendGate, AppendTouch, AppendOpen,
     AppendWrite, AppendTorn, AppendFails, WriteTo, Sealed
<1>1. ASSUME UNCHANGED <<pc, job, stage, json, spool, corrupt, alive, closed, recorded>>,
             sidecar' # "absent" \/ sidecar' = sidecar,
             append'.step \in {"open", "write"} => sidecar' # "absent",
             append'.step # "write",
             append'.step = "idle" \/ alive
      PROVE  SpoolInv'
  <2>1. PassInv'
    BY <1>0, <1>1, PassesStand
  <2>2. RecorderInv'
    BY <1>0, <1>1 DEF RecorderInv, Exists
  <2>3. KeptInv'
    BY <1>0, <1>1 DEF KeptInv, Exists, Refused
  <2> QED
    BY <2>1, <2>2, <2>3 DEF SpoolInv
<1>2. alive
  BY <1>0 DEF RecorderInv
<1>3. CASE SetEnded \/ AppendStat
  BY <1>0, <1>1, <1>2, <1>3, Shape DEF SetEnded, AppendStat, Append, Appends
<1>4. CASE AppendGate
  BY <1>0, <1>1, <1>2, <1>4, Shape DEF AppendGate, Append, NoAppend, Appends
<1>10. CASE AppendTouch
  BY <1>0, <1>1, <1>2, <1>10, Shape DEF AppendTouch, Append, Appends
<1>5. CASE AppendFails
  BY <1>0, <1>1, <1>2, <1>5, Shape DEF AppendFails, NoAppend
<1>6. CASE AppendOpen
  <2>1. append.step = "open" /\ seq > 0 /\ seq \in Nat
    BY <1>0, <1>6, Shape DEF AppendOpen, Typed, AppendNumbered
  <2>2. append'.step = "write" /\ append'.fd = spool'.ino
    BY <1>0, <1>6, Shape DEF AppendOpen, Appends
  <2>3. CASE Exists(spool)
    <3>1. spool' = spool
      BY <1>6, <2>3 DEF AppendOpen
    <3>2. PassInv'
      BY <1>0, <1>6, <3>1, PassesStand DEF AppendOpen
    <3>3. RecorderInv'
      BY <1>0, <1>2, <1>6, <2>1, <2>2, <2>3, <3>1 DEF AppendOpen, RecorderInv, Exists
    <3>4. KeptInv'
      BY <1>0, <1>6, <3>1 DEF AppendOpen, KeptInv, Exists, Refused
    <3> QED
      BY <3>2, <3>3, <3>4 DEF SpoolInv
  <2>4. CASE ~Exists(spool)
    <3>1. spool' = NewFile(seq) /\ spool'.ino = seq /\ ~spool'.hdr /\ Exists(spool')
      BY <1>6, <2>1, <2>4 DEF AppendOpen, NewFile, NoFile, Exists
    <3>2. PassInv'
      BY <1>0, <1>6, <2>4, PassesStand DEF AppendOpen
    <3>3. RecorderInv'
      BY <1>0, <1>2, <1>6, <2>1, <2>2, <3>1 DEF AppendOpen, RecorderInv, Exists
    <3>4. recorded = {}
      BY <1>0, <2>4 DEF KeptInv, RecorderInv, NoFile
    <3>5. KeptInv'
      BY <1>0, <1>6, <2>4, <3>4 DEF AppendOpen, KeptInv
    <3> QED
      BY <3>2, <3>3, <3>5 DEF SpoolInv
  <2> QED
    BY <2>3, <2>4
<1>7. ASSUME NEW whole \in BOOLEAN, NEW hdr \in BOOLEAN, WriteTo(whole, hdr),
             recorded' \subseteq recorded \union (IF whole THEN {seq} ELSE {})
      PROVE  SpoolInv'
  <2>1. append.step = "write" /\ Exists(spool) /\ append.fd = spool.ino /\ corrupt = NoFile
    BY <1>0, <1>7 DEF WriteTo, RecorderInv
  <2>2. spool' = Extended(spool, seq, whole, hdr) /\ corrupt' = corrupt
    BY <1>7, <2>1 DEF WriteTo, Exists, NoFile
  <2>3. /\ spool'.ino = spool.ino /\ spool'.size # 0
        /\ spool'.spans = IF whole THEN spool.spans \union {seq} ELSE spool.spans
        /\ spool.hdr => spool'.hdr
    BY <1>0, <2>2, Shape DEF Extended, Files, RecorderInv
  <2>4. append'.step = "idle"
    BY <1>7 DEF WriteTo, NoAppend
  <2>5. Exists(spool') /\ (~Refused(spool) => ~Refused(spool'))
    BY <2>1, <2>3 DEF Exists, Refused
  <2>6. PassInv'
    BY <1>0, <1>7, <2>1, <2>5, PassesStand DEF WriteTo
  <2>7. RecorderInv'
    BY <1>0, <1>2, <1>7, <2>1, <2>2, <2>3, <2>4, <2>5 DEF WriteTo, RecorderInv, Exists
  <2>8. KeptInv'
    BY <1>0, <1>7, <2>1, <2>3, <2>5 DEF WriteTo, KeptInv
  <2> QED
    BY <2>6, <2>7, <2>8 DEF SpoolInv
<1>8. CASE AppendWrite
  <2>1. append.lay \in BOOLEAN
    BY <1>0, Shape DEF Appends
  <2> QED
    BY <1>7, <1>8, <2>1 DEF AppendWrite
<1>9. CASE AppendTorn
  <2>1. PICK hdr \in {FALSE, append.lay} : WriteTo(FALSE, hdr)
    BY <1>9 DEF AppendTorn
  <2>2. hdr \in BOOLEAN
    BY <1>0, Shape DEF Appends
  <2> QED
    BY <1>7, <1>9, <2>1, <2>2 DEF AppendTorn
<1> QED
  BY <1>3, <1>4, <1>5, <1>6, <1>8, <1>9, <1>10 DEF AppendStep

\* The recorder's other steps preserve the invariant.
LEMMA RecorderSafe ==
  ASSUME Kind, Typed, SpoolInv,
         \/ Record \/ HeartbeatCheck \/ HeartbeatTouch \/ Finalize \/ Drain
         \/ ReleaseOwnership \/ RecorderDies
  PROVE  SpoolInv'
<1> USE RecAssumption DEF files, session, history, unchangedByAppend, Untouched, lockVars
<1>0. TypeOK /\ RecorderInv /\ KeptInv /\ PassOf(Rec)
  BY DEF Typed, SpoolInv, PassInv
<1>1. CASE Record
  <2>1. ~Sealed /\ append'.step = "ended"
    BY <1>0, <1>1, Shape DEF Record, Append, Sealed, Appends
  <2>2. PassInv'
    BY <1>1, <2>1, PassesStand DEF Record
  <2>3. RecorderInv'
    BY <1>0, <1>1, <2>1 DEF Record, RecorderInv, Exists
  <2>4. KeptInv'
    BY <1>0, <1>1, <2>1 DEF Record, KeptInv, Exists, Refused
  <2> QED
    BY <2>2, <2>3, <2>4 DEF SpoolInv
<1>2. CASE HeartbeatCheck \/ HeartbeatTouch
  <2>1. Sealed' = Sealed
    BY <1>2 DEF HeartbeatCheck, HeartbeatTouch, Sealed
  <2>2. PassInv'
    BY <1>2, <2>1, PassesStand DEF HeartbeatCheck, HeartbeatTouch
  <2>3. RecorderInv'
    BY <1>0, <1>2, <2>1 DEF HeartbeatCheck, HeartbeatTouch, RecorderInv, Exists
  <2>4. KeptInv'
    BY <1>0, <1>2, <2>1 DEF HeartbeatCheck, HeartbeatTouch, KeptInv, Exists, Refused
  <2> QED
    BY <2>2, <2>3, <2>4 DEF SpoolInv
<1>3. ASSUME Alone(Rec), PassOf(Rec)', Sealed => Sealed',
             UNCHANGED <<spool, corrupt, json, recorded>>,
             ~alive' => append'.step = "idle",
             pc'[Rec] = "drain" => closed',
             append' = append \/ append'.step = "idle",
             sidecar' = sidecar \/ Sealed
      PROVE  SpoolInv'
  <2>1. PassInv'
    BY <1>0, <1>3, PassOfOther DEF SpoolInv, PassInv, Alone
  <2>2. RecorderInv'
    BY <1>0, <1>3 DEF RecorderInv, Exists
  <2>3. KeptInv'
    BY <1>0, <1>3 DEF KeptInv, Exists, Refused
  <2> QED
    BY <2>1, <2>2, <2>3 DEF SpoolInv
<1>4. CASE Finalize
  <2>1. pc'[Rec] \in {"done", "drain"} /\ Alone(Rec) /\ closed'
    BY <1>0, <1>4, GotoEffect, StartEffect DEF Finalize, Alone
  <2>2. ~Sealed
    BY <1>4 DEF Finalize, Sealed
  <2>3. pc'[Rec] = "done" => Sealed'
    <3>1. pc'[Rec] = "done" => seq = 0
      BY <1>0, <1>4, StartEffect DEF Finalize
    <3> QED
      BY <1>0, <1>4, <2>1, <3>1 DEF Finalize, Sealed, Typed, AppendNumbered
  <2>4. PassOf(Rec)'
    BY <1>0, <2>1, <2>3 DEF PassOf, Ending, Carries
  <2> QED
    BY <1>0, <1>3, <1>4, <2>1, <2>2, <2>4 DEF Finalize, RecorderInv
<1>5. CASE Drain
  <2>1. pc'[Rec] = "stat" /\ Alone(Rec) /\ append.step = "idle" /\ closed
    BY <1>0, <1>5, GotoEffect DEF Drain, Alone, Kind, RecorderInv
  <2>2. Sealed'
    BY <1>5, <2>1 DEF Drain, Sealed
  <2>3. PassOf(Rec)'
    BY <1>0, <2>1, <2>2 DEF PassOf, Ending, Carries
  <2> QED
    BY <1>0, <1>3, <1>5, <2>1, <2>2, <2>3 DEF Drain, RecorderInv
<1>6. CASE ReleaseOwnership
  <2>1. pc'[Rec] = "done" /\ Alone(Rec) /\ Sealed
    BY <1>0, <1>6, GotoEffect DEF ReleaseOwnership, Alone, PassOf, Ending
  <2>2. Sealed'
    BY <1>6, <2>1 DEF ReleaseOwnership, Sealed
  <2>3. PassOf(Rec)'
    BY <1>0, <2>1, <2>2 DEF PassOf, Ending, Carries
  <2> QED
    BY <1>0, <1>3, <1>6, <2>1, <2>2, <2>3 DEF ReleaseOwnership, RecorderInv
<1>7. CASE RecorderDies
  <2>1. pc'[Rec] = "dead" /\ Alone(Rec) /\ append'.step = "idle"
    BY <1>0, <1>7, StartEffect, LockAlone DEF RecorderDies, Alone, NoAppend
  <2>2. Sealed'
    BY <1>7, <2>1 DEF RecorderDies, Sealed
  <2>3. PassOf(Rec)'
    BY <1>0, <2>1, <2>2 DEF PassOf, Ending, Carries
  <2> QED
    BY <1>0, <1>3, <1>7, <2>1, <2>2, <2>3 DEF RecorderDies
<1> QED
  BY <1>1, <1>2, <1>4, <1>5, <1>6, <1>7

-----------------------------------------------------------------------------
\* At first nothing was recorded, so nothing can be lost.
LEMMA SpoolInvInit == Init => SpoolInv
<1> SUFFICES ASSUME Init
             PROVE  SpoolInv
  OBVIOUS
<1>1. spool = NoFile /\ corrupt = NoFile /\ NoFile.ino = 0 /\ ~NoFile.hdr /\ ~Exists(spool)
  BY DEF Init, NoFile, Exists
<1>2. append.step = "idle" /\ pc[Rec] = "idle"
  BY RecAssumption DEF Init, NoAppend
<1>3. RecorderInv
  BY <1>1, <1>2 DEF RecorderInv, Init
<1>4. ASSUME NEW p \in Procs
      PROVE  PassOf(p)
  BY <1>4 DEF Init, NoJob, PassOf, Ending, Carries
<1>5. KeptInv
  BY DEF Init, NoJson, KeptInv
<1> QED
  BY <1>3, <1>4, <1>5 DEF SpoolInv, PassInv

\* Every step of the protocol preserves the invariant.
LEMMA SpoolInvStep == Kind /\ Typed /\ LockInv /\ SpoolInv /\ [Next]_vars => SpoolInv'
<1> SUFFICES ASSUME Kind, Typed, LockInv, SpoolInv, [Next]_vars
             PROVE  SpoolInv'
  OBVIOUS
<1>1. ASSUME NEW p \in Procs, AssembleStep(p)
      PROVE  SpoolInv'
  BY <1>1, ReadingSafe, CommitSafe, LeavingSafe DEF AssembleStep
<1>2. CASE SweepLitter \/ SidecarAges \/ LockAges
  <2>1. UNCHANGED <<spool, corrupt, json, recorded, append, alive, closed, pc, job, stage>>
    BY <1>2 DEF SweepLitter, SidecarAges, LockAges, Sweep, Ages, lockVars, files, session, history
  <2>2. \/ sidecar' # "absent" \/ sidecar' = sidecar \/ Sealed
        \/ ~Exists(spool) /\ append.step \notin {"open", "write"}
    BY <1>2 DEF SweepLitter, SidecarAges, LockAges, Sealed, SpoolInv, RecorderInv, files, Kind
  <2>3. Alone(Rec) /\ PassOf(Rec)' /\ (Sealed => Sealed')
    BY <2>1, RecAssumption
       DEF Alone, Sealed, SpoolInv, PassInv, PassOf, Ending, Carries, Exists, Refused
  <2> QED
    BY <2>1, <2>2, <2>3, QuietStep, RecAssumption DEF SpoolInv, RecorderInv
<1>3. CASE UNCHANGED vars
  BY <1>3 DEF vars, lockVars, files, session, history, SpoolInv, RecorderInv, PassInv, PassOf,
     KeptInv, Sealed, Ending, Carries, Exists, Refused
<1> QED
  BY <1>1, <1>2, <1>3, WorkerSafe, AppendSafe, RecorderSafe DEF Next, RecorderStep

\* The lock keeps commits apart, the types hold, and the invariant holds.
THEOREM SpoolInvariance ==
  ASSUME Kind
  PROVE  Spec => [](Typed /\ LockInv /\ SpoolInv)
<1>1. Init => Typed /\ LockInv /\ SpoolInv
  BY TypedInit, LockInvInit, SpoolInvInit DEF Init
<1>2. Typed /\ LockInv /\ SpoolInv /\ LockTypeOK' /\ [Next]_vars
        => (Typed /\ LockInv /\ SpoolInv)'
  <2>1. Typed /\ LockTypeOK' /\ [Next]_vars => Typed'
    BY TypedStep
  <2>2. LockInv /\ LockTypeOK' /\ [Next]_vars => LockInv'
    BY LockInvStep, LockDiscipline DEF Kind
  <2>3. Typed /\ LockInv /\ SpoolInv /\ [Next]_vars => SpoolInv'
    BY SpoolInvStep
  <2> QED
    BY <2>1, <2>2, <2>3
<1>3. Spec => []LockTypeOK
  BY SpoolUsesLock, LockTyping, PTL
<1> QED
  BY <1>1, <1>2, <1>3, PTL DEF Spec

\* No span whose append succeeded is ever lost, for any number of slink commands,
\* spans, crashes and failing calls, while the recorder may sleep at any point.
THEOREM SpoolNoSpanLost ==
  ASSUME Kind
  PROVE  Spec => []NoSpanLost
<1>1. SpoolInv => NoSpanLost
  BY DEF SpoolInv, KeptInv, NoSpanLost
<1> QED
  BY <1>1, SpoolInvariance, PTL

\* A finished capture holds every span recorded for it.
THEOREM SpoolFinishedIsComplete ==
  ASSUME Kind
  PROVE  Spec => []FinishedIsComplete
<1>1. SpoolInv => FinishedIsComplete
  BY DEF SpoolInv, KeptInv, FinishedIsComplete
<1> QED
  BY <1>1, SpoolInvariance, PTL

\* A capture shown in progress can still be finished from its spool.
THEOREM SpoolNeverStranded ==
  ASSUME Kind
  PROVE  Spec => []NeverStranded
<1>1. SpoolInv => NeverStranded
  BY DEF SpoolInv, KeptInv, NeverStranded, InProgress
<1> QED
  BY <1>1, SpoolInvariance, PTL

\* Recovery sets aside only what cannot be assembled.
THEOREM SpoolAsideOnlyRefused ==
  ASSUME Kind
  PROVE  Spec => AsideOnlyRefused
<1>1. ASSUME Typed, SpoolInv, [Next]_vars
      PROVE  [corrupt'.ino # corrupt.ino => Refused(corrupt')]_corrupt
  <2> SUFFICES ASSUME corrupt' # corrupt
               PROVE  corrupt'.ino # corrupt.ino => Refused(corrupt')
    BY SMTT(60)
  <2> USE DEF files
  <2>1. ASSUME NEW p \in Procs, AssembleStep(p)
        PROVE  FALSE
    BY <2>1 DEF AssembleStep, StatSpool, ReadSpool, FlushTmp, AwaitLock, LockStuck, LockFails,
       SnapshotCheck, FinalizeCheck, HealCheck, Rename, StampSnapshot, StampFails,
       ConsumeSpool, RemoveSidecar, AssembleFails, LeaveLock, RemoveLock
  <2>2. ASSUME NEW w \in Workers, WorkerStep(w)
        PROVE  SetAside(w)
    BY <2>2 DEF WorkerStep, RecoverDead, RemoveSidecarAside, Snapshot, HealStranded, Crash
  <2>3. ASSUME NEW w \in Workers, SetAside(w)
        PROVE  Refused(corrupt')
    <3>1. PassOf(w)
      BY <1>1 DEF SpoolInv, PassInv, Workers
    <3> QED
      BY <2>3, <3>1 DEF SetAside, PassOf
  <2>4. CASE RecorderStep
    <3>1. PICK whole \in BOOLEAN, hdr \in {FALSE, append.lay} : WriteTo(whole, hdr)
      BY <2>4 DEF RecorderStep, AppendStep, Record, SetEnded, AppendStat, AppendGate, AppendTouch,
         AppendOpen, AppendWrite, AppendTorn, AppendFails, HeartbeatCheck, HeartbeatTouch,
         Finalize, Drain, ReleaseOwnership, RecorderDies, unchangedByAppend
    <3>2. corrupt' = Extended(corrupt, seq, whole, hdr)
      BY <3>1 DEF WriteTo
    <3>3. corrupt'.ino = corrupt.ino
      BY <1>1, <3>2 DEF Extended, Typed, TypeOK, Files
    <3> QED
      BY <3>3
  <2>5. CASE SweepLitter \/ SidecarAges \/ LockAges \/ UNCHANGED vars
    BY <2>5 DEF SweepLitter, SidecarAges, LockAges, vars
  <2> QED
    BY <1>1, <2>1, <2>2, <2>3, <2>4, <2>5 DEF Next
<1> QED
  BY <1>1, SpoolInvariance, PTL DEF Spec, AsideOnlyRefused

-----------------------------------------------------------------------------
(* Times and numbers: what is committed is in order and honestly stamped.  *)

\* What the types say of the numbers.
LEMMA Numbers ==
  ASSUME TypeOK
  PROVE  /\ clock \in Nat /\ lastEnded \in Nat /\ seq \in Nat /\ spool.mtime \in Nat
         /\ json.mtime \in Nat /\ json.ended \in Nat
         /\ \A p \in Procs : /\ job[p].mtime \in Nat /\ job[p].before \in Nat
             /\ job[p].ended \in Nat
                             /\ job[p].tmp.mtime \in Nat
         /\ spool.spans \subseteq Nat /\ recorded \subseteq Nat /\ json.spans \subseteq Nat
BY BoundsAssumption DEF TypeOK, Files, Documents, Jobs, Spans

\* The files and the appends are as they were, and no process but p moved.
Still ==
  /\ UNCHANGED <<spool, corrupt, json, recorded, clock, seq, lastEnded, append>>
  /\ Sealed => Sealed'
  /\ closed => closed'

\* The moments at which the first n calls have ended are ends for all of them.
LEMMA AfterEnds ==
  ASSUME NEW n \in Nat, NEW at \in After(n), NEW s \in Spans, s <= n, NEW m
  PROVE  EndedBy(s, at, m)
BY BoundsAssumption DEF After, EndedBy, Spans

\* A call that no later one overtook has ended when a later one has.
LEMMA LaterEndsLater ==
  ASSUME NEW s \in Nat, NEW t \in Nat, NEW n \in Nat, s <= t, t <= n
  PROVE  EndedBy(s, EndOf[t], n)
BY DEF EndedBy, InTurn

\* As calls are recorded a call can only be overtaken.
LEMMA EndedStays ==
  ASSUME NEW s \in Nat, NEW at, NEW n \in Nat, EndedBy(s, at, n)
  PROVE  EndedBy(s, at, n + 1)
BY DEF EndedBy, InTurn

\* What was written and not stamped is told apart by its mtime.
LEMMA WrittenNotStamped ==
  ASSUME NEW n \in Nat, NEW d, d.mtime = 0 \/ d.mtime = 2 * n + 2
  PROVE  ~Stamped(d)
BY DEF Stamped

\* A step that only moves p preserves the invariant if it preserves what p carries.
LEMMA PassKeepsTimes ==
  ASSUME TimesInv, NEW p \in Procs, Still,
         \A q \in Procs \ {p} : pc'[q] = pc[q] /\ job'[q] = job[q],
         CarriedBy(p)'
  PROVE  TimesInv'
<1>1. OrderInv'
  BY DEF TimesInv, OrderInv, Still
<1>2. ASSUME NEW q \in Procs, q # p
      PROVE  CarriedBy(q)'
  <2>1. pc'[q] = pc[q] /\ job'[q] = job[q] /\ CarriedBy(q)
    BY <1>2 DEF TimesInv
  <2> QED
    BY <1>2, <2>1 DEF CarriedBy, Carries, Honest, EndsLast, Stamped, Exists, InProgress, Still
<1>3. DocumentsInv'
  BY DEF TimesInv, DocumentsInv, Still, Exists, EndsLast, Honest, InProgress, Stamped
<1> QED
  BY <1>1, <1>2, <1>3 DEF TimesInv

\* Who has left a pass, or has not read anything yet, carries no document.
LEMMA NothingCarried ==
  ASSUME TypeOK, TimesInv, NEW p \in Procs, Still,
         job'[p].tmp \in {NoJson, job[p].tmp},
         pc'[p] \notin {"read", "flush", "commit", "rename", "chtimes"},
         p = Rec /\ pc'[p] \notin {"idle", "done", "release", "dead"} => job'[p].mode = "finalize",
         job'[p].mode = "finalize" =>
            /\ (closed \/ Sealed)' /\ \A s \in spool.spans : EndedBy(s, job'[p].ended, seq)
            /\ append.step \in {"touch", "open", "write"} => EndedBy(seq, job'[p].ended, seq)
  PROVE  CarriedBy(p)'
<1>1. CarriedBy(p)
  BY DEF TimesInv
<1>2. NoJson.spans = {} /\ NoJson.phase = "none" /\ NoJson.mtime = 0
  BY DEF NoJson
<1>3. /\ EndsLast(job'[p].tmp) /\ job'[p].tmp.spans \subseteq recorded
      /\ job'[p].tmp.mtime <= 2 * clock + 2 /\ ~Stamped(job'[p].tmp)
  BY <1>1, <1>2, Numbers, WrittenNotStamped DEF CarriedBy, EndsLast
<1> QED
  BY <1>3 DEF CarriedBy, Carries, Still, EndsLast, Stamped

\* Concluding and returning carry nothing on.
LEMMA ConcludeKeepsTimes ==
  ASSUME TypeOK, TimesInv, NEW p \in Procs, NEW res, Conclude(p, res), Still,
         pc[p] \notin {"idle", "done", "release", "dead"}
  PROVE  TimesInv'
<1>1. /\ pc'[p] = "leaving" /\ job'[p].tmp = NoJson
      /\ job'[p].mode = job[p].mode /\ job'[p].ended = job[p].ended
      /\ \A q \in Procs \ {p} : pc'[q] = pc[q] /\ job'[q] = job[q]
  BY ConcludeEffect
<1>2. CarriedBy(p)
  BY DEF TimesInv
<1>3. CarriedBy(p)'
  BY <1>1, <1>2, NothingCarried DEF CarriedBy, Still
<1> QED
  BY <1>1, <1>3, PassKeepsTimes

\* Who returns from an assembly carries nothing on, whatever it returned.
LEMMA ReturnKeepsTimes ==
  ASSUME TypeOK, TimesInv, NEW p \in Procs, NEW res, Return(p, res), Still,
         pc[p] \notin {"idle", "done", "release", "dead"}
  PROVE  TimesInv'
<1>1. NoJob.mode = "none" /\ NoJob.tmp = NoJson
  BY DEF NoJob
<1>2. CarriedBy(p)
  BY DEF TimesInv
<1>3. CASE p = Rec
  <2>1. job[p].mode = "finalize"
    BY <1>2, <1>3 DEF CarriedBy
  <2>2. job'[p] = NoJob \/ job'[p] = [NoJob EXCEPT !.mode = "finalize", !.ended = job[p].ended]
    BY <1>3, Shape DEF Return
  <2>3. /\ job'[p].tmp = NoJson
        /\ job'[p].mode = "none" \/ (job'[p].mode = "finalize" /\ job'[p].ended = job[p].ended)
    BY <1>1, <2>2, NoJobTyped DEF Jobs
  <2>4. /\ pc'[p] \in {"done", "stat", "release"}
        /\ pc'[p] = "stat" => job'[p].mode = "finalize"
    BY ZenonT(60), <1>3, Shape DEF Return, Goto, NoJob
  <2> QED
    BY <1>2, <2>1, <2>3, <2>4, ReturnEffect, NothingCarried, PassKeepsTimes DEF CarriedBy, Still
<1>4. CASE p # Rec
  <2>1. job'[p] = NoJob /\ pc'[p] \in {"aside", "idle"}
    BY <1>4, Shape DEF Return, Goto
  <2> QED
    BY <1>1, <1>4, <2>1, ReturnEffect, NothingCarried, PassKeepsTimes
<1> QED
  BY <1>3, <1>4

\* Reading the spool, and what is checked under the lock.
LEMMA ReadingKeepsTimes ==
  ASSUME Typed, SpoolInv, SpoolInv', TimesInv, NEW p \in Procs,
         \/ StatSpool(p) \/ ReadSpool(p) \/ FlushTmp(p) \/ LockStuck(p) \/ LockFails(p)
             \/ AwaitLock(p)
         \/ SnapshotCheck(p) \/ FinalizeCheck(p) \/ HealCheck(p)
  PROVE  TimesInv'
<1> USE DEF files, session, history, otherThanAttempts
<1>0. TypeOK /\ CarriedBy(p) /\ OrderInv /\ DocumentsInv /\ PassOf(p)
  BY DEF Typed, TimesInv, SpoolInv, PassInv
<1>b. UNCHANGED <<spool, corrupt, json, recorded, clock, seq, lastEnded, append, alive,
     closed, crashes>>
  BY DEF StatSpool, ReadSpool, FlushTmp, LockStuck, LockFails, AwaitLock, SnapshotCheck,
         FinalizeCheck, HealCheck
<1>c. pc[p] \in {"stat", "read", "flush", "commit"} \/ AwaitLock(p)
  BY DEF StatSpool, ReadSpool, FlushTmp, LockStuck, LockFails, SnapshotCheck, FinalizeCheck,
         HealCheck
<1>1. CASE StatSpool(p)
  <2>1. CASE Exists(spool)
    <3>1. /\ pc'[p] = "read" /\ \A q \in Procs \ {p} : pc'[q] = pc[q] /\ job'[q] = job[q]
          /\ job[p].mode = "snapshot" =>
               job'[p].mtime = 2 * spool.mtime + 1 /\ job'[p].before = json.mtime
          /\ job'[p].mode = job[p].mode /\ job'[p].ended = job[p].ended /\ job'[p].tmp = job[p].tmp
      <4>1. CASE job[p].mode = "finalize"
        BY <1>0, <1>1, <2>1, <4>1, Shape, GotoEffect DEF StatSpool, Jobs
      <4>2. CASE job[p].mode # "finalize"
        BY <1>0, <1>1, <2>1, <4>2, Shape, GotoEffect DEF StatSpool, Jobs
      <4> QED
        BY <4>1, <4>2
    <3>2. Still
      BY <1>b, <3>1, RecAssumption DEF Still, Sealed
    <3>3. pc[p] = "stat"
      BY <1>1 DEF StatSpool
    <3>4. CarriedBy(p)'
      BY <1>0, <2>1, <3>1, <3>2, <3>3, Numbers
         DEF CarriedBy, Carries, Still, DocumentsInv, EndsLast, Stamped, Exists
    <3> QED
      BY <1>b, <3>1, <3>2, <3>3, <3>4, PassKeepsTimes
  <2>2. CASE ~Exists(spool)
    <3>1. Return(p, "missing") /\ pc[p] = "stat"
      BY <1>1, <2>2 DEF StatSpool
    <3>2. Still
      BY <1>0, <1>b, <3>1, ReturnEffect, RecAssumption DEF Still, Sealed
    <3> QED
      BY <1>0, <1>b, <3>1, <3>2, ReturnKeepsTimes
  <2> QED
    BY <2>1, <2>2
<1>2. CASE ReadSpool(p)
  <2>1. CASE Exists(spool) /\ ~Refused(spool)
    <3>1. /\ pc'[p] = "flush" /\ \A q \in Procs \ {p} : pc'[q] = pc[q] /\ job'[q] = job[q]
          /\ job'[p].mtime = job[p].mtime /\ job'[p].before = job[p].before
          /\ job'[p].mode = job[p].mode /\ job'[p].ended = job[p].ended
          /\ job'[p].tmp = Assembled(p)
      BY <1>0, <1>2, <2>1, Shape, GotoEffect DEF ReadSpool, Jobs
    <3>2. Still
      BY <1>b, <3>1, RecAssumption DEF Still, Sealed
    <3>3. pc[p] = "read"
      BY <1>2 DEF ReadSpool
    <3>4. /\ job'[p].tmp.spans = spool.spans /\ job'[p].tmp.mtime = 0
          /\ job'[p].tmp.phase = "finished"
              => job[p].mode = "finalize" /\ job'[p].tmp.ended = job[p].ended
      BY <3>1 DEF Assembled
    <3>5. /\ EndsLast(job'[p].tmp) /\ job'[p].tmp.spans \subseteq recorded
          /\ job'[p].tmp.mtime <= 2 * clock + 2 /\ ~Stamped(job'[p].tmp)
      BY <1>0, <3>4, Numbers, WrittenNotStamped DEF CarriedBy, EndsLast, DocumentsInv
    <3>6. job[p].mode = "snapshot" => Honest(job'[p].tmp.spans, job'[p].mtime)
      BY <1>0, <2>1, <3>1, <3>3, <3>4 DEF Honest, CarriedBy
    <3>7. CarriedBy(p)'
      BY <1>0, <3>1, <3>2, <3>3, <3>4, <3>5, <3>6
         DEF CarriedBy, Carries, Still, EndsLast, Stamped, Honest, Exists
    <3> QED
      BY <1>b, <3>1, <3>2, <3>3, <3>7, PassKeepsTimes
  <2>2. CASE ~(Exists(spool) /\ ~Refused(spool))
    <3>1. Return(p, IF Exists(spool) THEN "refused" ELSE "missing") /\ pc[p] = "read"
      BY <1>2, <2>2 DEF ReadSpool
    <3>2. Still
      BY <1>0, <1>b, <3>1, ReturnEffect, RecAssumption DEF Still, Sealed
    <3> QED
      BY <1>0, <1>b, <3>1, <3>2, ReturnKeepsTimes
  <2> QED
    BY <2>1, <2>2
<1>3. CASE FlushTmp(p)
  <2>1. /\ pc[p] = "flush" /\ pc'[p] = "commit"
        /\ \A q \in Procs \ {p} : pc'[q] = pc[q] /\ job'[q] = job[q]
    BY <1>0, <1>3, Shape, GotoEffect DEF FlushTmp
  <2>2. /\ job'[p].mode = job[p].mode /\ job'[p].ended = job[p].ended
        /\ job'[p].mtime = job[p].mtime /\ job'[p].before = job[p].before
        /\ job'[p].tmp.phase = job[p].tmp.phase
        /\ job'[p].tmp.spans = job[p].tmp.spans /\ job'[p].tmp.ended = job[p].tmp.ended
        /\ job'[p].tmp.mtime = 2 * clock + 2
    <3>1. job'[p] = [job[p] EXCEPT !.tmp = [job[p].tmp EXCEPT !.mtime = 2 * clock + 2]]
      BY <1>0, <1>3, Shape DEF FlushTmp
    <3>2. job[p] \in Jobs /\ job[p].tmp \in Documents
      BY <1>0, Shape DEF Jobs
    <3> QED
      BY <3>1, <3>2 DEF Jobs, Documents
  <2>3. Still
    BY <1>b, <2>1, RecAssumption DEF Still, Sealed
  <2>5. ~Stamped(job'[p].tmp)
    BY <1>0, <2>2, Numbers, WrittenNotStamped
  <2>4. CarriedBy(p)'
    BY <1>0, <2>1, <2>2, <2>3, <2>5, Numbers
       DEF CarriedBy, Carries, Still, EndsLast, Stamped, Honest, Exists
  <2> QED
    BY <1>b, <2>1, <2>3, <2>4, PassKeepsTimes
<1>4. CASE LockStuck(p) \/ LockFails(p)
  <2>1. PICK res : Return(p, res) /\ pc[p] = "commit"
    BY <1>4 DEF LockStuck, LockFails
  <2>2. Still
    BY <1>0, <1>b, <2>1, ReturnEffect, RecAssumption DEF Still, Sealed
  <2> QED
    BY <1>0, <1>b, <2>1, <2>2, ReturnKeepsTimes
<1>5. CASE AwaitLock(p)
  <2>1. pc' = pc /\ job' = job
    BY <1>5 DEF AwaitLock
  <2> QED
    BY <1>b, <2>1
       DEF TimesInv, OrderInv, DocumentsInv, CarriedBy, Carries, Honest, EndsLast, Stamped, Exists,
           InProgress, Sealed
<1>6. CASE SnapshotCheck(p)
  <2>0. pc[p] = "commit" /\ job[p].mode = "snapshot"
    BY <1>6 DEF SnapshotCheck
  <2>1. CASE Exists(spool) /\ json.mtime = job[p].before /\ Held(p)
    <3>1. pc'[p] = "rename" /\ job' = job /\ \A q \in Procs \ {p} : pc'[q] = pc[q]
      BY <1>0, <1>6, <2>1, GotoEffect DEF SnapshotCheck
    <3>2. Still
      BY <1>b, <2>0, <3>1, RecAssumption DEF Still, Sealed
    <3>3. CarriedBy(p)'
      BY <1>0, <2>0, <2>1, <3>1, <3>2 DEF CarriedBy, Carries, Still, EndsLast, Stamped, Honest, Exists
    <3> QED
      BY <1>b, <2>0, <3>1, <3>2, <3>3, PassKeepsTimes
  <2>2. CASE ~(Exists(spool) /\ json.mtime = job[p].before /\ Held(p))
    <3>1. Conclude(p, "quiet")
      BY <1>6, <2>2 DEF SnapshotCheck
    <3>2. Still
      BY <1>0, <1>b, <2>0, <3>1, ConcludeEffect, RecAssumption DEF Still, Sealed
    <3> QED
      BY <1>0, <1>b, <2>0, <3>1, <3>2, ConcludeKeepsTimes
  <2> QED
    BY <2>1, <2>2
<1>7. CASE FinalizeCheck(p)
  <2>0. pc[p] = "commit" /\ job[p].mode = "finalize"
    BY <1>7 DEF FinalizeCheck
  <2>1. CASE Exists(spool) /\ spool.size = job[p].size /\ Held(p)
    <3>1. pc'[p] = "rename" /\ job' = job /\ \A q \in Procs \ {p} : pc'[q] = pc[q]
      BY <1>0, <1>7, <2>1, GotoEffect DEF FinalizeCheck
    <3>2. Still
      BY <1>b, <2>0, <3>1, RecAssumption DEF Still, Sealed
    <3>3. CarriedBy(p)'
      BY <1>0, <2>0, <2>1, <3>1, <3>2 DEF CarriedBy, Carries, Still, EndsLast, Stamped, Honest, Exists
    <3> QED
      BY <1>b, <2>0, <3>1, <3>2, <3>3, PassKeepsTimes
  <2>2. CASE ~(Exists(spool) /\ spool.size = job[p].size /\ Held(p))
    <3>1. Conclude(p, "retry")
      BY <1>7, <2>2 DEF FinalizeCheck
    <3>2. Still
      BY <1>0, <1>b, <2>0, <3>1, ConcludeEffect, RecAssumption DEF Still, Sealed
    <3> QED
      BY <1>0, <1>b, <2>0, <3>1, <3>2, ConcludeKeepsTimes
  <2> QED
    BY <2>1, <2>2
<1>8. CASE HealCheck(p)
  <2>1. ~(InProgress /\ ~Exists(spool))
    BY DEF SpoolInv, KeptInv, InProgress
  <2>2. Conclude(p, "quiet") /\ pc[p] = "commit"
    BY <1>8, <2>1 DEF HealCheck
  <2>3. Still
    BY <1>0, <1>b, <2>2, ConcludeEffect, RecAssumption DEF Still, Sealed
  <2> QED
    BY <1>0, <1>b, <2>2, <2>3, ConcludeKeepsTimes
<1> QED
  BY <1>1, <1>2, <1>3, <1>4, <1>5, <1>6, <1>7, <1>8

\* Committing: the document under the capture's name is the one that was carried.
LEMMA CommitKeepsTimes ==
  ASSUME Typed, LockInv, SpoolInv, SpoolInv', TimesInv, NEW p \in Procs,
         \/ Rename(p) \/ StampSnapshot(p) \/ StampFails(p)
         \/ ConsumeSpool(p) \/ RemoveSidecar(p)
  PROVE  TimesInv'
<1> USE DEF files, session, history
<1>0. TypeOK /\ CarriedBy(p) /\ OrderInv /\ DocumentsInv /\ PassOf(p) /\ RecorderInv /\ KeptInv
  BY DEF Typed, TimesInv, SpoolInv, PassInv
<1>1. CASE Rename(p)
  <2>1. /\ job[p].mode \in {"snapshot", "finalize"} /\ Exists(spool) /\ stage[p] = "in"
        /\ pc[p] = "rename" /\ json' = job[p].tmp
        /\ UNCHANGED <<spool, corrupt, recorded, clock, seq, lastEnded, append, alive, closed,
            crashes>>
    BY <1>0, <1>1 DEF Rename, PassOf
  <2>2. /\ job' = job /\ \A q \in Procs \ {p} : pc'[q] = pc[q]
        /\ pc'[p] = IF job[p].mode = "snapshot" THEN "chtimes" ELSE "consume"
    <3>1. CASE job[p].mode = "snapshot"
      BY <1>0, <1>1, <2>1, <3>1, GotoEffect DEF Rename
    <3>2. CASE job[p].mode = "finalize"
      BY <1>0, <1>1, <2>1, <3>2, GotoEffect DEF Rename
    <3> QED
      BY <2>1, <3>1, <3>2
  <2>3. Sealed => Sealed'
    BY <2>1, <2>2, RecAssumption DEF Sealed
  <2>4. OrderInv'
    BY <1>0, <2>1 DEF OrderInv
  <2>5. ASSUME NEW q \in Procs, q # p
        PROVE  CarriedBy(q)'
    <3>1. pc[q] # "rename" /\ pc[q] # "chtimes"
      BY <2>1, <2>5, AloneInside DEF SpoolInv, PassInv, PassOf
    <3>2. CarriedBy(q) /\ pc'[q] = pc[q] /\ job'[q] = job[q]
      BY <2>2, <2>5 DEF TimesInv
    <3> QED
      BY <2>1, <2>3, <2>5, <3>1, <3>2 DEF CarriedBy, Carries, Honest, EndsLast, Stamped, Exists
  <2>6. /\ job[p].mode = "snapshot" => json'.phase = "live"
        /\ job[p].mode = "finalize" =>
             json'.phase = "finished" /\ json'.spans = spool.spans /\ json'.mtime = 2 * clock + 2
    BY <1>0, <2>1 DEF PassOf, Carries, CarriedBy
  <2>7. CarriedBy(p)'
    BY <1>0, <2>1, <2>2, <2>3, <2>6 DEF CarriedBy, Carries, Honest, EndsLast, Stamped, Exists, InProgress
  <2>8. DocumentsInv'
    BY <1>0, <2>1, <2>2, <2>6 DEF DocumentsInv, CarriedBy, EndsLast, Stamped, Exists, InProgress
  <2> QED
    BY <2>4, <2>5, <2>7, <2>8 DEF TimesInv
<1>2. CASE StampSnapshot(p)
  <2>1. /\ pc[p] = "chtimes" /\ stage[p] = "in" /\ Conclude(p, "ok")
        /\ json' = [json EXCEPT !.mtime = job[p].mtime]
        /\ UNCHANGED <<spool, corrupt, recorded, clock, seq, lastEnded, append, alive, closed,
            crashes>>
    BY <1>0, <1>2 DEF StampSnapshot, PassOf
  <2>2. /\ json'.phase = json.phase /\ json'.spans = json.spans /\ json'.ended = json.ended
        /\ json'.mtime = job[p].mtime
    BY <1>0, <2>1, Shape DEF Documents
  <2>3. /\ pc'[p] = "leaving" /\ \A q \in Procs \ {p} : pc'[q] = pc[q] /\ job'[q] = job[q]
        /\ job'[p].tmp = NoJson /\ job'[p].mode = job[p].mode /\ job'[p].ended = job[p].ended
    BY <1>0, <2>1, ConcludeEffect
  <2>4. /\ NoJson.spans = {} /\ NoJson.phase = "none" /\ NoJson.mtime = 0 /\ ~Stamped(NoJson)
        /\ 0 <= 2 * clock + 2
    BY <1>0, Numbers, WrittenNotStamped DEF NoJson
  <2>5. Sealed => Sealed'
    BY <2>1, <2>3, RecAssumption DEF Sealed
  <2>6. ASSUME NEW q \in Procs, q # p
        PROVE  CarriedBy(q)'
    <3>1. pc[q] # "rename" /\ pc[q] # "chtimes"
      BY <2>1, <2>6, AloneInside DEF SpoolInv, PassInv, PassOf
    <3>2. CarriedBy(q) /\ pc'[q] = pc[q] /\ job'[q] = job[q]
      BY <2>3, <2>6 DEF TimesInv
    <3> QED
      BY <2>1, <2>5, <2>6, <3>1, <3>2 DEF CarriedBy, Carries, Honest, EndsLast, Stamped, Exists
  <2>7. CarriedBy(p)'
    BY <1>0, <2>1, <2>3, <2>4, <2>5 DEF CarriedBy, Carries, EndsLast
  <2>8. InProgress /\ Exists(spool) /\ Honest(json.spans, job[p].mtime)
    BY <1>0, <2>1 DEF CarriedBy, KeptInv, InProgress
  <2>9. DocumentsInv'
    <3>1. json'.mtime <= 2 * clock + 2
      BY <1>0, <2>2, <2>8, Numbers DEF Honest, OrderInv
    <3> QED
      BY <1>0, <2>1, <2>2, <2>8, <3>1 DEF DocumentsInv, EndsLast, Stamped, Exists, InProgress, Honest
  <2> QED
    BY <1>0, <2>1, <2>6, <2>7, <2>9 DEF TimesInv, OrderInv
<1>5. CASE StampFails(p)
  <2>1. Conclude(p, "ok") /\ pc[p] = "chtimes"
        /\ UNCHANGED <<spool, json, corrupt, recorded, clock, seq, lastEnded, append, alive,
            closed>>
    BY <1>5 DEF StampFails
  <2>2. Still
    BY <1>0, <2>1, ConcludeEffect, RecAssumption DEF Still, Sealed
  <2> QED
    BY <1>0, <2>1, <2>2, ConcludeKeepsTimes
<1>3. CASE ConsumeSpool(p)
  <2>1. /\ pc[p] = "consume" /\ spool' = NoFile /\ json.phase = "finished" /\ Sealed /\ job' = job
        /\ pc'[p] = "disown" /\ \A q \in Procs \ {p} : pc'[q] = pc[q]
        /\ UNCHANGED <<json, corrupt, recorded, clock, seq, lastEnded, append, alive, closed,
            crashes>>
    BY <1>0, <1>3, GotoEffect DEF ConsumeSpool, PassOf, Ending
  <2>2. Sealed'
    BY <2>1, RecAssumption DEF Sealed
  <2>3. ~Exists(spool') /\ spool'.spans = {} /\ spool'.mtime = 0
    BY <2>1 DEF NoFile, Exists
  <2>4. ASSUME NEW q \in Procs
        PROVE  CarriedBy(q)'
    <3>1. /\ CarriedBy(q) /\ job'[q] = job[q]
          /\ (pc'[q] = pc[q] \/ (q = p /\ pc[q] = "consume" /\ pc'[q] = "disown"))
      BY <2>1 DEF TimesInv
    <3> QED
      BY <2>1, <2>2, <2>3, <3>1 DEF CarriedBy, Carries, Honest, EndsLast, Stamped, InProgress
  <2>5. OrderInv'
    BY <1>0, <2>1, <2>3, Numbers DEF OrderInv
  <2>6. DocumentsInv'
    BY <1>0, <2>1, <2>3 DEF DocumentsInv, EndsLast, Stamped, InProgress, Exists
  <2> QED
    BY <2>4, <2>5, <2>6 DEF TimesInv
<1>4. CASE RemoveSidecar(p)
  <2>1. Conclude(p, "ok") /\ pc[p] = "disown"
        /\ UNCHANGED <<spool, json, corrupt, recorded, clock, seq, lastEnded, append, alive,
            closed, crashes>>
    BY <1>4 DEF RemoveSidecar
  <2>2. Still
    BY <1>0, <2>1, ConcludeEffect, RecAssumption DEF Still, Sealed
  <2> QED
    BY <1>0, <2>1, <2>2, ConcludeKeepsTimes
<1> QED
  BY <1>1, <1>2, <1>3, <1>4, <1>5

\* A call that fails, and the way out of the lock.
LEMMA LeavingKeepsTimes ==
  ASSUME Typed, TimesInv, NEW p \in Procs, AssembleFails(p) \/ LeaveLock(p) \/ RemoveLock(p)
  PROVE  TimesInv'
<1> USE DEF files, session, history, otherThanAttempts
<1>0. TypeOK /\ CarriedBy(p)
  BY DEF Typed, TimesInv
<1>1. UNCHANGED <<spool, corrupt, json, recorded, clock, seq, lastEnded, append, alive,
     closed, crashes>>
  BY DEF AssembleFails, LeaveLock, RemoveLock
<1>2. ASSUME NEW res, Return(p, res), pc[p] \in {"flush", "leaving"}
      PROVE  TimesInv'
  <2>1. Still
    BY <1>0, <1>1, <1>2, ReturnEffect, RecAssumption DEF Still, Sealed
  <2> QED
    BY <1>0, <1>1, <1>2, <2>1, ReturnKeepsTimes
<1>3. ASSUME NEW res, Conclude(p, res), pc[p] \in {"rename", "consume", "disown"}
      PROVE  TimesInv'
  <2>1. Still
    BY <1>0, <1>1, <1>3, ConcludeEffect, RecAssumption DEF Still, Sealed
  <2> QED
    BY <1>0, <1>1, <1>3, <2>1, ConcludeKeepsTimes
<1>4. CASE AssembleFails(p)
  BY <1>2, <1>3, <1>4 DEF AssembleFails
<1>5. CASE LeaveLock(p)
  <2>1. CASE Held(p)
    <3>1. pc' = pc /\ job' = job
      BY <1>5, <2>1 DEF LeaveLock
    <3> QED
      BY <1>1, <3>1
         DEF TimesInv, OrderInv, DocumentsInv, CarriedBy, Carries, Honest, EndsLast, Stamped, Exists,
             InProgress, Sealed
  <2>2. CASE ~Held(p)
    BY <1>2, <1>5, <2>2 DEF LeaveLock
  <2> QED
    BY <2>1, <2>2
<1>6. CASE RemoveLock(p)
  BY <1>2, <1>6 DEF RemoveLock
<1> QED
  BY <1>4, <1>5, <1>6

\* A command that begins, sets a spool aside, or dies.
LEMMA WorkerKeepsTimes ==
  ASSUME Typed, SpoolInv, SpoolInv', TimesInv, NEW w \in Workers, WorkerStep(w)
  PROVE  TimesInv'
<1> USE DEF files, session, history, Workers
<1>0. /\ TypeOK /\ CarriedBy(w) /\ OrderInv /\ DocumentsInv /\ PassOf(w) /\ PassOf(w)' /\ KeptInv
      /\ w # Rec /\ w \in Procs
  BY DEF Typed, TimesInv, SpoolInv, PassInv
<1>1. NoJob.tmp = NoJson
  BY DEF NoJob
<1>2. ASSUME NEW mode \in {"none", "finalize", "snapshot", "heal"}, NEW ended \in 0 .. MaxSpans,
             NEW step \in {"idle", "stat", "commit"}, Start(w, mode, ended, step),
             UNCHANGED <<spool, corrupt, json, recorded, clock, seq, lastEnded, append, alive,
                 closed>>,
             step = "commit" => mode = "heal",
             mode = "finalize" =>
               ended \in After(spool.mtime) /\ append.step = "idle" /\ Sealed'
      PROVE  TimesInv'
  <2>1. /\ pc'[w] = step /\ job'[w].mode = mode
        /\ \A q \in Procs \ {w} : pc'[q] = pc[q] /\ job'[q] = job[q]
    BY <1>0, <1>2, StartEffect
  <2>2. job'[w] = [NoJob EXCEPT !.mode = mode, !.ended = ended]
    BY <1>0, <1>2, Shape DEF Start
  <2>3. job'[w].ended = ended /\ job'[w].tmp = NoJson
    BY <1>1, <2>2, NoJobTyped DEF Jobs
  <2>4. Still
    BY <1>0, <1>2, <2>1, RecAssumption DEF Still, Sealed
  <2>5. /\ NoJson.phase = "none" /\ NoJson.spans = {} /\ NoJson.mtime = 0 /\ ~Stamped(NoJson)
        /\ 0 <= 2 * clock + 2
    BY <1>0, Numbers, WrittenNotStamped DEF NoJson
  <2>7. mode = "finalize" => \A s \in spool.spans : EndedBy(s, ended, seq)
    <3>1. spool.spans \subseteq Spans
      BY <1>0, Shape DEF Files
    <3> QED
      BY <1>0, <1>2, <3>1, AfterEnds, Numbers DEF OrderInv
  <2>6. CarriedBy(w)'
    BY <1>0, <1>2, <2>1, <2>3, <2>4, <2>5, <2>7 DEF CarriedBy, Carries, Still, EndsLast
  <2> QED
    BY <1>0, <1>2, <2>1, <2>4, <2>6, PassKeepsTimes
<1>3. CASE RecoverDead(w)
  <2>1. PICK at \in After(spool.mtime) : Start(w, "finalize", at, "stat") /\ pc[w] = "idle"
    BY <1>3 DEF RecoverDead
  <2>2. at \in 0 .. MaxSpans
    BY <1>0, AfterTyped
  <2>3. Sealed'
    BY <1>0, <2>1, <2>2, StartEffect DEF PassOf, Ending
  <2>4. append' = append
    BY <1>3 DEF RecoverDead
  <2>5. append.step = "idle"
    BY <2>3, <2>4 DEF Sealed
  <2> QED
    BY <1>2, <1>3, <2>1, <2>2, <2>3, <2>5 DEF RecoverDead
<1>4. CASE Snapshot(w)
  BY <1>2, <1>4, BoundsAssumption DEF Snapshot
<1>5. CASE HealStranded(w)
  BY <1>2, <1>5, BoundsAssumption DEF HealStranded
<1>6. CASE Crash(w)
  BY <1>2, <1>6, BoundsAssumption DEF Crash
<1>7. CASE RemoveSidecarAside(w)
  <2>1. /\ pc[w] = "asidepid" /\ pc'[w] = "idle" /\ job' = job
        /\ \A q \in Procs \ {w} : pc'[q] = pc[q]
        /\ UNCHANGED <<spool, corrupt, json, recorded, clock, seq, lastEnded, append, alive,
            closed, crashes>>
    BY <1>0, <1>7, GotoEffect DEF RemoveSidecarAside
  <2>2. Still
    BY <1>0, <2>1, RecAssumption DEF Still, Sealed
  <2>3. CarriedBy(w)'
    BY <1>0, <2>1, <2>2, NothingCarried DEF CarriedBy, Still
  <2> QED
    BY <1>0, <2>1, <2>2, <2>3, PassKeepsTimes
<1>8. CASE SetAside(w)
  <2>1. /\ pc[w] = "aside" /\ pc'[w] = "asidepid" /\ job' = job
        /\ \A q \in Procs \ {w} : pc'[q] = pc[q]
        /\ UNCHANGED <<json, recorded, clock, seq, lastEnded, append, alive, closed, crashes>>
    BY <1>0, <1>8, GotoEffect DEF SetAside
  <2>2. Sealed /\ Sealed'
    BY <1>0, <2>1, RecAssumption DEF PassOf, Ending, Sealed
  <2>3. CASE ~Exists(spool)
    <3>1. spool' = spool /\ corrupt' = corrupt
      BY <1>8, <2>3 DEF SetAside
    <3>2. Still
      BY <2>1, <2>2, <3>1 DEF Still
    <3>3. CarriedBy(w)'
      BY <1>0, <2>1, <3>2, NothingCarried DEF CarriedBy, Still
    <3> QED
      BY <1>0, <2>1, <3>2, <3>3, PassKeepsTimes
  <2>4. CASE Exists(spool)
    <3>1. corrupt' = spool /\ spool' = NoFile /\ Refused(spool)
      BY <1>0, <1>8, <2>1, <2>4 DEF SetAside, PassOf
    <3>2. ~Exists(spool') /\ spool'.spans = {} /\ spool'.mtime = 0
      BY <3>1 DEF NoFile, Exists
    <3>3. ~InProgress
      BY <1>0, <2>4, <3>1 DEF KeptInv, InProgress
    <3>4. ASSUME NEW q \in Procs
          PROVE  CarriedBy(q)'
      <4>1. CarriedBy(q) /\ job'[q] = job[q]
            /\ (pc'[q] = pc[q] \/ (q = w /\ pc[q] = "aside" /\ pc'[q] = "asidepid"))
        BY <2>1 DEF TimesInv
      <4> QED
        BY <1>0, <2>1, <2>2, <3>2, <3>3, <4>1 DEF CarriedBy, Carries, Honest, EndsLast, Stamped, InProgress
    <3>5. OrderInv'
      BY <1>0, <2>1, <3>2, Numbers DEF OrderInv
    <3>6. DocumentsInv'
      BY <1>0, <2>1, <3>1, <3>2, <3>3 DEF DocumentsInv, EndsLast, Stamped, InProgress, Exists
    <3> QED
      BY <3>4, <3>5, <3>6 DEF TimesInv
  <2> QED
    BY <2>3, <2>4
<1> QED
  BY <1>3, <1>4, <1>5, <1>6, <1>7, <1>8 DEF WorkerStep

\* The files are as they were and nobody moved: only the append went on, and it
\* was open for business.
LEMMA AppendingKeepsTimes ==
  ASSUME TypeOK, SpoolInv, TimesInv, OrderInv', ~Sealed,
         UNCHANGED <<spool, corrupt, json, recorded, clock, pc, job, crashes, alive, closed>>,
         seq' \in {seq, seq + 1},
         append'.step \in {"touch", "open", "write"}
             => seq' = seq /\ (append.step \in {"touch", "open", "write"} \/ ~closed)
  PROVE  TimesInv'
<1>0. \A s \in Spans, at \in Nat : EndedBy(s, at, seq) => EndedBy(s, at, seq')
  BY EndedStays, Numbers DEF Spans
<1>3. /\ json.ended \in Nat /\ json.spans \subseteq Spans /\ spool.spans \subseteq Spans
      /\ \A p \in Procs : /\ job[p].ended \in Nat /\ job[p].tmp.ended \in Nat
                          /\ job[p].tmp.spans \subseteq Spans
  BY BoundsAssumption DEF TypeOK, Files, Documents, Jobs
<1>4. EndsLast(json) => EndsLast(json)'
  BY <1>0, <1>3 DEF EndsLast
<1>1. ASSUME NEW p \in Procs
      PROVE  CarriedBy(p)'
  <2>1. CarriedBy(p) /\ PassOf(p)
    BY DEF TimesInv, SpoolInv, PassInv
  <2>2. pc[p] = "read" => Exists(spool)
    BY <2>1 DEF CarriedBy
  <2>3. EndsLast(job[p].tmp) => EndsLast(job[p].tmp)'
    BY <1>0, <1>3 DEF EndsLast
  <2>4. job[p].mode = "finalize" =>
          /\ \A s \in spool.spans : EndedBy(s, job[p].ended, seq')
          /\ append'.step \in {"touch", "open", "write"} => EndedBy(seq', job[p].ended, seq')
    BY <1>0, <1>3, <2>1 DEF CarriedBy
  <2> QED
    BY <2>1, <2>2, <2>3, <2>4 DEF CarriedBy, Carries, Honest, Stamped, Exists, InProgress
<1>2. DocumentsInv'
  BY <1>4 DEF TimesInv, DocumentsInv, Stamped, Honest, Exists, InProgress
<1> QED
  BY <1>1, <1>2 DEF TimesInv

\* An append makes the spool younger than every document read before it.
LEMMA WriteKeepsTimes ==
  ASSUME Typed, SpoolInv, TimesInv, ~Sealed,
         NEW whole \in BOOLEAN, NEW hdr \in BOOLEAN, WriteTo(whole, hdr),
         recorded' = recorded \union (IF whole THEN {seq} ELSE {})
  PROVE  TimesInv'
<1> USE DEF unchangedByAppend
<1>0. TypeOK /\ RecorderInv /\ KeptInv /\ OrderInv /\ DocumentsInv
  BY DEF Typed, SpoolInv, TimesInv
<1>1. /\ append.step = "write" /\ Exists(spool) /\ append.fd = spool.ino /\ corrupt = NoFile
      /\ clock' = seq /\ append'.step = "idle"
      /\ UNCHANGED <<json, seq, lastEnded, pc, job, crashes, closed>>
  BY <1>0 DEF WriteTo, RecorderInv, NoAppend
<1>2. spool' = Extended(spool, seq, whole, hdr) /\ corrupt' = corrupt
  BY <1>1 DEF WriteTo, Exists, NoFile
<1>3. /\ spool'.ino = spool.ino /\ spool'.mtime = seq
      /\ spool'.spans = spool.spans \union (IF whole THEN {seq} ELSE {})
  BY <1>0, <1>2, Shape DEF Extended, Files
<1>4. Exists(spool')
  BY <1>1, <1>3 DEF Exists
<1>5. clock < seq /\ spool.mtime < seq /\ lastEnded = seq
  BY <1>0, <1>1, Numbers DEF OrderInv
<1>6. OrderInv'
  <2>1. \A s \in recorded' : s <= seq
    BY <1>0, <1>5, Numbers DEF OrderInv
  <2>2. \A s \in spool'.spans : s <= seq
    BY <1>0, <1>3, <1>5, Numbers DEF OrderInv
  <2> QED
    BY <1>0, <1>1, <1>3, <1>5, <2>1, <2>2, Numbers DEF OrderInv
<1>7. ASSUME NEW S, NEW stamp \in Nat, Honest(S, stamp)
      PROVE  Honest(S, stamp)'
  <2>1. stamp <= 2 * spool.mtime + 1 /\ 2 * spool.mtime + 1 < 2 * seq + 1
    BY <1>0, <1>1, <1>5, <1>7, Numbers DEF Honest
  <2>2. stamp <= 2 * seq + 1 /\ stamp < 2 * seq + 1
    BY <1>0, <2>1, Numbers
  <2> QED
    BY <1>3, <2>2 DEF Honest
<1>8. ASSUME NEW p \in Procs
      PROVE  CarriedBy(p)'
  <2>1. CarriedBy(p) /\ PassOf(p) /\ job'[p] = job[p] /\ pc'[p] = pc[p]
    BY <1>1 DEF TimesInv, SpoolInv, PassInv
  <2>2. ~Carries(p, "finalize")
    BY <2>1 DEF PassOf, Ending, Carries
  <2>3. job[p].mode = "finalize" =>
          closed /\ \A s \in spool'.spans : EndedBy(s, job[p].ended, seq)
    BY <1>1, <1>3, <2>1 DEF CarriedBy
  <2>4. /\ job[p].mtime \in Nat /\ job[p].before \in Nat /\ job[p].tmp.mtime \in Nat
        /\ clock \in Nat /\ seq \in Nat /\ spool.mtime \in Nat
    BY <1>0, Numbers
  <2>5. job[p].tmp.mtime <= 2 * seq + 2 /\ ~Stamped(job[p].tmp)
    BY <1>5, <2>1, <2>4 DEF CarriedBy
  <2>6. (pc[p] = "read" /\ job[p].mode = "snapshot") \/ Carries(p, "snapshot")
       => job[p].before <= 2 * seq + 2 /\ job[p].before # 2 * seq + 2
    BY <1>5, <2>1, <2>4 DEF CarriedBy
  <2>7. pc[p] = "read" /\ job[p].mode = "snapshot" => job[p].mtime <= 2 * seq + 1
    BY <1>1, <1>5, <2>1, <2>4 DEF CarriedBy
  <2>8. Carries(p, "snapshot") => Honest(job[p].tmp.spans, job[p].mtime)'
    <3>1. Carries(p, "snapshot") => Honest(job[p].tmp.spans, job[p].mtime)
      BY <2>1 DEF CarriedBy
    <3>2. Honest(job[p].tmp.spans, job[p].mtime) => Honest(job[p].tmp.spans, job[p].mtime)'
      BY <1>1, <1>7, <2>4 DEF Honest
    <3> QED
      BY <3>1, <3>2
  <2>9. pc[p] = "chtimes" => Honest(json.spans, job[p].mtime)'
    <3>1. pc[p] = "chtimes" => Honest(json.spans, job[p].mtime)
      BY <2>1 DEF CarriedBy
    <3>2. Honest(json.spans, job[p].mtime) => Honest(json.spans, job[p].mtime)'
      BY <1>1, <1>7, <2>4 DEF Honest
    <3> QED
      BY <3>1, <3>2
  <2>10. EndsLast(job[p].tmp)' /\ job[p].tmp.spans \subseteq recorded'
    BY <1>1, <2>1 DEF CarriedBy, EndsLast
  <2>11. (Carries(p, "snapshot") <=> Carries(p, "snapshot")') /\ ~Carries(p, "finalize")'
    BY <2>1, <2>2 DEF Carries
  <2>12. (pc[p] = "chtimes" => job[p].mode = "snapshot" /\ InProgress')
         /\ (p = Rec /\ pc[p] \notin {"idle", "done", "release", "dead"}
                => job[p].mode = "finalize")
         /\ (pc[p] = "rename" /\ job[p].mode = "snapshot" => json'.mtime = job[p].before)
    BY <1>1, <2>1 DEF CarriedBy, InProgress
  <2> QED
    BY <1>1, <1>3, <1>4, <2>1, <2>3, <2>5, <2>6, <2>7, <2>8, <2>9, <2>10, <2>11, <2>12
       DEF CarriedBy, Stamped
<1>9. DocumentsInv'
  <2>1. json.phase # "finished"
    BY <1>0 DEF KeptInv
  <2>2. spool'.spans \union json'.spans \union corrupt'.spans \subseteq recorded'
    BY <1>0, <1>1, <1>2, <1>3 DEF DocumentsInv
  <2>3. json.mtime <= 2 * seq + 2
    BY <1>0, <1>5, Numbers DEF DocumentsInv
  <2>4. InProgress' /\ Stamped(json) => Honest(json.spans, json.mtime)'
    <3>1. json.mtime \in Nat
      BY <1>0, Numbers
    <3>2. Honest(json.spans, json.mtime) => Honest(json.spans, json.mtime)'
      BY <1>1, <1>7, <3>1 DEF Honest
    <3> QED
      BY <1>0, <1>1, <3>2 DEF DocumentsInv, InProgress
  <2>5. ~Exists(corrupt')
    BY <1>1, <1>2 DEF Exists, NoFile
  <2> QED
    BY <1>1, <2>1, <2>2, <2>3, <2>4, <2>5 DEF DocumentsInv, EndsLast, Stamped
<1> QED
  BY <1>6, <1>8, <1>9 DEF TimesInv

\* The steps of an append.
LEMMA AppendKeepsTimes ==
  ASSUME Typed, SpoolInv, TimesInv, AppendStep
  PROVE  TimesInv'
<1> USE DEF files, unchangedByAppend
<1>0. /\ TypeOK /\ RecorderInv /\ KeptInv /\ OrderInv /\ DocumentsInv /\ append.step # "idle"
      /\ ~Sealed
  BY DEF Typed, SpoolInv, TimesInv, AppendStep, SetEnded, AppendStat, AppendGate, AppendTouch, AppendOpen,
     AppendWrite, AppendTorn, AppendFails, WriteTo, Sealed
<1>1. CASE SetEnded
  <2>1. append'.step = "stat" /\ append.step = "ended" /\ lastEnded' = seq
    BY <1>0, <1>1, Shape DEF SetEnded, Append, Appends
  <2>2. OrderInv'
    BY <1>0, <1>1, <2>1, Numbers DEF SetEnded, OrderInv
  <2> QED
    BY <1>0, <1>1, <2>1, <2>2, AppendingKeepsTimes DEF SetEnded
<1>2. CASE AppendStat
  <2>1. append'.step = "gate" /\ append.step = "stat"
    BY <1>0, <1>2, Shape DEF AppendStat, Appends
  <2>2. OrderInv'
    BY <1>0, <1>2, <2>1 DEF AppendStat, OrderInv
  <2> QED
    BY <1>0, <1>2, <2>1, <2>2, AppendingKeepsTimes DEF AppendStat
<1>3. CASE AppendGate
  <2>1. append.step = "gate" /\ (append'.step = "idle" \/ (append'.step = "touch" /\ ~closed))
    BY <1>0, <1>3, Shape DEF AppendGate, Append, NoAppend, Appends
  <2>2. OrderInv'
    BY <1>0, <1>3, <2>1 DEF AppendGate, OrderInv
  <2> QED
    BY <1>0, <1>3, <2>1, <2>2, AppendingKeepsTimes DEF AppendGate
<1>8. CASE AppendTouch
  <2>1. append.step = "touch" /\ append'.step = "open"
    BY <1>0, <1>8, Shape DEF AppendTouch, Append, Appends
  <2>2. OrderInv'
    BY <1>0, <1>8, <2>1 DEF AppendTouch, OrderInv
  <2> QED
    BY <1>0, <1>8, <2>1, <2>2, AppendingKeepsTimes DEF AppendTouch
<1>4. CASE AppendFails
  <2>1. append'.step = "idle"
    BY <1>4 DEF AppendFails, NoAppend
  <2>2. OrderInv'
    BY <1>0, <1>4, <2>1 DEF AppendFails, OrderInv
  <2> QED
    BY <1>0, <1>4, <2>1, <2>2, AppendingKeepsTimes DEF AppendFails
<1>5. CASE AppendOpen
  <2>1. append.step = "open" /\ append'.step = "write"
    BY <1>0, <1>5, Shape DEF AppendOpen, Appends
  <2>2. CASE Exists(spool)
    <3>1. spool' = spool
      BY <1>5, <2>2 DEF AppendOpen
    <3>2. OrderInv'
      BY <1>0, <1>5, <2>1, <3>1 DEF AppendOpen, OrderInv
    <3> QED
      BY <1>0, <1>5, <2>1, <3>1, <3>2, AppendingKeepsTimes DEF AppendOpen
  <2>3. CASE ~Exists(spool)
    <3>1. spool' = NewFile(seq) /\ spool'.spans = {} /\ spool'.mtime = clock
      BY <1>5, <2>3 DEF AppendOpen, NewFile, NoFile
    <3>2. UNCHANGED <<corrupt, json, recorded, clock, pc, job, crashes, alive, closed, seq,
         lastEnded>>
      BY <1>5 DEF AppendOpen
    <3>3. json.phase = "none" /\ json.spans = {} /\ corrupt = NoFile
      <4>1. json.phase \in {"none", "live", "finished"}
        BY <1>0, Shape DEF Documents
      <4> QED
        BY <1>0, <2>3, <4>1 DEF KeptInv, RecorderInv
    <3>4. OrderInv'
      BY <1>0, <2>1, <3>1, <3>2, Numbers DEF OrderInv
    <3>5. ASSUME NEW p \in Procs
          PROVE  CarriedBy(p)'
      <4>1. CarriedBy(p) /\ PassOf(p)
        BY DEF TimesInv, SpoolInv, PassInv
      <4>2. pc[p] \notin {"read", "chtimes"} /\ ~Carries(p, "snapshot") /\ ~Carries(p, "finalize")
        BY <1>0, <2>3, <3>3, <4>1 DEF CarriedBy, PassOf, Ending, Carries, InProgress
      <4>3. pc[p] = "rename" => job[p].mode # "snapshot"
        BY <4>2 DEF Carries
      <4> QED
        BY <2>1, <3>1, <3>2, <4>1, <4>2, <4>3 DEF CarriedBy, Carries, EndsLast, Stamped, Sealed
    <3>6. DocumentsInv'
      <4>1. ~Exists(corrupt) /\ corrupt.spans = {}
        BY <3>3 DEF NoFile, Exists
      <4> QED
        BY <1>0, <3>1, <3>2, <3>3, <4>1 DEF DocumentsInv, EndsLast, Stamped, InProgress, Exists
    <3> QED
      BY <3>4, <3>5, <3>6 DEF TimesInv
  <2> QED
    BY <2>2, <2>3
<1>6. CASE AppendWrite
  <2>1. append.lay \in BOOLEAN
    BY <1>0, Shape DEF Appends
  <2> QED
    BY <1>0, <1>6, <2>1, WriteKeepsTimes DEF AppendWrite
<1>7. CASE AppendTorn
  <2>1. PICK hdr \in {FALSE, append.lay} : WriteTo(FALSE, hdr)
    BY <1>7 DEF AppendTorn
  <2>2. hdr \in BOOLEAN /\ recorded' = recorded \union {}
    BY <1>0, <1>7, Shape DEF Appends, AppendTorn
  <2> QED
    BY <1>0, <2>1, <2>2, WriteKeepsTimes
<1> QED
  BY <1>1, <1>2, <1>3, <1>4, <1>5, <1>6, <1>7, <1>8 DEF AppendStep

\* The recorder's other steps: the capture's end is taken after the latest span.
LEMMA RecorderKeepsTimes ==
  ASSUME Kind, Typed, SpoolInv, SpoolInv', TimesInv,
         \/ Record \/ HeartbeatCheck \/ HeartbeatTouch \/ Finalize \/ Drain
         \/ ReleaseOwnership \/ RecorderDies
  PROVE  TimesInv'
<1> USE RecAssumption DEF files, session, history, unchangedByAppend
<1>0. TypeOK /\ RecorderInv /\ KeptInv /\ OrderInv /\ DocumentsInv /\ CarriedBy(Rec)
  BY DEF Typed, SpoolInv, TimesInv
<1>n. NoJob.tmp = NoJson /\ NoJob.mode = "none"
  BY DEF NoJob
<1>1. CASE Record
  <2>1. append'.step = "ended" /\ append.step = "idle" /\ seq' = seq + 1 /\ ~Sealed
    BY <1>0, <1>1, Shape DEF Record, Append, Appends, Sealed
  <2>2. OrderInv'
    BY <1>0, <1>1, <2>1, Numbers DEF Record, OrderInv
  <2> QED
    BY <1>0, <1>1, <2>1, <2>2, AppendingKeepsTimes DEF Record
<1>2. CASE HeartbeatCheck \/ HeartbeatTouch
  <2>1. UNCHANGED <<spool, corrupt, json, recorded, clock, seq, lastEnded, append, alive,
       closed, pc, job, crashes>>
    BY <1>2 DEF HeartbeatCheck, HeartbeatTouch
  <2> QED
    BY <2>1
       DEF TimesInv, OrderInv, DocumentsInv, CarriedBy, Carries, Honest, EndsLast, Stamped, Exists,
           InProgress, Sealed
<1>3. CASE Finalize
  <2>1. /\ alive /\ pc[Rec] = "idle" /\ closed' /\ ~Sealed
        /\ UNCHANGED <<spool, corrupt, json, recorded, clock, seq, lastEnded, append, crashes>>
    BY <1>3 DEF Finalize, Sealed
  <2>2. Still
    BY <2>1 DEF Still
  <2>3. CASE seq = 0
    <3>1. job' = job /\ pc'[Rec] = "done" /\ \A q \in Procs \ {Rec} : pc'[q] = pc[q]
      BY <1>0, <1>3, <2>3, GotoEffect DEF Finalize
    <3>2. CarriedBy(Rec)'
      BY <1>0, <2>1, <2>2, <3>1, NothingCarried DEF CarriedBy
    <3> QED
      BY <1>0, <2>1, <2>2, <3>1, <3>2, PassKeepsTimes
  <2>4. CASE seq # 0
    <3>1. PICK at \in IF lastEnded = 0 THEN After(seq) ELSE {EndOf[lastEnded]} :
            Start(Rec, "finalize", at, "drain")
      BY <1>3, <2>4 DEF Finalize
    <3>2. pc'[Rec] = "drain" /\ \A q \in Procs \ {Rec} : pc'[q] = pc[q] /\ job'[q] = job[q]
      BY <1>0, <3>1, StartEffect
    <3>3. /\ job'[Rec].tmp = NoJson /\ job'[Rec].mode = "finalize"
          /\ job'[Rec].ended = at
      <4>1. job'[Rec] = [NoJob EXCEPT !.mode = "finalize", !.ended = at]
        BY <1>0, <3>1, Shape DEF Start
      <4> QED
        BY <1>n, <4>1, NoJobTyped DEF Jobs
    <3>7. \A s \in spool.spans : s \in Nat \ {0} /\ s <= lastEnded
      BY <1>0, Numbers DEF OrderInv, TypeOK, Files, Spans
    <3>4. \A s \in spool.spans : EndedBy(s, at, seq)
      BY <1>0, <3>7, LaterEndsLater, Numbers DEF OrderInv
    <3>5. append.step \in {"touch", "open", "write"} => EndedBy(seq, at, seq)
      BY <1>0, <2>4, LaterEndsLater, Numbers DEF OrderInv
    <3>6. CarriedBy(Rec)'
      BY <1>0, <2>1, <2>2, <3>2, <3>3, <3>4, <3>5, NothingCarried
    <3> QED
      BY <1>0, <2>1, <2>2, <3>2, <3>6, PassKeepsTimes
  <2> QED
    BY <2>3, <2>4
<1>4. ASSUME NEW step \in {"stat", "done"}, Goto(Rec, step), job' = job,
             pc[Rec] \in {"drain", "release"},
             step = "stat" => pc[Rec] = "drain",
             UNCHANGED <<spool, corrupt, json, recorded, clock, seq, lastEnded, append, alive,
                 closed, crashes>>
      PROVE  TimesInv'
  <2>1. pc'[Rec] = step /\ \A q \in Procs \ {Rec} : pc'[q] = pc[q]
    BY <1>0, <1>4, GotoEffect
  <2>2. Still
    BY <1>4, <2>1 DEF Still, Sealed
  <2>3. CarriedBy(Rec)'
    BY <1>0, <1>4, <2>1, <2>2, NothingCarried DEF CarriedBy, Still
  <2> QED
    BY <1>0, <1>4, <2>1, <2>2, <2>3, PassKeepsTimes
<1>5. CASE Drain
  BY <1>4, <1>5 DEF Drain
<1>6. CASE ReleaseOwnership
  BY <1>4, <1>6 DEF ReleaseOwnership
<1>7. CASE RecorderDies
  <2>1. /\ UNCHANGED <<spool, corrupt, json, recorded, clock, seq, lastEnded, closed, crashes>>
        /\ append'.step = "idle" /\ alive' = FALSE
    BY <1>7 DEF RecorderDies, NoAppend
  <2>2. pc'[Rec] = "dead" /\ \A q \in Procs \ {Rec} : pc'[q] = pc[q] /\ job'[q] = job[q]
    BY <1>0, <1>7, StartEffect DEF RecorderDies
  <2>3. job'[Rec].tmp = NoJson /\ job'[Rec].mode = "none"
    <3>1. job'[Rec] = [NoJob EXCEPT !.mode = "none", !.ended = 0]
      BY <1>0, <1>7, Shape DEF RecorderDies, Start
    <3> QED
      BY <1>n, <3>1, NoJobTyped DEF Jobs
  <2>4. Sealed'
    BY <2>1 DEF Sealed
  <2>5. ASSUME NEW q \in Procs, q # Rec
        PROVE  CarriedBy(q)'
    <3>1. CarriedBy(q) /\ pc'[q] = pc[q] /\ job'[q] = job[q]
      BY <2>2, <2>5 DEF TimesInv
    <3> QED
      BY <2>1, <2>4, <2>5, <3>1 DEF CarriedBy, Carries, Honest, EndsLast, Stamped, Exists, InProgress
  <2>6. CarriedBy(Rec)'
    <3>1. /\ NoJson.phase = "none" /\ NoJson.spans = {} /\ NoJson.mtime = 0
          /\ ~Stamped(NoJson)
      BY <1>0, Numbers, WrittenNotStamped DEF NoJson
    <3> QED
      BY <1>0, <2>1, <2>2, <2>3, <3>1, Numbers DEF CarriedBy, Carries, EndsLast, Stamped
  <2>7. OrderInv'
    BY <1>0, <2>1 DEF OrderInv
  <2>9. DocumentsInv'
    BY <1>0, <2>1 DEF DocumentsInv, EndsLast, Stamped, Honest, Exists, InProgress
  <2> QED
    BY <2>5, <2>6, <2>7, <2>9 DEF TimesInv
<1> QED
  BY <1>1, <1>2, <1>3, <1>5, <1>6, <1>7

\* At first there is no time and no document.
LEMMA TimesInvInit == Init => TimesInv
<1> SUFFICES ASSUME Init
             PROVE  TimesInv
  OBVIOUS
<1>1. /\ spool.mtime = 0 /\ spool.spans = {} /\ corrupt.spans = {} /\ json.spans = {}
      /\ json.mtime = 0
      /\ json.phase = "none" /\ ~Exists(spool) /\ ~Exists(corrupt) /\ append.step = "idle"
  BY DEF Init, NoFile, NoJson, Exists, NoAppend
<1>2. OrderInv
  BY <1>1 DEF Init, OrderInv
<1>3. DocumentsInv
  BY <1>1 DEF Init, DocumentsInv, EndsLast, InProgress
<1>4. ASSUME NEW p \in Procs
      PROVE  CarriedBy(p)
  <2>1. /\ pc[p] = "idle" /\ job[p].mode = "none" /\ job[p].tmp.phase = "none"
        /\ job[p].tmp.spans = {} /\ job[p].tmp.mtime = 0
    BY DEF Init, NoJob, NoJson
  <2>2. ~Stamped(job[p].tmp)
    BY <2>1, WrittenNotStamped
  <2> QED
    BY <2>1, <2>2 DEF Init, CarriedBy, Carries, EndsLast, Stamped
<1> QED
  BY <1>2, <1>3, <1>4 DEF TimesInv

\* Every step of the protocol preserves it.
LEMMA TimesInvStep ==
  Kind /\ Typed /\ LockInv /\ SpoolInv /\ SpoolInv' /\ TimesInv /\ [Next]_vars => TimesInv'
<1> SUFFICES ASSUME Kind, Typed, LockInv, SpoolInv, SpoolInv', TimesInv, [Next]_vars
             PROVE  TimesInv'
  OBVIOUS
<1>1. ASSUME NEW p \in Procs, AssembleStep(p)
      PROVE  TimesInv'
  BY <1>1, ReadingKeepsTimes, CommitKeepsTimes, LeavingKeepsTimes DEF AssembleStep
<1>2. CASE SweepLitter \/ SidecarAges \/ LockAges \/ UNCHANGED vars
  <2>1. UNCHANGED <<spool, corrupt, json, recorded, clock, seq, lastEnded, append, alive,
       closed, pc, job, crashes>>
    BY <1>2 DEF SweepLitter, SidecarAges, LockAges, vars, files, session, history
  <2> QED
    BY <2>1 DEF TimesInv, OrderInv, DocumentsInv, CarriedBy, Carries, Honest, EndsLast, Stamped, Exists,
       InProgress, Sealed
<1> QED
  BY <1>1, <1>2, WorkerKeepsTimes, AppendKeepsTimes, RecorderKeepsTimes DEF Next, RecorderStep

\* The numbers of the spans and the times of the files stay in order: a root ends
\* last, a snapshot is stamped with the spool it read, and no document holds what
\* was not recorded.
THEOREM SpoolTimes ==
  ASSUME Kind
  PROVE  Spec => []CaptureInv
<1>1. Init => TimesInv
  BY TimesInvInit
<1>2. (Typed /\ LockInv /\ SpoolInv) /\ (Typed /\ LockInv /\ SpoolInv)' /\ TimesInv
     /\ [Next]_vars => TimesInv'
  BY TimesInvStep
<1>3. SpoolInv /\ TimesInv => CaptureInv
  BY DEF CaptureInv
<1> QED
  BY <1>1, <1>2, <1>3, SpoolInvariance, PTL DEF Spec

\* The root of a finished capture ends no earlier than any of its spans that no
\* later-recorded call overtook, in whatever order the calls end.
THEOREM SpoolRootEndsLast ==
  ASSUME Kind
  PROVE  Spec => []RootEndsLast
<1>1. CaptureInv => RootEndsLast
  BY DEF CaptureInv, TimesInv, DocumentsInv, EndsLast, EndedBy, RootEndsLast
<1> QED
  BY <1>1, SpoolTimes, PTL

\* While a stamped snapshot lacks a span of the spool its file is older than it.
THEOREM SpoolGateHonest ==
  ASSUME Kind
  PROVE  Spec => []GateHonest
<1>1. Typed /\ CaptureInv => GateHonest
  <2> SUFFICES ASSUME Typed, SpoolInv, TimesInv, InProgress, Stamped(json),
                      ~(spool.spans \subseteq json.spans)
               PROVE  2 * spool.mtime + 1 > json.mtime
    BY DEF GateHonest, CaptureInv
  <2>1. Exists(spool)
    BY DEF SpoolInv, KeptInv, InProgress
  <2>2. json.mtime \in Nat /\ spool.mtime \in Nat
    BY Numbers DEF Typed
  <2> QED
    BY <2>1, <2>2 DEF TimesInv, DocumentsInv, Honest
<1> QED
  BY <1>1, SpoolInvariance, SpoolTimes, PTL

\* Who commits a document: the only steps that write the capture's file.
LEMMA JsonWriters ==
  ASSUME TypeOK, [Next]_vars, json' # json
  PROVE  \E p \in Procs : Rename(p) \/ StampSnapshot(p)
<1> USE DEF files, session, history
<1>1. ASSUME NEW p \in Procs, AssembleStep(p)
      PROVE  Rename(p) \/ StampSnapshot(p)
  BY <1>1
     DEF AssembleStep, StatSpool, ReadSpool, FlushTmp, AwaitLock, LockStuck, LockFails,
         SnapshotCheck, FinalizeCheck, HealCheck, StampFails, ConsumeSpool, RemoveSidecar,
         AssembleFails, LeaveLock, RemoveLock
<1>2. ASSUME NEW w \in Workers, WorkerStep(w)
      PROVE  FALSE
  BY <1>2 DEF WorkerStep, RecoverDead, SetAside, RemoveSidecarAside, Snapshot, HealStranded, Crash
<1>3. CASE RecorderStep
  BY <1>3 DEF RecorderStep, AppendStep, Record, SetEnded, AppendStat, AppendGate, AppendTouch, AppendOpen,
     AppendWrite, AppendTorn, AppendFails, WriteTo, HeartbeatCheck, HeartbeatTouch, Finalize,
     Drain, ReleaseOwnership, RecorderDies, unchangedByAppend
<1>4. CASE SweepLitter \/ SidecarAges \/ LockAges \/ UNCHANGED vars
  BY <1>4 DEF SweepLitter, SidecarAges, LockAges, vars
<1> QED
  BY SMTT(60), <1>1, <1>2, <1>3, <1>4 DEF Next

\* A stamp changes the time of the file and nothing in it.
LEMMA StampOnly ==
  ASSUME TypeOK, NEW p \in Procs, StampSnapshot(p)
  PROVE  json'.phase = json.phase /\ json'.spans = json.spans
BY Shape DEF StampSnapshot, Documents

\* A commit replaces a finished document only by one with all of its spans, and
\* by one in progress only while the spool can be assembled again.
LEMMA CommitKeepsSpans ==
  ASSUME Typed, SpoolInv, TimesInv, NEW p \in Procs, Rename(p), json.phase = "finished"
  PROVE  /\ json.spans \subseteq json'.spans
         /\ json'.phase = "finished" \/ (Exists(spool) /\ ~Refused(spool))
<1>1. PassOf(p) /\ CarriedBy(p) /\ DocumentsInv /\ pc[p] = "rename" /\ json' = job[p].tmp
  BY DEF SpoolInv, PassInv, TimesInv, Rename
<1>2. Exists(spool) /\ json.spans \subseteq spool.spans
  BY <1>1 DEF PassOf, DocumentsInv
<1>3. CASE job[p].mode = "finalize"
  BY <1>1, <1>2, <1>3 DEF PassOf, Carries
<1>4. CASE job[p].mode = "snapshot"
  <2>1. job[p].before = 2 * clock + 2
    BY <1>1, <1>4 DEF CarriedBy, DocumentsInv
  <2> QED
    BY <1>1, <1>2, <1>4, <2>1 DEF CarriedBy, Carries, PassOf
<1> QED
  BY <1>1, <1>3, <1>4 DEF PassOf

\* A finished capture never loses a span to a later commit.
THEOREM SpoolFinishedKeepsSpans ==
  ASSUME Kind
  PROVE  Spec => FinishedKeepsSpans
<1>1. Typed /\ CaptureInv /\ [Next]_vars
        => [json.phase = "finished" => json.spans \subseteq json'.spans]_json
  BY JsonWriters, StampOnly, CommitKeepsSpans DEF Typed, CaptureInv
<1> QED
  BY <1>1, SpoolInvariance, SpoolTimes, PTL DEF Spec, FinishedKeepsSpans

\* Once its spool is consumed nothing shows a finished capture in progress again.
THEOREM SpoolFinishedSurvives ==
  ASSUME Kind
  PROVE  Spec => FinishedSurvives
<1>1. Typed /\ CaptureInv /\ [Next]_vars
        => [json.phase = "finished" /\ (Exists(spool) => Refused(spool))
              => json'.phase = "finished"]_json
  <2>1. ASSUME TypeOK, NEW p \in Procs, StampSnapshot(p), json.phase = "finished"
        PROVE  json'.phase = "finished"
    BY <2>1, StampOnly
  <2> QED
    BY <2>1, JsonWriters, CommitKeepsSpans DEF Typed, CaptureInv
<1> QED
  BY <1>1, SpoolInvariance, SpoolTimes, PTL DEF Spec, FinishedSurvives

-----------------------------------------------------------------------------
(* The promise: the protocol implements the abstract capture.              *)

\* The capture as other commands see it.
Shown ==
  IF json.phase # "none"
    THEN [phase |-> IF Exists(spool) THEN "live" ELSE json.phase, spans |-> json.spans]
  ELSE [phase |-> IF Exists(corrupt) THEN "aside" ELSE "none", spans |-> corrupt.spans]

\* The steps of the promise, in the protocol's terms.
CanGoOn == Shown.phase \in {"none", "live"}

PromisedStep ==
  \/ UNCHANGED <<recorded, Shown>>
  \/ CanGoOn /\ Shown' = Shown /\ \E s \in Spans \ recorded : recorded' = recorded \union {s}
  \/ CanGoOn /\ recorded' = recorded
       /\ \E S \in SUBSET recorded : Shown' = [phase |-> "live", spans |-> S]
  \/ CanGoOn /\ recorded' = recorded /\ Shown' = [phase |-> "finished", spans |-> recorded]
  \/ Shown.phase = "none" /\ recorded' = recorded
       /\ Shown' = [phase |-> "aside", spans |-> recorded]

\* They are those of the abstract capture.
LEMMA PromisedStepIsCaptureStep == PromisedStep => [Promise!CaptureNext]_(Promise!captureVars)
<1> SUFFICES ASSUME PromisedStep
             PROVE  [Promise!CaptureNext]_(Promise!captureVars)
  OBVIOUS
<1>1. CASE UNCHANGED <<recorded, Shown>>
  BY <1>1 DEF Shown, Promise!captureVars
<1>2. CASE CanGoOn /\ Shown' = Shown /\ \E s \in Spans \ recorded : recorded' = recorded \union {s}
  <2>1. PICK s \in Spans : s \notin recorded /\ recorded' = recorded \union {s}
    BY <1>2
  <2>2. Promise!Keep(s)
    BY <1>2, <2>1 DEF Shown, CanGoOn, Promise!Keep, Promise!Open
  <2> QED
    BY <2>2 DEF Promise!CaptureNext
<1>3. CASE CanGoOn /\ recorded' = recorded
             /\ \E S \in SUBSET recorded : Shown' = [phase |-> "live", spans |-> S]
  <2>1. PICK S \in SUBSET recorded : Shown' = [phase |-> "live", spans |-> S]
    BY <1>3
  <2>2. Promise!Show(S)
    BY <1>3, <2>1 DEF Shown, CanGoOn, Promise!Show, Promise!Open, Promise!Doc
  <2> QED
    BY <2>2 DEF Promise!CaptureNext
<1>4. CASE CanGoOn /\ recorded' = recorded /\ Shown' = [phase |-> "finished", spans |-> recorded]
  <2>1. Promise!Finish
    BY <1>4 DEF Shown, CanGoOn, Promise!Finish, Promise!Open, Promise!Doc
  <2> QED
    BY <2>1 DEF Promise!CaptureNext
<1>5. CASE Shown.phase = "none" /\ recorded' = recorded
             /\ Shown' = [phase |-> "aside", spans |-> recorded]
  <2>1. Promise!PutAside
    BY <1>5 DEF Shown, Promise!PutAside, Promise!Doc
  <2> QED
    BY <2>1 DEF Promise!CaptureNext
<1> QED
  BY <1>1, <1>2, <1>3, <1>4, <1>5 DEF PromisedStep

\* While its spool is there a capture can still go on.
LEMMA SpoolOpen ==
  ASSUME TimesInv, Exists(spool)
  PROVE  /\ CanGoOn
         /\ json.phase = "none" => Shown.phase = "none"
         /\ json.phase # "none" => Shown = [phase |-> "live", spans |-> json.spans]
BY DEF TimesInv, DocumentsInv, CanGoOn, Shown

\* Each step of the protocol is one the promise allows, or shows nothing.
LEMMA StepIsPromised ==
  ASSUME Kind, Typed, LockInv, SpoolInv, SpoolInv', TimesInv, [Next]_vars
  PROVE  PromisedStep
<1> USE DEF files, session, history, otherThanAttempts
<1>0. /\ TypeOK /\ RecorderInv /\ KeptInv /\ OrderInv /\ DocumentsInv
      /\ json.phase \in {"none", "live", "finished"}
  BY Shape DEF Typed, SpoolInv, TimesInv, Documents
<1>1. ASSUME UNCHANGED <<spool, corrupt, json, recorded>>
      PROVE  PromisedStep
  BY SMTT(60), <1>1 DEF PromisedStep, Shown, Exists
<1>2. ASSUME NEW p \in Procs, AssembleStep(p)
      PROVE  PromisedStep
  <2>0. PassOf(p) /\ CarriedBy(p)
    BY DEF SpoolInv, PassInv, TimesInv
  <2>1. CASE Rename(p)
    <3>1. /\ json' = job[p].tmp /\ pc[p] = "rename" /\ Exists(spool)
          /\ UNCHANGED <<spool, recorded>>
      BY <2>0, <2>1 DEF Rename, PassOf
    <3>2. job[p].tmp.phase # "none" /\ job[p].tmp.spans \subseteq recorded
      BY <2>0, <3>1 DEF PassOf, Carries, CarriedBy
    <3>3. Shown' = [phase |-> "live", spans |-> job[p].tmp.spans]
      BY <3>1, <3>2 DEF Shown, Exists
    <3> QED
      BY <3>1, <3>2, <3>3, SpoolOpen DEF PromisedStep
  <2>2. CASE StampSnapshot(p)
    <3>1. UNCHANGED <<spool, corrupt, recorded>>
      BY <2>2 DEF StampSnapshot
    <3> QED
      BY <1>0, <2>2, <3>1, StampOnly DEF PromisedStep, Shown, Exists
  <2>3. CASE ConsumeSpool(p)
    <3>1. /\ json.phase = "finished" /\ spool' = NoFile /\ ~Exists(spool')
          /\ UNCHANGED <<json, corrupt, recorded>>
      BY <2>0, <2>3 DEF ConsumeSpool, PassOf, NoFile, Exists
    <3>2. json.spans = recorded
      BY <1>0, <3>1 DEF KeptInv, DocumentsInv
    <3>3. Shown' = [phase |-> "finished", spans |-> recorded]
      BY <3>1, <3>2 DEF Shown, Exists
    <3>4. CASE Exists(spool)
      BY <3>1, <3>3, <3>4, SpoolOpen DEF PromisedStep
    <3>5. CASE ~Exists(spool)
      BY <3>1, <3>5 DEF PromisedStep, Shown, Exists
    <3> QED
      BY <3>4, <3>5
  <2> QED
    BY <1>1, <1>2, <2>1, <2>2, <2>3 DEF AssembleStep, StatSpool, ReadSpool, FlushTmp, AwaitLock,
       LockStuck, LockFails, SnapshotCheck, FinalizeCheck, HealCheck, StampFails,
       RemoveSidecar, AssembleFails, LeaveLock, RemoveLock
<1>3. ASSUME NEW w \in Workers, SetAside(w)
      PROVE  PromisedStep
  <2>0. PassOf(w) /\ UNCHANGED <<json, recorded>> /\ pc[w] = "aside"
    BY <1>3 DEF SpoolInv, PassInv, Workers, SetAside
  <2>1. CASE ~Exists(spool)
    BY <1>1, <1>3, <2>0, <2>1 DEF SetAside
  <2>2. CASE Exists(spool)
    <3>1. /\ corrupt' = spool /\ spool' = NoFile /\ Refused(spool) /\ Exists(corrupt')
          /\ ~Exists(spool')
      BY <1>3, <2>0, <2>2 DEF SetAside, PassOf, NoFile, Exists
    <3>2. json.phase # "live"
      BY <1>0, <3>1 DEF KeptInv
    <3>3. CASE json.phase = "none"
      <4>1. spool.spans = recorded
        BY <1>0, <2>2 DEF KeptInv, DocumentsInv
      <4>2. Shown' = [phase |-> "aside", spans |-> recorded]
        BY <2>0, <3>1, <3>3, <4>1 DEF Shown, Exists
      <4> QED
        BY <2>0, <2>2, <3>3, <4>2, SpoolOpen DEF PromisedStep
    <3>4. CASE json.phase = "finished"
      <4>1. json.spans = recorded
        BY <1>0, <3>4 DEF KeptInv, DocumentsInv
      <4>2. Shown' = [phase |-> "finished", spans |-> recorded]
        BY <2>0, <3>1, <3>4, <4>1 DEF Shown, Exists
      <4> QED
        BY <2>0, <2>2, <4>2, SpoolOpen DEF PromisedStep
    <3> QED
      BY <1>0, <3>2, <3>3, <3>4
  <2> QED
    BY <2>1, <2>2
<1>4. ASSUME NEW w \in Workers, WorkerStep(w)
      PROVE  PromisedStep
  BY <1>1, <1>3, <1>4 DEF WorkerStep, RecoverDead, RemoveSidecarAside, Snapshot, HealStranded, Crash
<1>5. CASE AppendOpen
  <2>1. UNCHANGED <<json, corrupt, recorded>> /\ ~Sealed
    BY <1>5 DEF AppendOpen, unchangedByAppend, Sealed
  <2>2. CASE Exists(spool)
    BY <1>1, <1>5, <2>1, <2>2 DEF AppendOpen
  <2>3. CASE ~Exists(spool)
    <3>1. json.phase = "none"
      BY <1>0, <2>1, <2>3 DEF KeptInv
    <3> QED
      BY <2>1, <3>1 DEF PromisedStep, Shown, Exists
  <2> QED
    BY <2>2, <2>3
<1>6. ASSUME NEW whole \in BOOLEAN, NEW hdr, WriteTo(whole, hdr)
      PROVE  UNCHANGED Shown /\ CanGoOn /\ seq \in Spans /\ seq \notin recorded
  <2>1. append.step = "write" /\ Exists(spool) /\ append.fd = spool.ino /\ corrupt = NoFile
        /\ json' = json
    BY <1>0, <1>6 DEF WriteTo, RecorderInv, Sealed
  <2>2. corrupt' = corrupt /\ spool' = Extended(spool, seq, whole, hdr)
    BY <1>6, <2>1 DEF WriteTo, Exists, NoFile
  <2>3. spool'.ino = spool.ino
    BY <1>0, <2>2, Shape DEF Extended, Files
  <2>4. UNCHANGED Shown
    BY <2>1, <2>2, <2>3 DEF Shown, Exists
  <2>5. seq \in Spans /\ seq \notin recorded
    BY <1>0, <2>1, Shape, Numbers, BoundsAssumption DEF Typed, AppendNumbered, OrderInv, Spans
  <2> QED
    BY <2>1, <2>4, <2>5, SpoolOpen
<1>7. CASE AppendWrite
  <2>1. recorded' = recorded \union {seq} /\ WriteTo(TRUE, append.lay)
    BY <1>7 DEF AppendWrite
  <2> QED
    BY <1>6, <2>1 DEF PromisedStep
<1>8. CASE AppendTorn
  <2>1. recorded' = recorded /\ \E hdr : WriteTo(FALSE, hdr)
    BY <1>8 DEF AppendTorn
  <2> QED
    BY <1>6, <2>1 DEF PromisedStep
<1>9. CASE RecorderStep
  BY <1>1, <1>5, <1>7, <1>8, <1>9 DEF RecorderStep, AppendStep, Record, SetEnded, AppendStat,
     AppendGate, AppendTouch, AppendFails, HeartbeatCheck, HeartbeatTouch, Finalize, Drain, ReleaseOwnership,
     RecorderDies, unchangedByAppend
<1>10. CASE SweepLitter \/ SidecarAges \/ LockAges \/ UNCHANGED vars
  BY <1>1, <1>10 DEF SweepLitter, SidecarAges, LockAges, vars
<1> QED
  BY <1>2, <1>4, <1>9, <1>10 DEF Next

\* The spool protocol implements the abstract capture.
THEOREM SpoolImplementsCapture ==
  ASSUME Kind
  PROVE  Spec => ImplementsCapture
<1>1. Init => Promise!CaptureInit
  <2> SUFFICES ASSUME Init
               PROVE  Promise!CaptureInit
    OBVIOUS
  <2>1. recorded = {} /\ json.phase = "none" /\ ~Exists(corrupt) /\ corrupt.spans = {}
    BY DEF Init, NoJson, NoFile, Exists
  <2> QED
    BY <2>1 DEF Promise!CaptureInit, Promise!NoDoc
<1>2. (Typed /\ LockInv /\ SpoolInv) /\ (Typed /\ LockInv /\ SpoolInv)' /\ CaptureInv /\ [Next]_vars
        => [Promise!CaptureNext]_(Promise!captureVars)
  BY StepIsPromised, PromisedStepIsCaptureStep DEF CaptureInv
<1> QED
  BY <1>1, <1>2, SpoolInvariance, SpoolTimes, PTL DEF Spec, ImplementsCapture, Promise!CaptureSpec
=============================================================================
