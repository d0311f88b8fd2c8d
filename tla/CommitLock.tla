----------------------------- MODULE CommitLock -----------------------------
(***************************************************************************)
(* The commit mutex of one capture: the file <capture>.json.lock that      *)
(* withCommitLock (src/go/internal/spool/engine.go) creates with O_EXCL,   *)
(* waits for, breaks by rename once it is older than LockBreakAge (30 s),  *)
(* and removes if it still holds the caller's token.                       *)
(*                                                                         *)
(* A process is "out", waiting ("wait"), about to rename a lock it saw to  *)
(* be old ("break"), running the critical section ("in"), or, having read  *)
(* its own token back, about to remove the file ("leave").                 *)
(*                                                                         *)
(* Wall-clock time is abstracted to one bit of the lock file: `old' says   *)
(* that its mtime is more than 30 s away.  Two constants name what the     *)
(* environment may do with time:                                           *)
(*   MaxStalls    bound: how often a live holder spends more than 30 s in  *)
(*                its critical section (a suspended process, a slow disk); *)
(*   PromptBreak  a process that saw an old lock renames it before anyone  *)
(*                creates a new one.  Nothing in the code enforces it: the *)
(*                os.Stat and the os.Rename are two calls.                 *)
(***************************************************************************)
EXTENDS Naturals

CONSTANTS Procs, MaxStalls, PromptBreak

ASSUME TimingAssumption == MaxStalls \in Nat /\ PromptBreak \in BOOLEAN

VARIABLES
  lock,    \* the lock file: NoLock, or its owner (the token) and its age bit
  stage,   \* where each process stands in withCommitLock
  stalls   \* counter of the bound

lockVars == <<lock, stage, stalls>>

-----------------------------------------------------------------------------
NoLock == [owner |-> {}, old |-> FALSE]
LockBy(p) == [owner |-> {p}, old |-> FALSE]
Locks == {NoLock} \union [owner : {{p} : p \in Procs}, old : BOOLEAN]

Stages == {"out", "wait", "break", "in", "leave"}

\* stillHeld: the lock file exists and its content equals the caller's token.
Held(p) == lock.owner = {p}

\* p is alive inside withCommitLock's success branch.
Inside(p) == stage[p] \in {"in", "leave"}

LockInit == lock = NoLock /\ stage = [p \in Procs |-> "out"] /\ stalls = 0

\* The call itself: the wait budget starts.
Request(p) ==
  /\ stage[p] = "out"
  /\ stage' = [stage EXCEPT ![p] = "wait"]
  /\ UNCHANGED <<lock, stalls>>

\* A plausible bug: O_CREATE without O_EXCL.
AcquireShared(p) ==
  /\ stage[p] = "wait"
  /\ lock' = LockBy(p)
  /\ stage' = [stage EXCEPT ![p] = "in"]
  /\ UNCHANGED stalls

\* os.OpenFile(lock, O_CREATE|O_EXCL): at most one creator, token written.
Acquire(p) ==
  /\ stage[p] = "wait" /\ lock = NoLock
  /\ PromptBreak => \A q \in Procs : stage[q] # "break"
  /\ lock' = LockBy(p)
  /\ stage' = [stage EXCEPT ![p] = "in"]
  /\ UNCHANGED stalls

\* The lock exists and os.Stat finds it older than LockBreakAge.
SeeOld(p) ==
  /\ stage[p] = "wait" /\ lock.old
  /\ stage' = [stage EXCEPT ![p] = "break"]
  /\ UNCHANGED <<lock, stalls>>

\* os.Rename(lock, grave) and os.Remove(grave): it moves whatever lock file is
\* there by now, and does nothing if there is none.
Break(p) ==
  /\ stage[p] = "break"
  /\ lock' = NoLock
  /\ stage' = [stage EXCEPT ![p] = "wait"]
  /\ UNCHANGED stalls

\* The deadline passed while another's young lock was there: ErrLockStuck.
GiveUp(p) ==
  /\ stage[p] = "wait" /\ lock # NoLock /\ ~lock.old
  /\ stage' = [stage EXCEPT ![p] = "out"]
  /\ UNCHANGED <<lock, stalls>>

\* fn returned; the token is read back to decide whether to remove the file.
Leave(p) ==
  /\ stage[p] = "in"
  /\ stage' = [stage EXCEPT ![p] = IF Held(p) THEN "leave" ELSE "out"]
  /\ UNCHANGED <<lock, stalls>>

\* os.Remove(lock), by path: whichever lock is there goes.
Unlink(p) ==
  /\ stage[p] = "leave"
  /\ lock' = NoLock
  /\ stage' = [stage EXCEPT ![p] = "out"]
  /\ UNCHANGED stalls

\* 30 s pass: the holder is gone, or it stalls.
Ages ==
  /\ lock # NoLock /\ ~lock.old
  /\ lock' = [lock EXCEPT !.old = TRUE]
  /\ \/ (\A p \in Procs : Held(p) => ~Inside(p)) /\ UNCHANGED stalls
     \/ stalls < MaxStalls /\ stalls' = stalls + 1
  /\ UNCHANGED stage

\* RecoverDead sweeps a lock older than ten minutes, by rename as Break does.  A
\* sweep overtaken between its stat and its rename is a Break overtaken there,
\* which PromptBreak rules out for both: one step stands for the two calls.
Sweep == lock.old /\ lock' = NoLock /\ UNCHANGED <<stage, stalls>>

\* The process dies wherever it is; its lock file stays.
Abandon(p) ==
  /\ stage' = [stage EXCEPT ![p] = "out"]
  /\ UNCHANGED <<lock, stalls>>

LockNext ==
  \/ Ages \/ Sweep
  \/ \E p \in Procs :
       \/ Request(p) \/ Acquire(p) \/ SeeOld(p) \/ Break(p) \/ GiveUp(p)
       \/ Leave(p) \/ Unlink(p) \/ Abandon(p)

LockSpec == LockInit /\ [][LockNext]_lockVars

-----------------------------------------------------------------------------
LockTypeOK == lock \in Locks /\ stage \in [Procs -> Stages] /\ stalls \in 0 .. MaxStalls

\* Commits run one at a time: no two processes are inside the critical section
\* of withCommitLock at once, whoever crashed and whichever lock was broken.
CommitMutex ==
  \A p, q \in Procs : stage[p] = "in" /\ stage[q] = "in" => p = q
=============================================================================
