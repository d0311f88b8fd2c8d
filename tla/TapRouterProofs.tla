--------------------------- MODULE TapRouterProofs ---------------------------
(***************************************************************************)
(* Proofs about TapRouter, for every set of keys and calls and any bound   *)
(* on the sessions: each session is in one place only, a session that      *)
(* serves a call stays open, and no call meets a closed session unless a   *)
(* wait of the shutdown expired.                                           *)
(***************************************************************************)
EXTENDS TapRouter, TLAPS

Early == server \in {"up", "stopping", "draining", "drained"}

\* The calls between Begin and End.
Joined(c) == At(c) \in {"routed", "serving", "recorded", "leaving"}

\* The five homes of a session partition the sessions made.
Partition ==
  /\ \A k, l \in Keys : open[k] = open[l] /\ open[k] # None => k = l
  /\ Made = Opened \union swept \union collected \union finalizing \union saved
  /\ Opened \intersect (swept \union collected \union finalizing \union saved) = {}
  /\ swept \intersect (collected \union finalizing \union saved) = {}
  /\ collected \intersect (finalizing \union saved) = {}
  /\ finalizing \intersect saved = {}

\* Only a finalizer closes a session.
ClosedInv == closed \subseteq finalizing \union saved

\* The calls of a session are the ones it counts.
CallInv ==
  \A c \in Calls :
    /\ At(c) # "none" => call[c].key \in Keys
    /\ Joined(c) => call[c].session \in Made /\ c \in busy[call[c].session]

\* The sweeper acts on a tick once the sessions of its last round are spawned; the
\* shutdown collects last, and once its waits are over no handler runs.
PhaseInv ==
  /\ ticked => swept = {}
  /\ Early => collected = {}
  /\ server \notin {"up", "stopping"} /\ ~gaveUp =>
       \A c \in Calls : At(c) \in {"none", "done"}
  /\ ~Early /\ ~gaveUp => Opened = {}
  /\ server \in {"finalized", "exited"} /\ ~gaveUp => collected = {}

\* The inductive invariant.
RouterInv ==
  /\ RouterTypeOK
  /\ Partition
  /\ ClosedInv
  /\ CallInv
  /\ PhaseInv
  /\ BusyIsOpen
  /\ NothingDropped

\* At first no session is open.
LEMMA RouterTypedInit == Init => RouterTypeOK
<1> SUFFICES ASSUME Init PROVE RouterTypeOK
  OBVIOUS
<1> USE RouterAssumption DEF Init, Sessions, Made, None, CallSteps, At
<1>1. open \in [Keys -> Made \union {None}] /\ busy \in [Sessions -> SUBSET Calls]
  OBVIOUS
<1>2. call \in [Calls -> [at : CallSteps, key : Keys \union {None},
                         session : Sessions \union {None}]]
  OBVIOUS
<1>3. \A c \in Calls : At(c) = "none"
  OBVIOUS
<1>4. made \in 0 .. MaxSessions
  OBVIOUS
<1> HIDE DEF Sessions, Made, None, CallSteps, At
<1> QED
  BY <1>1, <1>2, <1>3, <1>4 DEF RouterTypeOK

\* Every step of a request and of the router keeps the types.
LEMMA RouterTypedNext == RouterTypeOK /\ [Next]_vars => RouterTypeOK'
<1> SUFFICES ASSUME RouterTypeOK, [Next]_vars PROVE RouterTypeOK'
  OBVIOUS
<1> USE RouterAssumption DEF RouterTypeOK, Sessions, Made, None, CallSteps, At
<1>1. ASSUME NEW c \in Calls, Handle(c) PROVE RouterTypeOK'
  <2>1. CASE RouteToOpen(c)
    <3>1. call[c].key \in Keys /\ open[call[c].key] \in Sessions
      BY <2>1 DEF RouteToOpen
    <3>2. busy' \in [Sessions -> SUBSET Calls]
      BY <2>1, <3>1 DEF RouteToOpen, Join
    <3>3. /\ call' \in [Calls -> [at : CallSteps, key : Keys \union {None},
                                  session : Sessions \union {None}]]
          /\ \A d \in Calls : call'[d].at # "none" => call'[d].key \in Keys
      BY <2>1, <3>1 DEF RouteToOpen, Join
    <3> QED
      BY <2>1, <3>2, <3>3 DEF RouteToOpen, Join, recording, serving, ending
  <2>2. CASE RouteToNew(c)
    <3>1. call[c].key \in Keys /\ made + 1 \in Sessions /\ made' = made + 1
      BY <2>2 DEF RouteToNew
    <3>2. busy' \in [Sessions -> SUBSET Calls] /\ open' \in [Keys -> (Made \union {None})']
      BY <2>2, <3>1 DEF RouteToNew, Join
    <3>3. /\ call' \in [Calls -> [at : CallSteps, key : Keys \union {None},
                                  session : Sessions \union {None}]]
          /\ \A d \in Calls : call'[d].at # "none" => call'[d].key \in Keys
      BY <2>2, <3>1 DEF RouteToNew, Join
    <3>4. (finalizing \subseteq Made)'
      <4>1. open[call[c].key] \in Made \union {None} /\ made \in Nat
        BY <3>1
      <4>2. Made \subseteq 1 .. (made + 1) /\ finalizing \subseteq Made
        BY <4>1
      <4>3. finalizing' \subseteq Made
        BY <2>2, <4>1, <4>2 DEF RouteToNew
      <4> QED
        BY <3>1, <4>2, <4>3
    <3> QED
      BY <2>2, <3>1, <3>2, <3>3, <3>4 DEF RouteToNew, Join, recording, serving
  <2>3. CASE ReadFails(c) \/ Count(c) \/ Unrecorded(c) \/ Uncount(c)
    BY SMTT(60), <2>3 DEF ReadFails, Count, Unrecorded, Uncount, Move, routing, ending, recording,
                serving
  <2>4. CASE Record(c)
    BY <2>4 DEF Record, Move, routing, ending, serving
  <2>5. CASE End(c)
    BY <2>5 DEF End, Move, ending, recording, serving
  <2> QED
    BY <1>1, <2>1, <2>2, <2>3, <2>4, <2>5 DEF Handle
<1>2. ASSUME NEW c \in Calls, NEW k \in Keys, Arrive(c, k) PROVE RouterTypeOK'
  BY <1>2 DEF Arrive, routing, ending, recording, serving
<1>3. ASSUME NEW k \in Keys, IdlePasses(k) PROVE RouterTypeOK'
  BY <1>3 DEF IdlePasses, ending, recording, serving
<1>4. CASE Tick
  BY <1>4 DEF Tick, routing, recording, serving
<1>5. CASE Sweep
  BY <1>5 DEF Sweep, Idle, recording, serving
<1>6. ASSUME NEW s \in Sessions, Finalize(s) PROVE RouterTypeOK'
  BY <1>6 DEF Finalize, SpawnSwept, SpawnCollected, Close, Save, routing, recording, serving
<1>7. CASE Shutdown
  <2>1. CASE Collect
    BY <2>1 DEF Collect, Phase, recording
  <2>2. CASE Stop \/ HandlersGone \/ Drained \/ Finalized \/ Exit
    BY <2>2 DEF Stop, HandlersGone, Drained, Finalized, Exit, Phase, WaitFor, routing, ending, recording
  <2> QED
    BY <1>7, <2>1, <2>2 DEF Shutdown
<1>8. CASE UNCHANGED vars
  BY <1>8 DEF vars, routing, ending, recording, serving
<1> QED
  BY <1>1, <1>2, <1>3, <1>4, <1>5, <1>6, <1>7, <1>8 DEF Next

-----------------------------------------------------------------------------
\* At first there is nothing to own.
LEMMA RouterInvInit == Init => RouterInv
<1> SUFFICES ASSUME Init PROVE RouterInv
  OBVIOUS
<1>1. RouterTypeOK
  BY RouterTypedInit
<1>2. Partition
  BY DEF Init, Partition, Opened, Made, None
<1>3. ClosedInv /\ CallInv /\ PhaseInv /\ BusyIsOpen /\ NothingDropped
  BY DEF Init, ClosedInv, CallInv, PhaseInv, BusyIsOpen, NothingDropped, Joined, At, Early
<1> QED
  BY <1>1, <1>2, <1>3 DEF RouterInv

\* The steps of a handler that leave the sessions where they are.
LEMMA HandlerInv ==
  ASSUME RouterInv, NEW c \in Calls,
         ReadFails(c) \/ Count(c) \/ Record(c) \/ Unrecorded(c) \/ Uncount(c) \/ End(c)
  PROVE  Partition' /\ ClosedInv' /\ CallInv' /\ PhaseInv' /\ BusyIsOpen' /\ NothingDropped'
<1> USE DEF RouterInv
<1>1. /\ UNCHANGED <<open, stale, made, ending, server, gaveUp>>
      /\ At(c) \in {"reading", "routed", "serving", "recorded", "leaving"}
      /\ \E step \in CallSteps : Move(c, step)
      /\ Joined(c)' => Joined(c)
  <2> USE DEF RouterTypeOK, Move, Joined, At, CallSteps, routing, serving, recording
  <2>1. CASE ReadFails(c)
    BY <2>1 DEF ReadFails
  <2>2. CASE Count(c) \/ Record(c) \/ Unrecorded(c) \/ Uncount(c)
    BY <2>2 DEF Count, Record, Unrecorded, Uncount
  <2>3. CASE End(c)
    BY <2>3 DEF End
  <2> QED
    BY <2>1, <2>2, <2>3
<1>0. \/ UNCHANGED busy
      \/ /\ ~Joined(c)'
         /\ \A s \in Sessions : busy'[s] = busy[s] \/ busy'[s] = busy[s] \ {c}
  BY DEF ReadFails, Count, Record, Unrecorded, Uncount, End, Move, routing, Joined, At,
         RouterTypeOK
<1>2. /\ \A d \in Calls : call'[d].key = call[d].key /\ call'[d].session = call[d].session
      /\ \A d \in Calls : d # c => call'[d] = call[d]
  BY <1>1 DEF RouterTypeOK, Move
<1>3. Partition' /\ ClosedInv'
  BY <1>1 DEF Partition, ClosedInv, Opened, Made, ending
<1>4. CallInv'
  <2> SUFFICES ASSUME NEW d \in Calls
               PROVE  /\ At(d)' # "none" => call'[d].key \in Keys
                      /\ Joined(d)' => /\ call'[d].session \in Made
                                       /\ d \in busy'[call'[d].session]
    BY <1>1 DEF CallInv, ending, Made
  <2>1. At(d)' # "none" => call'[d].key \in Keys
    BY <1>1, <1>2 DEF CallInv, At
  <2>2. ASSUME Joined(d)' PROVE call'[d].session \in Made /\ d \in busy'[call'[d].session]
    <3>1. Joined(d)
      BY <1>1, <1>2, <2>2 DEF Joined, At
    <3>2. call[d].session \in Made /\ call[d].session \in Sessions
          /\ d \in busy[call[d].session]
      BY <3>1, RouterAssumption DEF CallInv, RouterTypeOK, Made, Sessions
    <3> QED
      BY <1>0, <1>2, <2>2, <3>2
  <2> QED
    BY <2>1, <2>2
<1>5. PhaseInv' /\ BusyIsOpen'
  BY <1>1, <1>2 DEF Opened, PhaseInv, BusyIsOpen, Joined, At, Early, ending
<1>6. NothingDropped'
  <2>1. CASE Record(c) /\ ~gaveUp
    <3>1. Early /\ At(c) = "serving"
      BY <2>1 DEF Record, PhaseInv, Early
    <3>2. call[c].session \in Made /\ open[call[c].key] = call[c].session /\ call[c].key \in Keys
      BY <3>1 DEF CallInv, BusyIsOpen, Joined, Early
    <3>3. call[c].session \in Opened
      BY <3>2 DEF Opened, Made, None, RouterTypeOK
    <3>4. call[c].session \notin closed
      BY <3>3 DEF Partition, ClosedInv
    <3> QED
      BY <2>1, <3>4 DEF Record, NothingDropped, serving
  <2>2. CASE ~Record(c) \/ gaveUp
    BY <2>2, <1>1 DEF ReadFails, Count, Unrecorded, Uncount, End, recording, NothingDropped
  <2> QED
    BY <2>1, <2>2
<1> QED
  BY <1>3, <1>4, <1>5, <1>6

\* A call joins session s, open for its key.
LEMMA JoinInv ==
  ASSUME RouterInv, RouterTypeOK', NEW c \in Calls, NEW s \in Sessions, Running,
         At(c) = "reading", Join(c, s), open'[call[c].key] = s, made \in 0 .. made',
         s \in Made', Partition', UNCHANGED <<closed, collected, ticked, swept, recording, serving>>,
         \A k \in Keys : \/ open'[k] = open[k]
                         \/ k = call[c].key /\ (open[k] = None \/ Idle(k))
  PROVE  CallInv' /\ PhaseInv' /\ BusyIsOpen' /\ NothingDropped'
<1> USE DEF RouterInv
<1>1. /\ \A d \in Calls : d # c => call'[d] = call[d]
      /\ call'[c] = [at |-> "routed", key |-> call[c].key, session |-> s]
      /\ call[c].key \in Keys
  BY DEF Join, At, RouterTypeOK
<1>2. /\ \A t \in Sessions : busy[t] \subseteq busy'[t]
      /\ c \in busy'[s]
  BY DEF Join, RouterTypeOK
<1>3. CallInv'
  <2> SUFFICES ASSUME NEW d \in Calls
               PROVE  /\ At(d)' # "none" => call'[d].key \in Keys
                      /\ Joined(d)' => /\ call'[d].session \in Made'
                                       /\ d \in busy'[call'[d].session]
    BY DEF CallInv
  <2>1. CASE d = c
    BY <1>1, <1>2, <2>1
  <2>2. ASSUME d # c, Joined(d)' PROVE call'[d].session \in Made' /\ d \in busy'[call'[d].session]
    <3>1. Joined(d) /\ call'[d] = call[d]
      BY <1>1, <2>2 DEF Joined, At
    <3>2. call[d].session \in Made /\ call[d].session \in Sessions
          /\ d \in busy[call[d].session]
      BY <3>1, RouterAssumption DEF CallInv, RouterTypeOK, Made, Sessions
    <3>3. Made \subseteq Made'
      BY RouterAssumption DEF Made, RouterTypeOK
    <3> QED
      BY <1>2, <3>1, <3>2, <3>3
  <2> QED
    BY <1>1, <2>1, <2>2 DEF CallInv, At
<1>4. PhaseInv'
  BY <1>1 DEF Opened, PhaseInv, At, Early, serving, RouterTypeOK
<1>5. BusyIsOpen'
  <2> SUFFICES ASSUME Early, NEW d \in Calls, Joined(d)'
               PROVE  open'[call'[d].key] = call'[d].session
    BY DEF BusyIsOpen, Early, Joined, At, serving
  <2>1. CASE d = c
    BY <1>1, <2>1
  <2>2. CASE d # c
    <3>1. Joined(d) /\ call'[d] = call[d] /\ call[d].key \in Keys
      BY <1>1, <2>2 DEF Joined, At, CallInv
    <3>2. /\ open[call[d].key] = call[d].session
          /\ call[d].session \in Made /\ d \in busy[call[d].session]
      BY <3>1 DEF BusyIsOpen, Early, Joined, CallInv
    <3>3. open[call[d].key] # None /\ ~Idle(call[d].key)
      BY <3>2 DEF Made, None, Idle, RouterTypeOK
    <3> QED
      BY <3>1, <3>2, <3>3
  <2> QED
    BY <2>1, <2>2
<1>6. NothingDropped'
  BY DEF NothingDropped, recording, serving
<1> QED
  BY <1>3, <1>4, <1>5, <1>6

\* The steps of the sweeper, the finalizers, the clock and the shutdown, and the
\* start of a handler.
LEMMA OtherInv ==
  ASSUME RouterInv, RouterTypeOK',
         \/ \E c \in Calls, k \in Keys : Arrive(c, k)
         \/ \E k \in Keys : IdlePasses(k)
         \/ Tick \/ Sweep \/ Shutdown
         \/ \E s \in Sessions : Finalize(s)
         \/ UNCHANGED vars
  PROVE  Partition' /\ ClosedInv' /\ CallInv' /\ PhaseInv' /\ BusyIsOpen' /\ NothingDropped'
<1> USE DEF RouterInv
<1>1. ASSUME NEW c \in Calls, NEW k \in Keys, Arrive(c, k)
      PROVE  Partition' /\ ClosedInv' /\ CallInv' /\ PhaseInv' /\ BusyIsOpen' /\ NothingDropped'
  <2>1. /\ UNCHANGED <<routing, ending, recording, serving>>
        /\ server \in {"up", "stopping"}
        /\ At(c)' = "reading" /\ call'[c].key = k
        /\ \A d \in Calls : d # c => call'[d] = call[d]
    BY <1>1 DEF Arrive, At, RouterTypeOK
  <2>2. Partition' /\ ClosedInv' /\ NothingDropped'
    BY <2>1 DEF Partition, ClosedInv, Opened, Made, NothingDropped, routing, ending, recording,
                serving
  <2>3. CallInv'
    BY <2>1 DEF CallInv, Joined, At, Made, routing
  <2>4. PhaseInv' /\ BusyIsOpen'
    BY <2>1 DEF Opened, PhaseInv, BusyIsOpen, At, Early, routing, ending, serving
  <2> QED
    BY <2>2, <2>3, <2>4
<1>2. CASE (\E k \in Keys : IdlePasses(k)) \/ Tick \/ UNCHANGED vars
  <2>1. /\ UNCHANGED <<open, made, busy, finalizing, closed, saved, swept, collected, call>>
        /\ ticked' => swept = {}
        /\ UNCHANGED <<recording, serving>>
    BY <1>2 DEF IdlePasses, Tick, PhaseInv, vars, routing, ending
  <2> QED
    BY <2>1 DEF Partition, ClosedInv, Opened, Made, CallInv, Joined, At, PhaseInv, BusyIsOpen,
                Early, NothingDropped, recording, serving
<1>3. CASE Sweep
  <2>1. /\ Opened' = Opened \ swept' /\ swept' \subseteq Opened
        /\ \A k, l \in Keys : open'[k] = open'[l] /\ open'[k] # None => k = l
        /\ \A k \in Keys : open'[k] = open[k] \/ Idle(k)
    BY <1>3 DEF Sweep, Partition, Opened, Idle
  <2>2. Partition' /\ ClosedInv' /\ NothingDropped'
    BY <1>3, <2>1 DEF Sweep, Partition, ClosedInv, PhaseInv, Made, NothingDropped, recording, serving
  <2>3. CallInv' /\ PhaseInv'
    BY <1>3, <2>1 DEF Sweep, CallInv, Joined, At, Made, PhaseInv, Early, serving
  <2>4. BusyIsOpen'
    <3> SUFFICES ASSUME Early, NEW c \in Calls, Joined(c)
                 PROVE  open'[call[c].key] = call[c].session
      BY <1>3 DEF Sweep, BusyIsOpen, Early, Joined, At, serving
    <3>1. /\ call[c].key \in Keys /\ call[c].session \in Made
          /\ open[call[c].key] = call[c].session /\ c \in busy[call[c].session]
      BY DEF BusyIsOpen, Early, Joined, CallInv, At
    <3> QED
      BY <2>1, <3>1 DEF Idle
  <2> QED
    BY <2>2, <2>3, <2>4
<1>4. ASSUME NEW s \in Sessions, Finalize(s)
      PROVE  Partition' /\ ClosedInv' /\ CallInv' /\ PhaseInv' /\ BusyIsOpen' /\ NothingDropped'
  <2>1. UNCHANGED <<routing, call, recording, serving>>
        /\ UNCHANGED ticked /\ collected' \subseteq collected /\ swept' \subseteq swept
    BY <1>4 DEF Finalize, SpawnSwept, SpawnCollected, Close, Save
  <2>2. Partition' /\ ClosedInv'
    BY <1>4 DEF Finalize, SpawnSwept, SpawnCollected, Close, Save, Partition, ClosedInv, Opened,
                Made, routing
  <2>3. CallInv' /\ PhaseInv' /\ BusyIsOpen' /\ NothingDropped'
    BY <2>1 DEF CallInv, Joined, At, Made, Opened, PhaseInv, BusyIsOpen, Early, NothingDropped,
                routing, recording, serving
  <2> QED
    BY <2>2, <2>3
<1>5. CASE Shutdown
  <2>1. UNCHANGED <<made, busy, finalizing, closed, saved, ticked, swept, call, recording>>
    BY <1>5 DEF Shutdown, Stop, HandlersGone, Drained, Collect, Finalized, Exit, routing, ending
  <2>2. CASE Collect
    <3>1. collected = {} /\ collected' = Opened /\ Opened' = {}
      BY <2>2 DEF Collect, Phase, PhaseInv, Early, Opened
    <3>2. Partition' /\ ClosedInv'
      BY <2>2, <3>1 DEF Collect, Partition, ClosedInv, Made
    <3> QED
      BY <2>1, <2>2, <3>1, <3>2 DEF Collect, Phase, CallInv, Joined, At, Made, PhaseInv, BusyIsOpen,
                              Early, NothingDropped, recording
  <2>3. CASE Stop \/ HandlersGone \/ Drained \/ Finalized \/ Exit
    <3>1. UNCHANGED <<open, collected>> /\ (Early' => Early) /\ Opened' = Opened
      BY <2>3 DEF Stop, HandlersGone, Drained, Finalized, Exit, Phase, Early, Opened, routing,
                  ending
    <3>2. Partition' /\ ClosedInv' /\ CallInv' /\ BusyIsOpen'
      BY <2>1, <3>1 DEF Partition, ClosedInv, Opened, Made, CallInv, Joined, At, BusyIsOpen, Early
    <3>3. PhaseInv' /\ NothingDropped'
      BY <2>1, <2>3, <3>1 DEF Stop, HandlersGone, Drained, Finalized, Exit, Phase, WaitFor,
                              PhaseInv, Early, At, NothingDropped, recording
    <3> QED
      BY <3>2, <3>3
  <2> QED
    BY <1>5, <2>2, <2>3 DEF Shutdown
<1> QED
  BY <1>1, <1>2, <1>3, <1>4, <1>5

\* Every step keeps the invariant.
LEMMA RouterInvNext == RouterInv /\ [Next]_vars => RouterInv'
<1> SUFFICES ASSUME RouterInv, [Next]_vars PROVE RouterInv'
  OBVIOUS
<1>1. RouterTypeOK'
  BY RouterTypedNext DEF RouterInv
<1>2. ASSUME NEW c \in Calls, RouteToOpen(c) PROVE RouterInv'
  <2> DEFINE k == call[c].key
  <2>1. /\ k \in Keys /\ open[k] \in Made /\ open[k] \in Sessions /\ made' = made
        /\ Running /\ At(c) = "reading" /\ Join(c, open[k])
        /\ UNCHANGED <<open, ending, recording, serving>>
    BY <1>2, RouterAssumption DEF RouteToOpen, RouterInv, RouterTypeOK, Made, None, Sessions
  <2>2. Partition' /\ ClosedInv'
    BY <2>1 DEF RouterInv, Partition, ClosedInv, Opened, Made, ending
  <2>3. made \in 0 .. made' /\ open[k] \in Made'
    BY <2>1, RouterAssumption DEF RouterInv, RouterTypeOK, Made
  <2>4. /\ \A l \in Keys : open'[l] = open[l]
        /\ UNCHANGED <<closed, collected, ticked, swept, recording, serving>>
    BY <2>1 DEF ending
  <2>5. CallInv' /\ PhaseInv' /\ BusyIsOpen' /\ NothingDropped'
    <3> PICK s \in Sessions : s = open[k]
      BY <2>1
    <3>1. Join(c, s) /\ open'[call[c].key] = s /\ s \in Made'
      BY <2>1, <2>3, <2>4
    <3> HIDE DEF k
    <3> QED
      BY <1>1, <2>1, <2>2, <2>3, <2>4, <3>1, JoinInv
  <2> QED
    BY <1>1, <2>2, <2>5 DEF RouterInv
<1>3. ASSUME NEW c \in Calls, RouteToNew(c) PROVE RouterInv'
  <2> DEFINE k == call[c].key
             s == made + 1
  <2>1. /\ k \in Keys /\ s \in Sessions /\ made' = s /\ made \in 0 .. s /\ s \in Made'
        /\ Running /\ At(c) = "reading" /\ Join(c, s)
        /\ open[k] \in Made \union {None} /\ (open[k] = None \/ Idle(k))
        /\ open' = [open EXCEPT ![k] = s]
        /\ finalizing' = finalizing \union ({open[k]} \ {None})
        /\ UNCHANGED <<closed, saved, ticked, swept, collected, recording, serving>>
    BY <1>3, RouterAssumption DEF RouteToNew, RouterInv, RouterTypeOK, Made, Sessions
  <2>2. Made' = Made \union {s} /\ s \notin Made /\ s # None
    BY <2>1, RouterAssumption DEF RouterInv, RouterTypeOK, Made, None
  <2>3. \A l \in Keys : open[l] \in Made \union {None} /\ open'[l] = IF l = k THEN s ELSE open[l]
    BY <2>1 DEF RouterInv, RouterTypeOK
  <2>4. Opened' = (Opened \ {open[k]}) \union {s}
    BY <2>1, <2>2, <2>3 DEF RouterInv, Partition, Opened
  <2>5. Partition' /\ ClosedInv'
    <3>1. \A l, m \in Keys : open'[l] = open'[m] /\ open'[l] # None => l = m
      BY <2>2, <2>3 DEF RouterInv, Partition
    <3>2. /\ open[k] = None \/ open[k] \in Opened
          /\ None \notin Opened /\ Opened \subseteq Made
      BY <2>1, <2>3 DEF Opened
    <3> QED
      BY <2>1, <2>2, <2>4, <3>1, <3>2 DEF RouterInv, Partition, ClosedInv
  <2>6. CallInv' /\ PhaseInv' /\ BusyIsOpen' /\ NothingDropped'
    BY <1>1, <2>1, <2>3, <2>5, JoinInv DEF Join, Idle, At, Running
  <2> QED
    BY <1>1, <2>5, <2>6 DEF RouterInv
<1>4. ASSUME NEW c \in Calls,
             ReadFails(c) \/ Count(c) \/ Record(c) \/ Unrecorded(c) \/ Uncount(c) \/ End(c)
      PROVE  RouterInv'
  BY <1>1, <1>4, HandlerInv DEF RouterInv
<1>5. CASE \/ \E c \in Calls, k \in Keys : Arrive(c, k)
           \/ \E k \in Keys : IdlePasses(k)
           \/ Tick \/ Sweep \/ Shutdown
           \/ \E s \in Sessions : Finalize(s)
           \/ UNCHANGED vars
  BY <1>1, <1>5, OtherInv DEF RouterInv
<1> QED
  BY <1>2, <1>3, <1>4, <1>5 DEF Next, Handle

\* The tap always satisfies its inductive invariant, its typing included.
THEOREM RouterInvariance == Spec => []RouterInv
  BY RouterInvInit, RouterInvNext, PTL DEF Spec

\* The router's maps, its sessions, its calls and its shutdown keep their types.
THEOREM RouterTypes == Spec => []RouterTypeOK
<1>1. RouterInv => RouterTypeOK
  BY DEF RouterInv
<1> QED
  BY <1>1, RouterInvariance, PTL

\* No session is finalized twice or lost track of.
THEOREM RouterOwnedOnce == Spec => []OwnedOnce
<1>1. RouterInv => OwnedOnce
  BY DEF RouterInv, Partition, OwnedOnce
<1> QED
  BY <1>1, RouterInvariance, PTL

\* No sweep, rollover or early shutdown takes a session that serves a call.
THEOREM RouterBusyIsOpen == Spec => []BusyIsOpen
<1>1. RouterInv => BusyIsOpen
  BY DEF RouterInv
<1> QED
  BY <1>1, RouterInvariance, PTL

\* A shutdown whose waits do not expire leaves no open session behind.
THEOREM RouterNoneOpenedLate == Spec => []NoneOpenedLate
<1>1. RouterInv => NoneOpenedLate
  BY DEF RouterInv, PhaseInv, NoneOpenedLate, Early
<1> QED
  BY <1>1, RouterInvariance, PTL

\* A call meets a closed session only after a wait of the shutdown expired.
THEOREM RouterNothingDropped == Spec => []NothingDropped
<1>1. RouterInv => NothingDropped
  BY DEF RouterInv
<1> QED
  BY <1>1, RouterInvariance, PTL

=============================================================================
