----------------------------- MODULE TapRouter ------------------------------
(***************************************************************************)
(* The always-on tap (src/go/internal/tap: router.go, and ServeHTTP and    *)
(* Serve of server.go): HTTP calls are routed to sessions by key, idle     *)
(* sessions are swept and finalized in goroutines of their own, and the    *)
(* shutdown stops intake, drains the calls in flight and finalizes the     *)
(* rest.                                                                   *)
(*                                                                         *)
(* An action is a critical section of the router's mutex, a WaitGroup      *)
(* operation or a wait: handlers, the sweeper, the finalizers and the      *)
(* shutdown interleave between them.  What a finalizer does to the files   *)
(* is module Spool; here Session.Finalize closes the session, then saves   *)
(* it.  Time is one bit per key, `stale': its latest call started more     *)
(* than the idle gap ago.  Wrapper mode (slink dev), where one session     *)
(* replaces the router, and calls that are passed through unrecorded are   *)
(* left out.                                                               *)
(***************************************************************************)
EXTENDS Naturals

CONSTANTS
  Keys,         \* values of the session header; "ambient" is one of them
  Calls,        \* bound: the calls made
  MaxSessions,  \* bound: the sessions made
  MayTimeOut    \* can the bounded waits of the shutdown expire?

ASSUME RouterAssumption == MaxSessions \in Nat /\ MayTimeOut \in BOOLEAN

VARIABLES
  open,              \* Router.open: the session of each key, or None
  stale,             \* the keys whose session has been idle for too long
  made,              \* sessions are numbered in the order they are made
  busy,              \* Session.pending: the calls between Begin and End of each session
  finalizing,        \* the sessions counted by Router.finalizing
  closed, saved,     \* the sessions that refuse spans; those whose Finalize returned
  ticked,            \* the sweeper has received a tick, and sweeps next
  swept, collected,  \* what Sweep and FinalizeAll took out of the map, not yet spawned
  call,              \* the step of each handler, its key and its session
  kept, dropped,     \* calls recorded, and calls that met a closed session
  server,            \* the phase of Serve
  gaveUp             \* one of the shutdown's waits expired

routing == <<open, stale, made, busy>>
ending == <<finalizing, closed, saved, ticked, swept, collected>>
recording == <<kept, dropped>>
serving == <<server, gaveUp>>
vars == <<routing, ending, call, recording, serving>>

-----------------------------------------------------------------------------
None == 0
Sessions == 1 .. MaxSessions
Made == 1 .. made
At(c) == call[c].at
Move(c, step) == call' = [call EXCEPT ![c].at = step]
Running == server # "exited"

\* The calls counted by Server.inflight.
InFlight == {c \in Calls : At(c) \in {"serving", "recorded"}}

\* The handler of a recordable request starts: during the graceful window too,
\* on a connection accepted before it.
Arrive(c, k) ==
  /\ server \in {"up", "stopping"} /\ At(c) = "none"
  /\ call' = [call EXCEPT ![c] = [at |-> "reading", key |-> k, session |-> None]]
  /\ UNCHANGED <<routing, ending, recording, serving>>

\* The client went away before its body was read.
ReadFails(c) ==
  /\ Running /\ At(c) = "reading"
  /\ Move(c, "done")
  /\ UNCHANGED <<routing, ending, recording, serving>>

\* The session of key k is open, has been idle for too long and serves no call.
Idle(k) == open[k] # None /\ k \in stale /\ busy[open[k]] = {}

\* A plausible bug: the handler calls Begin itself, after Route has returned.
JoinUncounted(c, s) ==
  /\ call' = [call EXCEPT ![c] = [at |-> "routed", key |-> call[c].key, session |-> s]]
  /\ busy' = busy
  /\ stale' = stale \ {call[c].key}

\* The call joins session s, Begin()-ed under the router's mutex.
Join(c, s) ==
  /\ call' = [call EXCEPT ![c] = [at |-> "routed", key |-> call[c].key, session |-> s]]
  /\ busy' = [busy EXCEPT ![s] = @ \union {c}]
  /\ stale' = stale \ {call[c].key}

\* Route, the body read: the call joins the open session of its key, or a new one
\* when there is none or a finalizer takes it because it is idle.
RouteToOpen(c) ==
  LET k == call[c].key
  IN  /\ Running /\ At(c) = "reading"
      /\ open[k] # None /\ ~Idle(k)
      /\ Join(c, open[k])
      /\ UNCHANGED <<open, made, ending, recording, serving>>

RouteToNew(c) ==
  LET k == call[c].key
  IN  /\ Running /\ At(c) = "reading" /\ made < MaxSessions
      /\ open[k] = None \/ Idle(k)
      /\ made' = made + 1
      /\ open' = [open EXCEPT ![k] = made + 1]
      /\ finalizing' = finalizing \union ({open[k]} \ {None})
      /\ Join(c, made + 1)
      /\ UNCHANGED <<closed, saved, ticked, swept, collected, recording, serving>>

\* inflight.Add(1), two statements after Route.
Count(c) ==
  /\ Running /\ At(c) = "routed"
  /\ Move(c, "serving")
  /\ UNCHANGED <<routing, ending, recording, serving>>

\* The response has been relayed, or failed: Session.Record keeps the span
\* unless the session was closed under it.
Record(c) ==
  /\ Running /\ At(c) = "serving"
  /\ Move(c, "recorded")
  /\ IF call[c].session \in closed
       THEN dropped' = dropped \union {c} /\ UNCHANGED kept
       ELSE kept' = kept \union {c} /\ UNCHANGED dropped
  /\ UNCHANGED <<routing, ending, serving>>

\* The request for the upstream cannot be made: the handler returns without a span.
Unrecorded(c) ==
  /\ Running /\ At(c) = "serving"
  /\ Move(c, "recorded")
  /\ UNCHANGED <<routing, ending, recording, serving>>

\* The deferred calls: inflight.Done, then session.End.
Uncount(c) ==
  /\ Running /\ At(c) = "recorded"
  /\ Move(c, "leaving")
  /\ UNCHANGED <<routing, ending, recording, serving>>

\* A plausible bug: an early return that forgets End.
EndForgotten(c) ==
  /\ Running /\ At(c) = "leaving"
  /\ Move(c, "done")
  /\ UNCHANGED <<routing, ending, recording, serving>>

End(c) ==
  /\ Running /\ At(c) = "leaving"
  /\ Move(c, "done")
  /\ busy' = [busy EXCEPT ![call[c].session] = @ \ {c}]
  /\ UNCHANGED <<open, stale, made, ending, recording, serving>>

-----------------------------------------------------------------------------
IdlePasses(k) ==
  /\ Running /\ open[k] # None /\ k \notin stale
  /\ stale' = stale \union {k}
  /\ UNCHANGED <<open, made, busy, ending, call, recording, serving>>

\* The sweeper's ticker fires; the tick may be acted upon long after, even when
\* the shutdown has begun.
Tick ==
  /\ server = "up" /\ ~ticked /\ swept = {}
  /\ ticked' = TRUE
  /\ UNCHANGED <<routing, finalizing, closed, saved, swept, collected, call, recording,
                 serving>>

\* A plausible bug: the swept sessions stay in the map.
SweepKeeps ==
  /\ Running /\ ticked
  /\ ticked' = FALSE
  /\ swept' = {open[k] : k \in {l \in Keys : Idle(l)}}
  /\ UNCHANGED <<routing, finalizing, closed, saved, collected, call, recording, serving>>

\* Sweep: under the mutex it takes the idle sessions out of the map; it spawns
\* their finalizers after unlocking.
Sweep ==
  /\ Running /\ ticked
  /\ ticked' = FALSE
  /\ swept' = {open[k] : k \in {l \in Keys : Idle(l)}}
  /\ open' = [k \in Keys |-> IF Idle(k) THEN None ELSE open[k]]
  /\ UNCHANGED <<stale, made, busy, finalizing, closed, saved, collected, call,
                 recording, serving>>

SpawnSwept(s) ==
  /\ Running /\ s \in swept
  /\ swept' = swept \ {s}
  /\ finalizing' = finalizing \union {s}
  /\ UNCHANGED <<routing, closed, saved, ticked, collected, call, recording, serving>>

\* Session.Finalize in its goroutine: close, then assemble and commit.
Close(s) ==
  /\ Running /\ s \in finalizing \ closed
  /\ closed' = closed \union {s}
  /\ UNCHANGED <<routing, finalizing, saved, ticked, swept, collected, call, recording,
                 serving>>

Save(s) ==
  /\ Running /\ s \in finalizing \intersect closed
  /\ saved' = saved \union {s}
  /\ finalizing' = finalizing \ {s}
  /\ UNCHANGED <<routing, closed, ticked, swept, collected, call, recording, serving>>

-----------------------------------------------------------------------------
\* The phases of Serve, once its context is done.
Phase(from, to) == server = from /\ server' = to

\* A bounded wait for P.
WaitFor(P) == (P /\ UNCHANGED gaveUp) \/ (MayTimeOut /\ gaveUp' = TRUE)

\* close(done): the ticker goroutine starts no further sweep; Shutdown: no new
\* connection is accepted.
Stop ==
  /\ Phase("up", "stopping")
  /\ UNCHANGED <<routing, ending, call, recording, gaveUp>>

\* A plausible bug: Close in the place of Shutdown, which waits for no handler.
HandlersLeft ==
  /\ Phase("stopping", "draining")
  /\ UNCHANGED <<routing, ending, call, recording, gaveUp>>

\* Shutdown returns when every handler has, or after 5 s and the forced Close.
HandlersGone ==
  /\ Phase("stopping", "draining")
  /\ WaitFor(\A c \in Calls : At(c) \in {"none", "done"})
  /\ UNCHANGED <<routing, ending, call, recording>>

\* waitTimeout(&s.inflight, 5 s).
Drained ==
  /\ Phase("draining", "drained")
  /\ WaitFor(InFlight = {})
  /\ UNCHANGED <<routing, ending, call, recording>>

\* A plausible bug: the entries of the map that were emptied are taken too.
CollectEmptied ==
  /\ Phase("drained", "collecting")
  /\ collected' = {open[k] : k \in Keys}
  /\ open' = [k \in Keys |-> None]
  /\ UNCHANGED <<stale, made, busy, finalizing, closed, saved, ticked, swept, call,
                 recording, gaveUp>>

\* FinalizeAll: everything out of the map under the mutex, then spawned.
Collect ==
  /\ Phase("drained", "collecting")
  /\ collected' = {open[k] : k \in Keys} \ {None}
  /\ open' = [k \in Keys |-> None]
  /\ UNCHANGED <<stale, made, busy, finalizing, closed, saved, ticked, swept, call,
                 recording, gaveUp>>

SpawnCollected(s) ==
  /\ Running /\ s \in collected
  /\ collected' = collected \ {s}
  /\ finalizing' = finalizing \union {s}
  /\ UNCHANGED <<routing, closed, saved, ticked, swept, call, recording, serving>>

\* finalizing.Wait() returns, or Serve stops waiting after 15 s.
Finalized ==
  /\ Phase("collecting", "finalized")
  /\ WaitFor(collected = {} /\ finalizing = {})
  /\ UNCHANGED <<routing, ending, call, recording>>

\* Serve returns and the process exits.
Exit ==
  /\ Phase("finalized", "exited")
  /\ UNCHANGED <<routing, ending, call, recording, gaveUp>>

-----------------------------------------------------------------------------
Init ==
  /\ open = [k \in Keys |-> None] /\ stale = {} /\ made = 0
  /\ busy = [s \in Sessions |-> {}]
  /\ finalizing = {} /\ closed = {} /\ saved = {} /\ ticked = FALSE
  /\ swept = {} /\ collected = {}
  /\ call = [c \in Calls |-> [at |-> "none", key |-> None, session |-> None]]
  /\ kept = {} /\ dropped = {} /\ server = "up" /\ gaveUp = FALSE

Handle(c) ==
  ReadFails(c) \/ RouteToOpen(c) \/ RouteToNew(c) \/ Count(c) \/ Record(c)
  \/ Unrecorded(c) \/ Uncount(c) \/ End(c)

Finalize(s) == SpawnSwept(s) \/ SpawnCollected(s) \/ Close(s) \/ Save(s)

Shutdown == Stop \/ HandlersGone \/ Drained \/ Collect \/ Finalized \/ Exit

Next ==
  \/ \E c \in Calls : Handle(c) \/ \E k \in Keys : Arrive(c, k)
  \/ \E k \in Keys : IdlePasses(k)
  \/ Tick \/ Sweep
  \/ \E s \in Sessions : Finalize(s)
  \/ Shutdown

Spec == Init /\ [][Next]_vars

\* Handlers and finalizers are goroutines that go on, an upstream answers in the
\* end, time passes, the sweep's ticker fires, and a shutdown begun goes on.
Fairness ==
  /\ \A c \in Calls : WF_vars(Handle(c))
  /\ \A k \in Keys : WF_vars(IdlePasses(k))
  /\ WF_vars(Tick) /\ WF_vars(Sweep)
  /\ \A s \in Sessions : WF_vars(Finalize(s))
  /\ WF_vars(HandlersGone \/ Drained \/ Collect \/ Finalized \/ Exit)

FairSpec == Spec /\ Fairness

-----------------------------------------------------------------------------
CallSteps == {"none", "reading", "routed", "serving", "recorded", "leaving", "done"}

RouterTypeOK ==
  /\ open \in [Keys -> Made \union {None}] /\ stale \subseteq Keys
  /\ made \in 0 .. MaxSessions /\ busy \in [Sessions -> SUBSET Calls]
  /\ finalizing \subseteq Made /\ closed \subseteq Made /\ saved \subseteq Made
  /\ ticked \in BOOLEAN /\ swept \subseteq Made /\ collected \subseteq Made
  /\ call \in [Calls -> [at : CallSteps, key : Keys \union {None},
                         session : Sessions \union {None}]]
  /\ \A c \in Calls : At(c) # "none" => call[c].key \in Keys
  /\ kept \subseteq Calls /\ dropped \subseteq Calls
  /\ server \in {"up", "stopping", "draining", "drained", "collecting", "finalized",
                "exited"}
  /\ gaveUp \in BOOLEAN

Opened == {open[k] : k \in Keys} \ {None}

\* A session is finalized once, and none is lost track of: each is at every moment
\* in one place, open for one key, taken out by the sweep or by the shutdown, in a
\* finalizer, or saved.
OwnedOnce ==
  /\ \A k, l \in Keys : open[k] = open[l] /\ open[k] # None => k = l
  /\ \A s \in Made :
       LET homes == <<Opened, swept, collected, finalizing, saved>>
       IN  \E i \in 1 .. 5 : \A j \in 1 .. 5 : s \in homes[j] <=> j = i

\* Until the shutdown collects, a session with a call in progress stays open, so
\* that no sweep and no rollover ends it under the call, however long it streams.
BusyIsOpen ==
  server \in {"up", "stopping", "draining", "drained"} =>
    \A c \in Calls :
      At(c) \in {"routed", "serving", "recorded", "leaving"} =>
        open[call[c].key] = call[c].session

\* No recordable call meets a closed session, unless a wait of the shutdown
\* expired.
NothingDropped == dropped # {} => gaveUp

\* When no wait of the shutdown expires, no session is opened behind the collection,
\* which nobody would finalize: what is unsaved at exit is in the sweeper's hands.
NoneOpenedLate ==
  server \in {"finalized", "exited"} /\ ~gaveUp => Opened = {} /\ collected = {}

\* A shutdown whose waits do not expire leaves no recorded call behind: every
\* session is saved when the process exits.
ExitSavesAll ==
  server = "exited" /\ ~gaveUp => \A c \in kept : call[c].session \in saved

\* While the tap runs, every session is saved some time after its calls end.
AllSavedInTheEnd ==
  \A s \in Sessions : s \in Made ~> (s \in saved \/ server # "up")
=============================================================================
