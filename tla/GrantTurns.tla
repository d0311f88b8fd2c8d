------------------------------ MODULE GrantTurns ------------------------------
(***************************************************************************)
(* The background passes that grant shares for named people while a        *)
(* viewer runs (src/crates/slink/src/server.rs: resume_named;              *)
(* src/crates/slink-client/src/named.rs: named_shares without refresh).    *)
(*                                                                         *)
(* A pass looks at no more than Batch unfinished shares, from a place in   *)
(* the list that the clock gives once the lock is held and the service has *)
(* answered.  A pass that runs on, waiting for a service that does not     *)
(* answer, delays the next one; one that waited for the lock may find the  *)
(* next within its own tick: the clock moves on by any of PassTicks.       *)
(***************************************************************************)
EXTENDS Naturals, FiniteSets

CONSTANTS
  Shares,     \* how many shares the outbox lists, finished or not
  Batch,      \* the most a pass looks at
  PassTicks   \* how many ticks of fifteen seconds there may be between passes

\* What the constants must satisfy.
TurnsAssumption ==
  Shares \in Nat \ {0} /\ Batch \in Nat \ {0} /\ PassTicks \subseteq Nat /\ PassTicks # {}

VARIABLES
  finished, \* shares whose people are all granted, revoked or expired
  ready,    \* shares with somebody to grant
  tick,     \* the clock, as far as the place to start at tells it apart
  late      \* history: between the last two passes there was not one tick

vars == <<finished, ready, tick, late>>

Listed == 0 .. Shares - 1
\* Mutant: every pass starts at the first share.
StartOfList(t) == 0
Start(t) == (t * Batch) % Shares

\* How far along the list, turned to begin at the start, share s comes.
Place(t, s) == (s + Shares - Start(t)) % Shares

\* The unfinished shares a pass at tick t gets to.
LookedAt(t) ==
  {s \in Listed \ finished :
     Cardinality({r \in Listed \ finished : Place(t, r) < Place(t, s)}) < Batch}

\* A pass grants whom it can; a share nobody accepts stays unfinished.
Pass ==
  /\ \E done \in SUBSET (LookedAt(tick) \intersect ready) : finished' = finished \union done
  /\ ready' = ready \ LookedAt(tick)
  /\ \E d \in PassTicks : tick' = (tick + d) % Shares /\ late' = (d # 1)

\* A person accepts.
AcceptOne ==
  /\ \E s \in Listed \ (finished \union ready) : ready' = ready \union {s}
  /\ UNCHANGED <<finished, tick, late>>

Init == finished \in SUBSET Listed /\ ready = {} /\ tick \in Listed /\ late = FALSE

Next == Pass \/ AcceptOne

\* The viewer runs on; nobody need accept.
FairSpec == Init /\ [][Next]_vars /\ WF_vars(Pass)

-----------------------------------------------------------------------------
\* "Each pass starts somewhere else, so shares nobody answers cannot keep the later ones
\* waiting": however many stay unanswered before it, one whose person accepts is looked at.
\* By itself it fails, and is not one of the runs' properties: README, disagreements.
EveryShareHasItsTurn == \A s \in Listed : (s \in ready) ~> (s \notin ready)

\* So it is if passes come to follow each other tick by tick, wherever late ones left the clock.
PromptPassesReachAll == <>[](~late) => EveryShareHasItsTurn
=============================================================================
