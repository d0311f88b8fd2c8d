------------------------------ MODULE SubAgents ------------------------------
(***************************************************************************)
(* Nesting sub-agents' sessions in the session that started them           *)
(* (src/crates/slink-import: agents.rs, and the lists of sub-agents that   *)
(* claude_code.rs and codex.rs hand to it).                                *)
(*                                                                         *)
(* Agents (external) work side by side.  A tool call of a session may      *)
(* start a sub-agent, which has a session of its own and may start others. *)
(* The harness may record which call started it.  An import may be taken   *)
(* at any moment.  A span's id is a path: <<"s", n>> in its own session,   *)
(* after <<"a", k>> for each nesting.                                      *)
(***************************************************************************)
EXTENDS Naturals, Sequences, FiniteSets, SequencesExt

CONSTANTS
  MaxTime,    \* bound: steps the agents take; each has a time of its own
  MaxAgents,  \* bound: sub-agents
  MaxDepth,   \* how deep sub-agents are followed (8 in the code)
  Flat        \* whether the harness lists the sub-agents of all depths together (Claude Code)

\* What the constants must satisfy.
SubAgentsAssumption ==
  MaxTime \in Nat /\ MaxAgents \in Nat /\ MaxDepth \in Nat /\ Flat \in BOOLEAN

VARIABLES
  events,  \* what each session recorded, in order: [by, type, started, ended]; 0: still running
  agents,  \* the sub-agents, in order: [by, call, depth, started, named]
  now

vars == <<events, agents, now>>

Main == 0
Sessions == 0 .. Len(agents)
Running == 0
Init == events = <<>> /\ agents = <<>> /\ now = 0
Tick == now < MaxTime /\ now' = now + 1

Say(s) ==
  /\ Tick /\ s \in Sessions
  /\ events' = Append(events, [by |-> s, type |-> "llm", started |-> now', ended |-> now'])
  /\ UNCHANGED agents
StartCall(s) ==
  /\ Tick /\ s \in Sessions
  /\ events' = Append(events, [by |-> s, type |-> "tool", started |-> now', ended |-> Running])
  /\ UNCHANGED agents
EndCall(c) ==
  /\ Tick /\ c \in DOMAIN events /\ events[c].ended = Running
  /\ events' = [events EXCEPT ![c].ended = now']
  /\ UNCHANGED agents
Depth(s) == IF s = Main THEN 0 ELSE agents[s].depth
StartAgent(c) ==
  /\ Tick /\ c \in DOMAIN events /\ events[c].ended = Running /\ Len(agents) < MaxAgents
  /\ \E named \in BOOLEAN :
       agents' = Append(agents, [by |-> events[c].by, call |-> c, depth |-> Depth(events[c].by) + 1,
                                 started |-> now', named |-> named])
  /\ UNCHANGED events
Next ==
  \/ \E s \in 0 .. MaxAgents : Say(s) \/ StartCall(s)
  \/ \E c \in 1 .. MaxTime : EndCall(c) \/ StartAgent(c)
Spec == Init /\ [][Next]_vars

-----------------------------------------------------------------------------
(* The import.                                                             *)

RootId == <<>>

\* A session as its own importer gives it: its spans are under the root.
OwnSpans(s) ==
  LET all == [c \in DOMAIN events |-> [id |-> <<"s", c>>, parent |-> RootId, of |-> s, event |-> c]]
  IN  SelectSeq(all, LAMBDA x : events[x.event].by = s)
IsTool(span) == span.event # 0 /\ events[span.event].type = "tool"

\* The sub-agents handed to the import of a session.  Of a flat harness the main session
\* is handed all of them, the shallower ones first; of another each session is handed its
\* own, down to a depth.
All == [k \in DOMAIN agents |-> k]
InOneDirectory == FlattenSeq([d \in 1 .. MaxAgents |-> SelectSeq(All, LAMBDA k : agents[k].depth = d)])
StartedBy(s, depth) ==
  IF depth > MaxDepth THEN <<>> ELSE SelectSeq(All, LAMBDA k : agents[k].by = s)
ListedFor(s, depth) ==
  IF ~Flat THEN StartedBy(s, depth) ELSE IF s = Main THEN InOneDirectory ELSE <<>>

\* Where the spans of calls are: the first span that makes a call stands for it.
CallSpan(spans, call) ==
  LET made == SelectSeq(spans, LAMBDA x : IsTool(x) /\ x.event = call)
  IN  IF made = <<>> THEN RootId ELSE made[1].id

\* Mutant: a call that had ended already will do.
RanBefore(own, started) ==
  LET those == SelectSeq(own, LAMBDA x : IsTool(x) /\ events[x.event].started <= started)
  IN  IF those = <<>> THEN RootId ELSE Last(those).id

\* The last of the session's own calls that was over, and ran when the agent started.
RanThen(own, started) ==
  LET ran(x) == IsTool(x) /\ events[x.event].started <= started /\ started <= events[x.event].ended
      those == SelectSeq(own, ran)
  IN  IF those = <<>> THEN RootId ELSE Last(those).id

\* An agent's spans, with ids and parents under the agent's own.
Block(prefix, anchor, agent, rest) ==
  <<[id |-> prefix, parent |-> anchor, of |-> agent, event |-> 0]>>
    \o [i \in DOMAIN rest |-> [rest[i] EXCEPT !.id = prefix \o @, !.parent = prefix \o @]]

\* adopt_agents, up to the placing: each agent that recorded something has a block, under
\* the call that is known to have started it, else the one that ran then, else the root.
Adopt(own, imported) ==
  LET step(acc, child) ==
        IF child.spans = <<>> THEN acc
        ELSE LET prefix == <<"a", Len(acc.blocks) + 1>>
                 known == IF agents[child.agent].named THEN CallSpan(acc.seen, agents[child.agent].call) ELSE RootId
                 anchor == IF known # RootId THEN known ELSE RanThen(own, agents[child.agent].started)
                 block == Block(prefix, anchor, child.agent, child.spans)
             IN  [seen |-> acc.seen \o block,
                  blocks |-> Append(acc.blocks, [anchor |-> anchor, spans |-> block])]
  IN  FoldLeft(step, [seen |-> own, blocks |-> <<>>], imported).blocks

\* place: each span, followed by the agents it started; those of the root come last.  A block
\* is under a span that was there before it; 0 stands for the session's own spans.
Ordered(own, blocks) ==
  LET under(id) == SelectSeq([b \in DOMAIN blocks |-> b], LAMBDA b : blocks[b].anchor = id)
      all(anchored, placed) == FlattenSeq([i \in DOMAIN anchored |-> placed[anchored[i]]])
      placed[b \in 0 .. Len(blocks)] ==
        LET spans == IF b = 0 THEN own ELSE blocks[b].spans
        IN  FlattenSeq([i \in DOMAIN spans |-> <<spans[i]>> \o all(under(spans[i].id), placed)])
  IN  placed[0] \o all(under(RootId), placed)

\* A session's import, at each depth that one is asked for.
Import[s \in Sessions, depth \in 0 .. MaxDepth + 1] ==
  LET listed == ListedFor(s, depth)
      imported == [i \in DOMAIN listed |-> [agent |-> listed[i], spans |-> Import[listed[i], depth + 1]]]
  IN  Ordered(OwnSpans(s), Adopt(OwnSpans(s), imported))

Nested == Import[Main, 0]

-----------------------------------------------------------------------------
(* Properties.                                                             *)

Recorded(s) == \E c \in DOMAIN events : events[c].by = s
Heads(spans, k) == SelectSeq(spans, LAMBDA x : x.of = k /\ x.event = 0)

SubAgentsTypeOK ==
  /\ now <= MaxTime /\ Len(agents) <= MaxAgents
  /\ \A k \in DOMAIN agents : agents[k].call \in DOMAIN events /\ agents[k].by < k

\* The nested session can be published: ids are told once, and every parent is the root or
\* a span listed before, so the session reads in the order it ran.
NestedWellFormed ==
  LET spans == Nested IN
  \A i \in DOMAIN spans :
    /\ spans[i].id # RootId
    /\ \A j \in DOMAIN spans : spans[i].id = spans[j].id => i = j
    /\ spans[i].parent = RootId \/ \E j \in 1 .. i - 1 : spans[j].id = spans[i].parent

\* Everything any agent recorded is in the one session exactly once, and an agent that
\* recorded nothing and started none that did is left out.
NothingLost ==
  LET spans == Nested
      told == SelectSeq(spans, LAMBDA x : x.event # 0)
  IN  /\ Len(told) = Len(events)
      /\ {x.event : x \in ToSet(told)} = DOMAIN events
      /\ \A k \in DOMAIN agents : Len(Heads(spans, k)) = IF Recorded(k) THEN 1 ELSE 0

\* A sub-agent is under the very call that started it, wherever in the tree that is, when
\* the harness recorded which; its own spans are under it.
UnderItsCall ==
  LET spans == Nested IN
  \A i \in DOMAIN spans :
    LET x == spans[i]
        parent == SelectSeq(spans, LAMBDA y : y.id = x.parent)
    IN  /\ (x.event = 0 /\ agents[x.of].named) => parent # <<>> /\ parent[1].event = agents[x.of].call
        /\ (x.event # 0 /\ x.of # Main) => parent # <<>> /\ parent[1].of = x.of /\ parent[1].event = 0

\* A sub-agent is never shown under a call that was not running when it started.
NeverUnderAnIdleCall ==
  LET spans == Nested IN
  \A x \in ToSet(spans) :
    (x.event = 0 /\ x.parent # RootId) =>
      \A y \in ToSet(spans) : (y.id = x.parent /\ y.event # 0) =>
         /\ events[y.event].started <= agents[x.of].started
         /\ events[y.event].ended = Running \/ agents[x.of].started <= events[y.event].ended

\* The main session's calls that were running when one of its sub-agents started.
RunningWhen(k) ==
  {c \in DOMAIN events :
     /\ events[c].by = Main /\ events[c].type = "tool" /\ events[c].started < agents[k].started
     /\ events[c].ended = Running \/ agents[k].started < events[c].ended}
UnderOne(spans, x, calls) == \E y \in ToSet(spans) : y.id = x.parent /\ y.event \in calls
OfMain(spans) == {x \in ToSet(spans) : x.event = 0 /\ agents[x.of].by = Main}

\* An agent the harness names no call for goes under the call that was running when it
\* started: here, the only one of the main session that was, once that call is over.
FinishedCallAdopts ==
  LET spans == Nested
      over(calls) == \A c \in calls : events[c].ended # Running
  IN  \A x \in OfMain(spans) :
        (Cardinality(RunningWhen(x.of)) = 1 /\ over(RunningWhen(x.of))) => UnderOne(spans, x, RunningWhen(x.of))
=============================================================================
