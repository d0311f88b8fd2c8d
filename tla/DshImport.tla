------------------------------ MODULE DshImport ------------------------------
(***************************************************************************)
(* Importing a dsh session log (src/crates/slink-import: dsh.rs).          *)
(*                                                                         *)
(* dsh (external) appends one event on each line.  A delegation is a tool  *)
(* call that starts a sub-agent; once the sub-agent exists dsh notes its   *)
(* session id, but not the call that asked for it.  A forked session       *)
(* begins with a copy of its parent's events, which an inherited end-seed  *)
(* event closes; a call made before it may be answered after it.  The      *)
(* import may be taken after any line.                                     *)
(***************************************************************************)
EXTENDS ImportedSpans

CONSTANTS
  Calls,      \* tool call ids, which dsh does not use twice
  Children,   \* session ids of sub-agents
  MaxEvents,  \* bound: lines
  SubAgent    \* whether the log is a sub-agent's, imported into its parent

\* What the constants must satisfy.
DshAssumption == MaxEvents \in Nat /\ SubAgent \in BOOLEAN

VARIABLE log  \* the events: [kind, call, child, by, at]; by is dsh's own knowledge, not in the file

vars == log

None == "none"
Messages == {"system", "user"}
Kinds == Messages \union {"step", "attempt", "reply", "call", "delegate", "catalog", "result", "seed"}
Event(kind) == [kind |-> kind, call |-> None, child |-> None, by |-> None, at |-> Len(log) + 1]

\* The delegations dsh still runs.
Answered(c) == \E e \in ToSet(log) : e.kind = "result" /\ e.call = c
Running == {e.call : e \in {x \in ToSet(log) : x.kind = "delegate" /\ ~Answered(x.call)}}
Made == {e.call : e \in {x \in ToSet(log) : x.kind \in {"call", "delegate"}}}
Noted == {e.child : e \in {x \in ToSet(log) : x.kind = "catalog"}}
NotedFor == {e.by : e \in {x \in ToSet(log) : x.kind = "catalog"}}

Init == log = <<>>
Events ==
  {Event(k) : k \in Messages \union {"step", "attempt", "reply", "seed"}}
  \union {[Event(k) EXCEPT !.call = c] : k \in {"call", "delegate"}, c \in Calls \ Made}
  \union {[Event("result") EXCEPT !.call = c] : c \in {m \in Made : ~Answered(m)}}
  \union {[Event("catalog") EXCEPT !.child = s, !.by = c] : s \in Children \ Noted, c \in Running \ NotedFor}
Next == Len(log) < MaxEvents /\ \E e \in Events : log' = Append(log, e)
Spec == Init /\ [][Next]_vars

-----------------------------------------------------------------------------
(* The import.                                                             *)

\* own_events: a sub-agent's import leaves out the history it was forked with.
AfterSeed(events) ==
  LET seeds == {0} \union {e.at : e \in {x \in ToSet(events) : x.kind = "seed"}}
  IN  SelectSeq(events, LAMBDA e : e.at > Greatest(seeds))
Own(events) == IF SubAgent THEN AfterSeed(events) ELSE events

\* reply: the span of the latest reply.  open: the place of the span open under each call.
\* delegations: the calls that wait for a sub-agent, oldest first.
Fold ==
  [spans |-> <<>>, pending |-> <<>>, start |-> 0, last |-> 0, reply |-> Root, open |-> <<>>,
   delegations |-> <<>>, agentCalls |-> <<>>]
Span(r, type, e) ==
  [id |-> Len(r.spans) + 1, parent |-> Root, type |-> type, input |-> <<>>, output |-> <<>>,
   call |-> e.call, result |-> 0, started |-> e.at, ended |-> e.at]

\* A model request, failed or not, is given what is pending: a retry is given nothing again.
Request(r, e, output) ==
  [r EXCEPT !.spans = Append(@, [Span(r, "llm", e) EXCEPT !.input = r.pending, !.output = output,
                                                          !.started = r.start]),
            !.pending = <<>>, !.start = e.at]
Attempt(r, e) == Request(r, e, <<>>)
Reply(r, e) == [Request(r, e, <<e.at>>) EXCEPT !.reply = Len(r.spans) + 1]

Call(r, e) ==
  [r EXCEPT !.spans = Append(@, [Span(r, "tool", e) EXCEPT !.parent = r.reply]),
            !.open = [c \in DOMAIN @ \union {e.call} |-> IF c = e.call THEN Len(r.spans) + 1 ELSE @[c]],
            !.delegations = IF e.kind = "delegate" THEN Append(@, e.call) ELSE @]

\* The sub-agent is put down to the delegation that has waited longest.
Catalog(r, e) ==
  IF r.delegations = <<>> THEN r
  ELSE [r EXCEPT !.delegations = Tail(@),
                 !.agentCalls = [s \in DOMAIN @ \union {e.child} |->
                                   IF s = e.child THEN Head(r.delegations) ELSE @[s]]]

\* A result closes its call; one whose call is not open is a call of its own.
Result(r, e) ==
  [r EXCEPT !.open = [c \in DOMAIN @ \ {e.call} |-> @[c]],
            !.delegations = SelectSeq(@, LAMBDA c : c # e.call),
            !.spans = IF e.call \notin DOMAIN r.open
                      THEN Append(@, [Span(r, "tool", e) EXCEPT !.result = e.at])
                      ELSE [i \in DOMAIN @ |-> IF i # r.open[e.call] THEN @[i]
                              ELSE [@[i] EXCEPT !.result = e.at, !.ended = e.at]]]

Take(r, e) ==
  LET after ==
        CASE e.kind \in Messages -> [r EXCEPT !.pending = Append(@, e.at)]
          [] e.kind = "step" -> [r EXCEPT !.start = e.at]
          [] e.kind = "attempt" -> Attempt(r, e)
          [] e.kind = "reply" -> Reply(r, e)
          [] e.kind \in {"call", "delegate"} -> Call(r, e)
          [] e.kind = "catalog" -> Catalog(r, e)
          [] e.kind = "result" -> Result(r, e)
          [] OTHER -> r
  IN  [after EXCEPT !.last = e.at]

Trailing(r) ==
  IF r.pending = <<>> THEN r.spans
  ELSE Append(r.spans, [Span(r, "custom", [at |-> r.last, call |-> None]) EXCEPT !.input = r.pending])

Closed(events) == FoldLeft(Take, Fold, Own(events))
Import(events) == Trailing(Closed(events))

\* children: the sub-agents a session started itself, each once; a fork's copy names its
\* parent's, which are not its own.
ChildrenOf(events) == {e.child : e \in {x \in ToSet(AfterSeed(events)) : x.kind = "catalog"}}

-----------------------------------------------------------------------------
(* Properties.                                                             *)

Places(kinds) ==
  LET told == SelectSeq(Own(log), LAMBDA e : e.kind \in kinds)
  IN  [i \in DOMAIN told |-> told[i].at]
EventAt(at) == log[at]

DshTypeOK ==
  /\ Len(log) <= MaxEvents /\ \A i \in DOMAIN log : log[i].kind \in Kinds /\ log[i].at = i
  /\ WellFormed(Import(log)) /\ TimesInOrder(Import(log))

\* Each message is the input of exactly one request, in order and however often the request
\* was retried; each reply is told once; each call and each result has exactly one span.  A
\* sub-agent tells nothing it was forked with.
EachEventOnce ==
  LET spans == Import(log)
      tools == OfType(spans, "tool")
      results == SelectSeq(tools, LAMBDA s : s.result # 0)
      made == SelectSeq(tools, LAMBDA s : EventAt(s.started).kind # "result")
  IN  /\ Inputs(spans) = Places(Messages)
      /\ Outputs(spans) = Places({"reply"})
      /\ [i \in DOMAIN made |-> made[i].started] = Places({"call", "delegate"})
      /\ {s.result : s \in ToSet(results)} = ToSet(Places({"result"}))
      /\ Len(results) = Len(Places({"result"}))

\* A message is sent before the reply that follows it: a request is given all that was said
\* since the one before, and nothing said later.
SentBeforeAnswered ==
  LET turns == OfType(Import(log), "llm")
  IN  \A i \in DOMAIN turns :
        ToSet(turns[i].input) =
          {m \in ToSet(Places(Messages)) : m < turns[i].ended /\ (i = 1 \/ turns[i - 1].ended < m)}

\* A call's span holds the first result for it.
ResultsMatch ==
  \A s \in ToSet(OfType(Import(log), "tool")) :
    EventAt(s.started).kind # "result" =>
      LET answers == {e.at : e \in {x \in ToSet(Own(log)) :
                                      x.kind = "result" /\ x.call = s.call /\ x.at > s.started}}
      IN  s.result = IF answers = {} THEN 0 ELSE Least(answers)

\* A call is under the latest reply before it, past any failed attempt.
UnderLatestReply ==
  LET spans == Import(log)
  IN  \A s \in ToSet(OfType(spans, "tool")) :
        EventAt(s.started).kind # "result" =>
          LET said == {r \in ToSet(Places({"reply"})) : r < s.started}
          IN  IF said = {} THEN s.parent = Root
              ELSE \E t \in ToSet(OfType(spans, "llm")) : t.id = s.parent /\ t.output = <<Greatest(said)>>

\* A sub-agent is nested under the call that started it, as long as dsh never had two
\* delegations that waited for their sub-agents at once.
Waiting(before) ==
  {c \in Calls :
     /\ \E e \in ToSet(before) : e.kind = "delegate" /\ e.call = c
     /\ ~\E e \in ToSet(before) : (e.kind = "result" /\ e.call = c) \/ (e.kind = "catalog" /\ e.by = c)}
OneAtATime == \A n \in 0 .. Len(log) : Cardinality(Waiting(SubSeq(log, 1, n))) <= 1
ChildUnderItsCall ==
  LET r == Closed(log)
      startedBy(s) == (CHOOSE e \in ToSet(log) : e.kind = "catalog" /\ e.child = s).by
      whole(s) == \E e \in ToSet(Own(log)) : e.kind = "delegate" /\ e.call = startedBy(s)
  IN  OneAtATime => \A s \in ChildrenOf(log) :
                      whole(s) => s \in DOMAIN r.agentCalls /\ r.agentCalls[s] = startedBy(s)

\* No two sub-agents are nested under one call, however the delegations overlap.
OneChildPerCall ==
  LET calls == Closed(log).agentCalls
  IN  \A s, t \in DOMAIN calls : calls[s] = calls[t] => s = t

\* A longer log tells every span again in the same place, unless the session turns out to
\* be a fork.
GrowsInPlace ==
  LET old == Closed(log).spans
      new == Import(log')
  IN  (SubAgent => Last(log').kind # "seed") =>
        \A i \in DOMAIN old :
        /\ i \in DOMAIN new
        /\ <<new[i].id, new[i].parent, new[i].input, new[i].output, new[i].call>>
             = <<old[i].id, old[i].parent, old[i].input, old[i].output, old[i].call>>
        /\ old[i].result # 0 => new[i].result = old[i].result
=============================================================================
