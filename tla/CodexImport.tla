----------------------------- MODULE CodexImport -----------------------------
(***************************************************************************)
(* Importing a Codex rollout (src/crates/slink-import: codex.rs).          *)
(*                                                                         *)
(* Codex (external) writes one item on each line as it happens.  A thread  *)
(* that was forked opens with its own header and then replays its parent's *)
(* items; its header says where its own history starts.  The import may be *)
(* taken after any line.  An item's place in the file stands for its       *)
(* text, its ordinal and its time.                                         *)
(***************************************************************************)
EXTENDS ImportedSpans

CONSTANTS
  Calls,     \* call ids; one may be used again, and a result may name an unknown one
  Turns,     \* turn ids
  Models,    \* models
  MaxItems,  \* bound: lines
  History    \* the ordinal the header gives for the thread's own history; 0: not forked

\* What the constants must satisfy.
CodexAssumption == MaxItems \in Nat /\ History \in Nat

VARIABLE log  \* the lines, in order: [kind, call, turn, model, at]

vars == log

None == "none"
Kinds == {"user", "reply", "reasoning", "call", "output", "image", "other", "count", "context"}
Line(kind) == [kind |-> kind, call |-> None, turn |-> None, model |-> None, at |-> Len(log) + 1]

Init == log = <<>>
Lines ==
  {Line(k) : k \in {"user", "reasoning", "other", "count"}}
  \union {[Line(k) EXCEPT !.call = c] : k \in {"call", "output", "image"}, c \in Calls}
  \union {[Line("reply") EXCEPT !.turn = t] : t \in Turns \union {None}}
  \union {[Line("context") EXCEPT !.turn = t, !.model = m] : t \in Turns, m \in Models \union {None}}
Next == Len(log) < MaxItems /\ \E l \in Lines : log' = Append(log, l)
Spec == Init /\ [][Next]_vars

-----------------------------------------------------------------------------
(* The import.                                                             *)

\* What comes before the thread's own history was its parent's.
Own(lines) == SelectSeq(lines, LAMBDA l : l.at >= History)
IsItem(l) == l.kind \notin {"count", "context"}

\* Each turn's model, as last given; and the last model, in the order the turns were first
\* named, for a reply that names no turn or one without a model.
TurnModels(lines) ==
  LET given(known, l) ==
        IF l.kind # "context" THEN known
        ELSE IF \E i \in DOMAIN known : known[i].turn = l.turn
             THEN [i \in DOMAIN known |-> IF known[i].turn = l.turn THEN l ELSE known[i]]
        ELSE Append(known, l)
  IN  FoldLeft(given, <<>>, lines)
DefaultModel(lines) ==
  FoldLeft(LAMBDA m, t : IF t.model = None THEN m ELSE t.model, "unknown", TurnModels(lines))
ModelOf(lines, turn) ==
  LET named == SelectSeq(TurnModels(lines), LAMBDA t : t.turn = turn /\ t.model # None)
  IN  IF named = <<>> THEN DefaultModel(lines) ELSE Head(named).model

\* What has gathered since the last reply, and every call with where its span is.
Rollout ==
  [spans |-> <<>>, pending |-> <<>>, activity |-> <<>>, tools |-> <<>>, turnTools |-> <<>>,
   awaiting |-> <<>>, usage |-> 0, turnStart |-> 1, last |-> 1]

Keep(r, l) ==
  [r EXCEPT !.spans = Append(@,
     [id |-> Len(@) + 1, parent |-> Root, type |-> "custom", input |-> <<>>, output |-> <<l.at>>,
      call |-> None, result |-> 0, usage |-> 0, model |-> None, started |-> l.at, ended |-> l.at])]

\* A message that is not the model's opens a turn when nothing has gathered for one.
Begin(r, l) == [r EXCEPT !.turnStart = IF r.pending = <<>> /\ r.activity = <<>> THEN l.at ELSE @]
Message(r, l) == [Begin(r, l) EXCEPT !.pending = Append(@, l.at)]

\* The turn that a reply closes: the model call, then each tool call it made.
Flush(r, reply, model, ended) ==
  LET id == Len(r.spans) + 1
      turn == [id |-> id, parent |-> Root, type |-> "llm", input |-> r.pending,
               output |-> r.activity \o reply, call |-> None, result |-> 0, usage |-> r.usage,
               model |-> model, started |-> r.turnStart, ended |-> ended]
      tool(k) == LET t == r.tools[r.turnTools[k]]
                 IN  [turn EXCEPT !.id = id + k, !.parent = id, !.type = "tool", !.input = <<>>,
                        !.output = <<>>, !.call = t.call, !.result = t.result, !.usage = 0,
                        !.model = None, !.started = t.started,
                        !.ended = IF t.ended = 0 THEN ended ELSE t.ended]
      placed(i) == \E k \in DOMAIN r.turnTools : r.turnTools[k] = i
      place(i) == id + (CHOOSE k \in DOMAIN r.turnTools : r.turnTools[k] = i)
  IN  [r EXCEPT !.spans = Append(@, turn) \o [k \in DOMAIN r.turnTools |-> tool(k)],
                !.tools = [i \in DOMAIN @ |-> IF placed(i) THEN [@[i] EXCEPT !.span = place(i)] ELSE @[i]],
                !.pending = <<>>, !.activity = <<>>, !.turnTools = <<>>, !.usage = 0,
                !.turnStart = ended]

\* A call made under an id that is awaited already takes it over.
Call(r, l) ==
  LET at == Len(r.tools) + 1
  IN  [r EXCEPT !.activity = Append(@, l.at), !.turnTools = Append(@, at),
                !.awaiting = [c \in DOMAIN @ \union {l.call} |-> IF c = l.call THEN at ELSE @[c]],
                !.tools = Append(@, [call |-> l.call, started |-> l.at, ended |-> 0, result |-> 0, span |-> 0])]

Answer(list, at, l) ==
  [i \in DOMAIN list |-> IF i = at THEN [list[i] EXCEPT !.result = l.at, !.ended = l.at] ELSE list[i]]

\* Mutant: the call goes on being awaited.
ResultAgain(r, l) ==
  IF l.call \notin DOMAIN r.awaiting THEN Keep(r, l)
  ELSE LET at == r.awaiting[l.call]
           span == r.tools[at].span
       IN  [r EXCEPT !.tools = Answer(@, at, l), !.spans = Answer(@, span, l)]

\* Closes the call it names, in its turn's spans too when the turn is written.
Result(r, l) ==
  IF l.call \notin DOMAIN r.awaiting THEN Keep(r, l)
  ELSE LET at == r.awaiting[l.call]
           span == r.tools[at].span
       IN  [r EXCEPT !.awaiting = [c \in DOMAIN @ \ {l.call} |-> @[c]],
                     !.tools = Answer(@, at, l), !.spans = Answer(@, span, l)]

\* The provider returns an image with the call itself.
Image(r, l) ==
  LET made == Call(r, l)
      at == Len(made.tools)
  IN  [made EXCEPT !.awaiting = [c \in DOMAIN @ \ {l.call} |-> @[c]],
                   !.tools = Answer(@, at, l)]

Take(lines, r, l) ==
  CASE l.kind = "count" -> [r EXCEPT !.usage = l.at]
    [] l.kind = "context" -> r
    [] l.kind = "user" -> [Message(r, l) EXCEPT !.last = l.at]
    [] l.kind = "reasoning" -> [r EXCEPT !.activity = Append(@, l.at), !.last = l.at]
    [] l.kind = "call" -> [Call(r, l) EXCEPT !.last = l.at]
    [] l.kind = "image" -> [Image(r, l) EXCEPT !.last = l.at]
    [] l.kind = "output" -> [Result(r, l) EXCEPT !.last = l.at]
    [] l.kind = "reply" -> [Flush(r, <<l.at>>, ModelOf(lines, l.turn), l.at) EXCEPT !.last = l.at]
    [] OTHER -> [Keep(r, l) EXCEPT !.last = l.at]

\* What the model did with no closing message is a turn; leftover input is a custom span.
Ending(r, model) ==
  IF r.activity # <<>> THEN Flush(r, <<>>, model, r.last).spans
  ELSE IF r.pending = <<>> THEN r.spans
  ELSE Append(r.spans,
         [id |-> Len(r.spans) + 1, parent |-> Root, type |-> "custom", input |-> r.pending,
          output |-> <<>>, call |-> None, result |-> 0, usage |-> 0, model |-> None,
          started |-> r.turnStart, ended |-> r.last])

Closed(lines) == FoldLeft(LAMBDA r, l : Take(Own(lines), r, l), Rollout, Own(lines))
Import(lines) == Ending(Closed(lines), DefaultModel(Own(lines)))

-----------------------------------------------------------------------------
(* Properties.                                                             *)

Places(kinds) ==
  LET told == SelectSeq(Own(log), LAMBDA l : l.kind \in kinds)
  IN  [i \in DOMAIN told |-> told[i].at]

CodexTypeOK ==
  /\ Len(log) <= MaxItems /\ \A i \in DOMAIN log : log[i].kind \in Kinds /\ log[i].at = i
  /\ WellFormed(Import(log))

\* Each item of the thread's own history is told exactly once: a message as input, what the
\* model did as output, both in the order they happened, a result at the call it answers,
\* and what cannot be placed as recorded.  Nothing of the parent's replay is told.
EachItemOnce ==
  LET spans == Import(log)
      turns == OfType(spans, "llm")
      kept == ToSet(Outputs(OfType(spans, "custom")))
      answered == {s \in ToSet(OfType(spans, "tool")) : s.result # 0}
      results == {s.result : s \in answered}
  IN  /\ Inputs(spans) = Places({"user"})
      /\ Outputs(turns) = Places({"reply", "reasoning", "call", "image"})
      /\ results \intersect kept = {} /\ Cardinality(answered) = Cardinality(results)
      /\ results \union kept = ToSet(Places({"output", "image", "other"}))

\* A tool span, its turn written or not, holds the first answer to its own call, given
\* before the model used that id again.
ResultsMatch ==
  LET spans == Import(log)
      calls == SelectSeq(Own(log), LAMBDA l : l.kind \in {"call", "image"})
      tools == OfType(spans, "tool")
      after(k) == {l.at : l \in {x \in ToSet(Own(log)) : x.at > calls[k].at /\ x.call = calls[k].call}}
      answer(k) == IF calls[k].kind = "image" THEN calls[k].at
                   ELSE IF after(k) # {} /\ log[Least(after(k))].kind = "output" THEN Least(after(k)) ELSE 0
  IN  /\ Len(tools) = Len(calls)
      /\ \A k \in DOMAIN calls :
           \E i \in DOMAIN tools : tools[i].started = calls[k].at /\ tools[i].result = answer(k)

\* The tokens of one count are charged to one turn, in the order they were counted, and none of
\* the parent's are.  Whose tokens a count holds, the rollout does not say, and
\* docs/rust-cli.md has it that they are not always those of the turn charged.
ChargedOnce ==
  LET turns == OfType(Import(log), "llm")
      charged == {i \in DOMAIN turns : turns[i].usage # 0}
  IN  /\ \A i, j \in charged : i < j => turns[i].usage < turns[j].usage
      /\ \A i \in charged : turns[i].usage \in ToSet(Places({"count"}))

\* A reply is put down to the model of the turn it names, as that turn last had it.
ModelOfItsTurn ==
  \A s \in ToSet(OfType(Import(log), "llm")) :
    LET reply == log[Last(s.output)]
        given == {l \in ToSet(Own(log)) : l.kind = "context" /\ l.turn = reply.turn}
        latest == {l \in given : \A x \in given : x.at <= l.at}
    IN  (reply.kind = "reply" /\ \E l \in latest : l.model # None)
           => s.model \in {l.model : l \in latest}

\* No turn and no call ends before it starts, and a call starts inside its turn.
CodexTimes ==
  LET spans == Import(log)
  IN  /\ TimesInOrder(spans)
      /\ \A i, j \in DOMAIN spans :
           (spans[i].type = "tool" /\ spans[j].id = spans[i].parent)
             => spans[j].started <= spans[i].started /\ spans[i].started <= spans[j].ended

\* A longer rollout tells every turn already closed at the same place and with the same
\* content: only an answer that had not come is filled in.
GrowsInPlace ==
  LET old == Closed(log).spans
      new == Import(log')
  IN  \A i \in DOMAIN old :
        /\ i \in DOMAIN new
        /\ <<new[i].id, new[i].parent, new[i].input, new[i].output, new[i].call, new[i].usage>>
             = <<old[i].id, old[i].parent, old[i].input, old[i].output, old[i].call, old[i].usage>>
        /\ old[i].result # 0 => new[i].result = old[i].result
=============================================================================
