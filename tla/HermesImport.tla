----------------------------- MODULE HermesImport -----------------------------
(***************************************************************************)
(* Importing a session of Hermes Agent (src/crates/slink-import:           *)
(* hermes.rs), from the rows of its messages.                              *)
(*                                                                         *)
(* Hermes (external) adds a row for each message.  A person may rewind:    *)
(* the undone rows stay, marked as not active.  The import reads the rows  *)
(* as they are at one moment.                                              *)
(***************************************************************************)
EXTENDS ImportedSpans

CONSTANTS
  Calls,   \* tool call ids; a model may use one again
  MaxRows  \* bound: rows

\* What the constants must satisfy.
HermesAssumption == MaxRows \in Nat

VARIABLES
  rows,   \* the rows, in the order of their ids: [role, calls, call, active, at]
  memory  \* what Hermes itself would send the model next: rows, in order

vars == <<rows, memory>>

Roles == {"user", "tool", "assistant", "system"}
Row(role) == [role |-> role, calls |-> <<>>, call |-> "", active |-> TRUE, at |-> Len(rows) + 1]
NewRows ==
  {Row("user"), Row("system")}
  \union {[Row("tool") EXCEPT !.call = c] : c \in Calls}
  \union {[Row("assistant") EXCEPT !.calls = cs] :
            cs \in {<<>>} \union {<<c>> : c \in Calls} \union {<<c, d>> : c, d \in Calls}}

Init == rows = <<>> /\ memory = <<>>
Add ==
  /\ Len(rows) < MaxRows
  /\ \E r \in NewRows : rows' = Append(rows, r)
  /\ memory' = Append(memory, Len(rows) + 1)
Rewind ==
  \E k \in 0 .. Len(memory) - 1 :
    /\ memory' = SubSeq(memory, 1, k)
    /\ rows' = [i \in DOMAIN rows |-> [rows[i] EXCEPT !.active = @ /\ i \in ToSet(memory')]]
Next == Add \/ Rewind
Spec == Init /\ [][Next]_vars

-----------------------------------------------------------------------------
(* The import.                                                             *)

\* load: the messages that are not undone, in the order of their ids.
Conversation(rs) == SelectSeq(rs, LAMBDA r : r.active)

\* open: the place in spans of the call open under each id.
Fold == [spans |-> <<>>, pending |-> <<>>, previous |-> 0, last |-> 0, open |-> <<>>]
Span(f, type, r) ==
  [id |-> Len(f.spans) + 1, parent |-> Root, type |-> type, input |-> <<>>, output |-> <<>>,
   call |-> "", result |-> 0, started |-> r.at, ended |-> r.at]

User(f, r) == [f EXCEPT !.pending = Append(@, r.at), !.last = r.at]
\* A result closes the call with its id, and is what the next model call is given.
Tool(f, r) ==
  LET closed == {f.open[c] : c \in DOMAIN f.open \intersect {r.call}}
  IN  [User(f, r) EXCEPT
        !.open = [c \in DOMAIN @ \ {r.call} |-> @[c]],
        !.spans = [i \in DOMAIN @ |-> IF i \in closed THEN [@[i] EXCEPT !.result = r.at, !.ended = r.at]
                                      ELSE @[i]]]
\* A reply, then a span for each call it makes.
Assistant(f, r) ==
  LET id == Len(f.spans) + 1
      turn == [Span(f, "llm", r) EXCEPT !.input = f.pending, !.output = <<r.at>>, !.started = f.previous]
      tool(k) == [Span(f, "tool", r) EXCEPT !.id = id + k, !.parent = id, !.call = r.calls[k], !.ended = 0]
      uses(c) == {k \in DOMAIN r.calls : r.calls[k] = c}
  IN  [f EXCEPT !.spans = @ \o <<turn>> \o [k \in DOMAIN r.calls |-> tool(k)],
                !.pending = <<>>, !.last = r.at,
                !.open = [c \in DOMAIN @ \union ToSet(r.calls) |->
                            IF uses(c) = {} THEN @[c] ELSE id + Greatest(uses(c))]]

Take(f, r) ==
  LET after == CASE r.role = "user" -> User(f, r)
                 [] r.role = "tool" -> Tool(f, r)
                 [] r.role = "assistant" -> Assistant(f, r)
                 [] OTHER -> f
  IN  [after EXCEPT !.previous = r.at]

Trailing(f) ==
  IF f.pending = <<>> THEN f.spans
  ELSE Append(f.spans, [Span(f, "custom", [at |-> f.last]) EXCEPT !.input = f.pending])

Closed(rs) == FoldLeft(Take, Fold, Conversation(rs))
Import(rs) == Trailing(Closed(rs))

-----------------------------------------------------------------------------
(* Properties.                                                             *)

HermesTypeOK ==
  /\ Len(rows) <= MaxRows /\ \A i \in DOMAIN rows : rows[i].role \in Roles /\ rows[i].at = i
  /\ ToSet(memory) \subseteq DOMAIN rows
  /\ WellFormed(Import(rows)) /\ TimesInOrder(Import(rows))

\* What is imported is the conversation Hermes itself would go on with, each message once
\* and in its place: nothing undone comes back, however often the person rewound.
ResumedConversation ==
  LET told(roles) == SelectSeq(memory, LAMBDA at : rows[at].role \in roles)
      spans == Import(rows)
  IN  Inputs(spans) = told({"user", "tool"}) /\ Outputs(spans) = told({"assistant"})

\* A call's span holds the first result for its id after it, before the id is used again.
ResultsMatch ==
  LET tools == OfType(Import(rows), "tool")
      after(s) == {at \in ToSet(memory) : at > s.started /\ (rows[at].call = s.call \/ s.call \in ToSet(rows[at].calls))}
      again(i) == \E j \in DOMAIN tools : j > i /\ tools[j].call = tools[i].call /\ tools[j].started = tools[i].started
  IN  \A i \in DOMAIN tools :
        tools[i].result = IF after(tools[i]) # {} /\ ~again(i) /\ rows[Least(after(tools[i]))].role = "tool"
                          THEN Least(after(tools[i])) ELSE 0

\* A conversation that was not rewound tells every span again in the same place.
GrowsInPlace ==
  LET old == Closed(rows).spans
      new == Import(rows')
  IN  Len(rows') > Len(rows) =>
        \A i \in DOMAIN old :
        /\ i \in DOMAIN new
        /\ <<new[i].id, new[i].parent, new[i].input, new[i].output, new[i].call>>
             = <<old[i].id, old[i].parent, old[i].input, old[i].output, old[i].call>>
        /\ old[i].result # 0 => new[i].result = old[i].result
=============================================================================
