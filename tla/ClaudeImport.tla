----------------------------- MODULE ClaudeImport -----------------------------
(***************************************************************************)
(* Importing a Claude Code transcript (src/crates/slink-import:            *)
(* claude_code.rs, normalize.rs).                                          *)
(*                                                                         *)
(* Claude Code (external) writes one entry for each content block of a     *)
(* response, all with the response's message id, and may write the results *)
(* of early blocks between them.  Entries of sub-agents that run in the    *)
(* same file are marked; a sub-agent's own transcript is nothing else.     *)
(* An entry names the one it follows, and a person may go back; slink does *)
(* not read those names, so a model of them would change nothing: entries  *)
(* that were undone are told in file order like any others.                *)
(* The import may be taken after any line.                                 *)
(***************************************************************************)
EXTENDS ImportedSpans

CONSTANTS
  Calls,      \* tool_use ids
  Responses,  \* message ids; "" is an entry without one
  MaxEntries, \* bound: lines
  MaxSide     \* bound: lines of sub-agents in a transcript that has others

\* What the constants must satisfy.
ClaudeAssumption == MaxEntries \in Nat /\ MaxSide \in Nat

VARIABLE log  \* the entries: [kind, side, message, calls, at]

vars == log

NoMessage == ""
Kinds == {"user", "results", "reply", "error"}
Entry(kind, side) ==
  [kind |-> kind, side |-> side, message |-> NoMessage, calls |-> <<>>, at |-> Len(log) + 1]
CallLists == {<<>>} \union {<<c>> : c \in Calls} \union {<<c, d>> : c, d \in Calls}

Init == log = <<>>
Entries(side) ==
  {Entry(k, side) : k \in {"user", "error"}}
  \union {[Entry("results", side) EXCEPT !.calls = cs] : cs \in CallLists \ {<<>>}}
  \union {[Entry("reply", side) EXCEPT !.calls = cs, !.message = m] :
            cs \in CallLists, m \in Responses \union {NoMessage}}
Next ==
  /\ Len(log) < MaxEntries
  /\ \E side \in BOOLEAN : \E e \in Entries(side) :
       /\ (log # <<>> /\ log[1].side) => side
       /\ (log # <<>> /\ ~log[1].side /\ side) => Len(SelectSeq(log, LAMBDA x : x.side)) < MaxSide
       /\ log' = Append(log, e)
Spec == Init /\ [][Next]_vars

-----------------------------------------------------------------------------
(* The import.                                                             *)

\* A sub-agent's entries are passed over, unless the transcript has no others.
Main(entries) ==
  LET own == SelectSeq(entries, LAMBDA e : ~e.side)
  IN  IF own = <<>> THEN entries ELSE own

\* open: the place in spans of the call open under each id.  reply: where the latest model
\* call is, and its message.
Fold(first) ==
  [spans |-> <<>>, pending |-> <<>>, since |-> 0, previous |-> first, open |-> <<>>,
   reply |-> [at |-> 0, message |-> NoMessage]]
Span(r, type, e) ==
  [id |-> Len(r.spans) + 1, parent |-> Root, type |-> type, input |-> r.pending, output |-> <<>>,
   call |-> "", result |-> 0, started |-> r.previous, ended |-> e.at]

\* Results close the calls they name; one that names no open call closes nothing.
Close(r, e) ==
  LET named == {c \in DOMAIN r.open : \E k \in DOMAIN e.calls : e.calls[k] = c}
      closed == {r.open[c] : c \in named}
  IN  [r EXCEPT !.open = [c \in DOMAIN @ \ named |-> @[c]],
                !.spans = [i \in DOMAIN @ |-> IF i \in closed
                             THEN [@[i] EXCEPT !.result = e.at, !.ended = e.at] ELSE @[i]]]
Gather(r, e) ==
  [Close(r, e) EXCEPT !.pending = Append(@, e.at), !.since = IF @ = 0 THEN e.at ELSE @]

\* No model produced this, so it is a failed span and not a reply.
Failed(r, e) ==
  [r EXCEPT !.spans = Append(@, [Span(r, "custom", e) EXCEPT !.output = <<e.at>>]),
            !.pending = <<>>, !.since = 0, !.reply = [at |-> 0, message |-> NoMessage]]

\* A later block of the same response joins its reply; any other opens a model call, given
\* what is pending.
Respond(r, e) ==
  IF r.reply.at # 0 /\ e.message # NoMessage /\ e.message = r.reply.message
  THEN [r EXCEPT !.spans = [i \in DOMAIN @ |-> IF i # r.reply.at THEN @[i]
                              ELSE [@[i] EXCEPT !.output = Append(@, e.at), !.ended = e.at]]]
  ELSE [r EXCEPT !.spans = Append(@, [Span(r, "llm", e) EXCEPT !.output = <<e.at>>]),
                 !.pending = <<>>, !.since = 0,
                 !.reply = [at |-> Len(r.spans) + 1, message |-> e.message]]
\* A span for each tool_use block, under the reply.
CallTools(r, e) ==
  LET n == Len(r.spans)
      tool(k) == [Span(r, "tool", e) EXCEPT !.id = n + k, !.parent = r.reply.at, !.input = <<>>,
                    !.call = e.calls[k], !.started = e.at, !.ended = 0]
      uses(c) == {k \in DOMAIN e.calls : e.calls[k] = c}
  IN  [r EXCEPT !.spans = @ \o [k \in DOMAIN e.calls |-> tool(k)],
                !.open = [c \in DOMAIN @ \union ToSet(e.calls) |->
                            IF uses(c) = {} THEN @[c] ELSE n + Greatest(uses(c))]]
Reply(r, e) == CallTools(Respond(r, e), e)

Take(r, e) ==
  CASE e.kind \in {"user", "results"} -> [Gather(r, e) EXCEPT !.previous = e.at]
    [] e.kind = "error" -> [Failed(r, e) EXCEPT !.previous = e.at]
    [] OTHER -> [Reply(r, e) EXCEPT !.previous = e.at]

\* A transcript can end on a user turn: no reply is made up for it.
Trailing(r) ==
  IF r.pending = <<>> THEN r.spans
  ELSE Append(r.spans, [Span(r, "custom", [at |-> r.previous]) EXCEPT !.started = r.since])

Closed(entries) ==
  LET es == Main(entries)
  IN  FoldLeft(Take, Fold(IF es = <<>> THEN 0 ELSE es[1].at), es)
Import(entries) == Trailing(Closed(entries))

-----------------------------------------------------------------------------
(* Properties.                                                             *)

Places(kinds) ==
  LET told == SelectSeq(Main(log), LAMBDA e : e.kind \in kinds)
  IN  [i \in DOMAIN told |-> told[i].at]

ClaudeTypeOK ==
  /\ Len(log) <= MaxEntries /\ \A i \in DOMAIN log : log[i].kind \in Kinds /\ log[i].at = i
  /\ WellFormed(Import(log)) /\ TimesInOrder(Import(log))

\* Each entry of the file, undone or not, is told exactly once, in its order: what the model was given
\* as input, what it said as output, and an error as nobody's reply.  A sub-agent's entries
\* are not told in the session that holds them.
EachEntryOnce ==
  LET spans == Import(log)
  IN  /\ Inputs(spans) = Places({"user", "results"})
      /\ Outputs(OfType(spans, "llm")) = Places({"reply"})
      /\ Outputs(OfType(spans, "custom")) = Places({"error"})

\* The blocks of one response are one model call, whatever comes between them but another
\* response or an error; two responses are two.
OneCallPerResponse ==
  LET replies == Places({"reply"})
      spanOf(at) == CHOOSE s \in ToSet(Import(log)) : s.type = "llm" /\ at \in ToSet(s.output)
      same(k) == /\ log[replies[k]].message = log[replies[k + 1]].message
                 /\ log[replies[k]].message # NoMessage
                 /\ \A i \in ToSet(Places({"error"})) : ~(replies[k] < i /\ i < replies[k + 1])
  IN  \A k \in 1 .. Len(replies) - 1 : (spanOf(replies[k]) = spanOf(replies[k + 1])) <=> same(k)

\* A call's span holds the first result for its id after it, and before the id was used again.
ResultsMatch ==
  LET tools == OfType(Import(log), "tool")
      after(s) == {e \in ToSet(Main(log)) :
                     /\ e.at > s.started /\ s.call \in ToSet(e.calls)
                     /\ e.kind \in {"reply", "results"}}
      first(s) == log[Least({e.at : e \in after(s)})]
      newer(i) == \E j \in DOMAIN tools : j > i /\ tools[j].call = tools[i].call
                                          /\ tools[j].started = tools[i].started
  IN  \A i \in DOMAIN tools :
        tools[i].result = IF after(tools[i]) # {} /\ first(tools[i]).kind = "results" /\ ~newer(i)
                          THEN first(tools[i]).at ELSE 0

\* A call is under the response that made it, which is under way when it starts.
CallsUnderTheirReply ==
  LET spans == Import(log)
  IN  \A s \in ToSet(OfType(spans, "tool")) :
        \E t \in ToSet(OfType(spans, "llm")) : t.id = s.parent /\ s.started \in ToSet(t.output)

\* A longer transcript tells every span again in the same place, under the same id and with
\* the same input; a reply may have more blocks, and a call its result.
GrowsInPlace ==
  LET old == Closed(log).spans
      new == Import(log')
  IN  \A i \in DOMAIN old :
        /\ i \in DOMAIN new
        /\ <<new[i].id, new[i].parent, new[i].type, new[i].input, new[i].call>>
             = <<old[i].id, old[i].parent, old[i].type, old[i].input, old[i].call>>
        /\ IsPrefix(old[i].output, new[i].output)
        /\ old[i].result # 0 => new[i].result = old[i].result
=============================================================================
