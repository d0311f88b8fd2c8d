---------------------------- MODULE OpencodeImport ----------------------------
(***************************************************************************)
(* Importing an opencode session while opencode goes on writing it         *)
(* (src/crates/slink-import: opencode.rs).                                 *)
(*                                                                         *)
(* opencode (external) keeps a row for each message, a row for each part   *)
(* of one, and a session of its own for each sub-agent's task.  Slink reads*)
(* the three with a query each, and nothing holds opencode still between.  *)
(***************************************************************************)
EXTENDS ImportedSpans

CONSTANTS
  MaxMessages,  \* bound: message rows
  MaxParts,     \* bound: part rows
  MaxTasks      \* bound: sub-agents' sessions

\* What the constants must satisfy.
OpencodeAssumption == {MaxMessages, MaxParts, MaxTasks} \subseteq Nat

VARIABLES
  messages,  \* [role, done]
  parts,     \* [message, kind, status, child]; child: the session its task call ran, once noted
  tasks,     \* how many sub-agents' sessions there are
  taken      \* what the reader has: [step, messages, parts, tasks]

store == <<messages, parts, tasks>>
vars == <<messages, parts, tasks, taken>>

Unread == [step |-> "messages", messages |-> <<>>, parts |-> <<>>, tasks |-> 0, had |-> 0]
Init == messages = <<>> /\ parts = <<>> /\ tasks = 0 /\ taken = Unread

\* Which parts each message holds, in the order they were written.
PartsOf(rows, m) == SelectSeq([p \in DOMAIN rows |-> p], LAMBDA p : rows[p].message = m)
OfKind(rows, places, kind) == SelectSeq(places, LAMBDA p : rows[p].kind = kind)

-----------------------------------------------------------------------------
(* opencode.                                                               *)

Part(kind) == [message |-> Len(messages), kind |-> kind, status |-> "running", child |-> 0]
Writing == messages # <<>> /\ Last(messages).role = "assistant" /\ ~Last(messages).done

\* What the person typed, beside what opencode adds to it.
Ask(kinds) ==
  /\ ~Writing /\ Len(messages) < MaxMessages /\ Len(parts) + Len(kinds) <= MaxParts
  /\ messages' = Append(messages, [role |-> "user", done |-> TRUE])
  /\ parts' = parts \o [k \in DOMAIN kinds |-> [Part(kinds[k]) EXCEPT !.message = @ + 1]]
  /\ UNCHANGED <<tasks, taken>>
\* A message of another role, such as a summary.
Remark ==
  /\ ~Writing /\ Len(messages) < MaxMessages /\ Len(parts) < MaxParts
  /\ messages' = Append(messages, [role |-> "other", done |-> TRUE])
  /\ parts' = Append(parts, [Part("text") EXCEPT !.message = @ + 1])
  /\ UNCHANGED <<tasks, taken>>
Respond ==
  /\ ~Writing /\ messages # <<>> /\ Len(messages) < MaxMessages
  /\ messages' = Append(messages, [role |-> "assistant", done |-> FALSE])
  /\ UNCHANGED <<parts, tasks, taken>>
AddPart(kind) ==
  /\ Writing /\ Len(parts) < MaxParts
  /\ parts' = Append(parts, Part(kind))
  /\ UNCHANGED <<messages, tasks, taken>>
Running(p) == Writing /\ parts[p].kind = "tool" /\ parts[p].status = "running"
\* A task starts a session, and only then is it noted on the call; a later call may resume one.
StartTask(p) ==
  /\ Running(p) /\ parts[p].child = 0 /\ tasks < MaxTasks
  /\ tasks' = tasks + 1
  /\ UNCHANGED <<messages, parts, taken>>
NoteTask(p, child) ==
  /\ Running(p) /\ parts[p].child = 0
  /\ parts' = [parts EXCEPT ![p].child = child]
  /\ UNCHANGED <<messages, tasks, taken>>
FinishTool(p, status) ==
  /\ Running(p)
  /\ parts' = [parts EXCEPT ![p].status = status]
  /\ UNCHANGED <<messages, tasks, taken>>
Complete ==
  /\ Writing /\ \A p \in DOMAIN parts : ~Running(p)
  /\ messages' = [messages EXCEPT ![Len(messages)].done = TRUE]
  /\ UNCHANGED <<parts, tasks, taken>>

-----------------------------------------------------------------------------
(* session_input: its queries, in turn.  `had` is how many parts there were *)
(* when the messages were read.                                             *)

ReadMessages ==
  /\ taken.step = "messages"
  /\ taken' = [taken EXCEPT !.step = "parts", !.messages = messages, !.had = Len(parts)]
  /\ UNCHANGED store
ReadParts ==
  /\ taken.step = "parts"
  /\ taken' = [taken EXCEPT !.step = "tasks", !.parts = parts]
  /\ UNCHANGED store
ReadTasks ==
  /\ taken.step = "tasks"
  /\ taken' = [taken EXCEPT !.step = "read", !.tasks = tasks]
  /\ UNCHANGED store

Asked == {<<"text">>, <<"text", "synthetic">>, <<"synthetic", "text">>}
Write ==
  \/ \E kinds \in Asked : Ask(kinds)
  \/ Remark \/ Respond \/ Complete
  \/ \E kind \in {"text", "tool", "step"} : AddPart(kind)
  \/ \E p \in DOMAIN parts :
       \/ StartTask(p)
       \/ \E child \in 1..tasks : NoteTask(p, child)
       \/ \E status \in {"done", "error"} : FinishTool(p, status)
\* What is written once everything has been read is of no account.
Next ==
  \/ taken.step # "read" /\ Write
  \/ ReadMessages \/ ReadParts \/ ReadTasks
Spec == Init /\ [][Next]_vars

-----------------------------------------------------------------------------
(* The import.                                                             *)

Fold == [spans |-> <<>>, pending |-> <<>>]
Span(f, type) ==
  [id |-> Len(f.spans) + 1, parent |-> Root, type |-> type, input |-> <<>>, output |-> <<>>,
   call |-> 0, status |-> "done"]

\* What opencode wrote itself is context, ahead of what the person typed.
UserContent(rows, places) ==
  LET injected == OfKind(rows, places, "synthetic")
  IN  (IF injected = <<>> THEN <<>> ELSE <<injected>>) \o <<OfKind(rows, places, "text")>>
User(f, rows, places) == [f EXCEPT !.pending = @ \o UserContent(rows, places)]

AssistantContent(rows, places) == SelectSeq(places, LAMBDA p : rows[p].kind \in {"text", "tool"})
\* The reply, then each tool call it made with what came of it.
Assistant(f, rows, places) ==
  LET turn == [Span(f, "llm") EXCEPT !.input = Flat(f.pending), !.output = AssistantContent(rows, places)]
      calls == OfKind(rows, places, "tool")
      tool(k) == [Span(f, "tool") EXCEPT !.id = turn.id + k, !.parent = turn.id, !.call = calls[k],
                                         !.status = rows[calls[k]].status]
  IN  [f EXCEPT !.spans = @ \o <<turn>> \o [k \in DOMAIN calls |-> tool(k)], !.pending = <<>>]

Closed(rows, parted) ==
  FoldLeft(LAMBDA f, m : CASE rows[m].role = "user" -> User(f, parted, PartsOf(parted, m))
                           [] rows[m].role = "assistant" -> Assistant(f, parted, PartsOf(parted, m))
                           [] OTHER -> f,
           Fold, [m \in DOMAIN rows |-> m])
Trailing(f) ==
  IF f.pending = <<>> THEN f.spans
  ELSE Append(f.spans, [Span(f, "custom") EXCEPT !.input = Flat(f.pending)])
Import(rows, parted) == Trailing(Closed(rows, parted))

\* The call each sub-agent is nested under: the last one told to have run it.
AgentCalls(rows, parted) ==
  FoldLeft(LAMBDA known, s : LET child == parted[s.call].child IN
             IF child = 0 THEN known ELSE [c \in DOMAIN known \union {child} |-> IF c = child THEN s.call ELSE known[c]],
           <<>>, OfType(Import(rows, parted), "tool"))
\* Its sub-agents, each with that call; without one it is placed by time.
Agents(read) ==
  LET calls == AgentCalls(read.messages, read.parts)
  IN  [c \in 1..read.tasks |-> IF c \in DOMAIN calls THEN calls[c] ELSE 0]

-----------------------------------------------------------------------------
(* Properties.                                                             *)

Read == taken.step = "read"
Told == Import(taken.messages, taken.parts)

OpencodeTypeOK ==
  /\ Len(messages) <= MaxMessages /\ Len(parts) <= MaxParts /\ tasks \in 0..MaxTasks
  /\ \A p \in DOMAIN parts : parts[p].message \in DOMAIN messages /\ parts[p].child \in 0..tasks
  /\ Read => WellFormed(Told)

\* However opencode wrote between the queries, each message taken of the person and of the model
\* is told once and whole: with every part it had when the messages were read, in its own reply
\* or in the input of the reply that answered it, and with no part of a message that came later,
\* nor of one of another role.
MessagesWhole ==
  Read =>
    LET told == Inputs(Told) \o Outputs(OfType(Told, "llm"))
        said(p) == taken.messages[taken.parts[p].message].role # "other" /\ taken.parts[p].kind # "step"
        due(p) == taken.parts[p].message \in DOMAIN taken.messages /\ said(p)
    IN  /\ ToSet(told) = {p \in DOMAIN taken.parts : due(p)} /\ IsInjective(told)
        /\ \A p \in 1..taken.had : said(p) => p \in ToSet(told)

\* A reply is given everything sent since the reply before it, in that order, what opencode
\* added ahead of what the person typed with it.
InputsInOrder ==
  Read =>
    LET places == Inputs(Told)
        rank(p) == <<taken.parts[p].message, IF taken.parts[p].kind = "synthetic" THEN 0 ELSE 1, p>>
    IN  \A i, j \in DOMAIN places :
          i < j => \/ rank(places[i])[1] < rank(places[j])[1]
                   \/ /\ rank(places[i])[1] = rank(places[j])[1]
                      /\ \/ rank(places[i])[2] < rank(places[j])[2]
                         \/ rank(places[i])[2] = rank(places[j])[2] /\ places[i] < places[j]

\* A call is told under the reply that made it, once, and a reply taken when it was complete
\* has no call still running.
CallsUnderTheirReply ==
  Read =>
    \A s \in ToSet(OfType(Told, "tool")) :
      \E t \in ToSet(OfType(Told, "llm")) :
        /\ t.id = s.parent /\ s.call \in ToSet(t.output)
        /\ taken.messages[taken.parts[s.call].message].done => s.status # "running"

\* No call is told to have run a sub-agent the import does not have, and each sub-agent is
\* under the latest call told to have run it.
SubAgentsUnderTheirCalls ==
  Read =>
    \A s \in ToSet(OfType(Told, "tool")) :
      LET child == taken.parts[s.call].child
      IN  child # 0 => child \in DOMAIN Agents(taken) /\ Agents(taken)[child] >= s.call
                       /\ taken.parts[Agents(taken)[child]].child = child
=============================================================================
