------------------------------- MODULE PiImport -------------------------------
(***************************************************************************)
(* Importing a pi or omp transcript (src/crates/slink-import: pi.rs).      *)
(*                                                                         *)
(* pi (external) writes one entry on each line, with the entry it follows; *)
(* a person may go back to an earlier entry and carry on from there, which *)
(* leaves the turns given up in the file.  A line may be lost: cut short   *)
(* by a crash, or unreadable.  The import may be taken after any line.     *)
(*                                                                         *)
(* An entry is told apart by its kind and the tool calls it makes or       *)
(* answers; its place in the file stands for its text and for its time.    *)
(* "user" stands for a developer's message too, "other" for a message of a *)
(* role that is not read.                                                  *)
(***************************************************************************)
EXTENDS ImportedSpans

CONSTANTS
  Calls,       \* tool call ids; a model may use one again
  MaxEntries,  \* bound: lines
  MaxLost,     \* bound: lines that cannot be read
  Linked       \* whether entries have ids: not in sessions from before the tree

\* What the constants must satisfy.
PiAssumption == MaxEntries \in Nat /\ MaxLost \in Nat /\ Linked \in BOOLEAN

VARIABLES
  log,     \* the entries, in file order: [id, parent, kind, calls, call]
  memory,  \* what pi itself holds: the entries of the conversation, in order
  back,    \* whether the person went back and nothing was written since
  lost     \* lines that cannot be read

vars == <<log, memory, back, lost>>

NoEntry == 0
Told == {"user", "assistant", "result", "summary"}
Kinds == Told \union {"other", "start", "info"}
Entry(kind, calls, call) ==
  [id |-> IF Linked THEN Len(log) + 1 ELSE NoEntry,
   parent |-> IF Linked /\ memory # <<>> THEN Last(memory) ELSE NoEntry,
   kind |-> kind, calls |-> calls, call |-> call, at |-> Len(log) + 1]

-----------------------------------------------------------------------------
(* pi, writing.                                                            *)

Write(entry) ==
  /\ Len(log) < MaxEntries
  /\ log' = Append(log, entry)
  /\ memory' = Append(memory, Len(log) + 1)
  /\ back' = FALSE
  /\ UNCHANGED lost

Writes ==
  \/ \E k \in {"user", "other", "summary", "info"} : Write(Entry(k, <<>>, ""))
  \/ \E cs \in {<<>>} \union {<<c>> : c \in Calls} \union {<<c, d>> : c, d \in Calls} :
       Write(Entry("assistant", cs, ""))
  \/ \E k \in {"result", "start"}, c \in Calls : Write(Entry(k, <<>>, c))

GoBack ==
  /\ Linked
  /\ \E k \in 1 .. Len(memory) - 1 : memory' = SubSeq(memory, 1, k)
  /\ back' = TRUE
  /\ UNCHANGED <<log, lost>>

LoseLine ==
  /\ Cardinality(lost) < MaxLost
  /\ \E i \in DOMAIN log \ lost : lost' = lost \union {i}
  /\ UNCHANGED <<log, memory, back>>

Init == log = <<>> /\ memory = <<>> /\ back = FALSE /\ lost = {}
Next == Writes \/ GoBack \/ LoseLine
Spec == Init /\ [][Next]_vars

-----------------------------------------------------------------------------
(* The import.                                                             *)

\* A line that cannot be parsed is passed over.
Read(entries, without) == SelectSeq(entries, LAMBDA e : e.at \notin without)

IsMessage(e) == e.kind \in {"user", "assistant", "result", "other"}

\* active_branch: up from the last entry; every entry in file order when an entry has no
\* id, or one passed already, or a parent that is not there.  A climb is a path upwards
\* of places in the file; it ends at 0 when the parent is missing.
Holder(es, id) == FoldLeft(LAMBDA found, i : IF es[i].id = id THEN i ELSE found, 0, [i \in DOMAIN es |-> i])
Climb(es) ==
  LET up(path, i) == IF path[1] = 0 \/ es[path[1]].parent = NoEntry THEN path
                     ELSE <<Holder(es, es[path[1]].parent)>> \o path
  IN  FoldLeft(up, <<Len(es)>>, es)
Whole(path, es) ==
  /\ IsInjective(path) /\ Head(path) # 0
  /\ \A k \in DOMAIN path : es[path[k]].id # NoEntry
  /\ es[Head(path)].parent = NoEntry
Along(path, es) == IF Whole(path, es) THEN [k \in DOMAIN path |-> es[path[k]]] ELSE es
\* Mutant: the turns given up are imported too.
WholeFile(es) == es
ActiveBranch(es) == IF es = <<>> THEN es ELSE Along(Climb(es), es)

Start == [spans |-> <<>>, pending |-> <<>>, since |-> 0, previous |-> 0, open |-> <<>>]

Gather(acc, e) ==
  [acc EXCEPT !.pending = Append(@, e.at), !.since = IF @ = 0 THEN e.at ELSE @]

\* The place in spans of the call still open under an id, in a set of at most one.
OpenCall(acc, call) == {i \in DOMAIN acc.open : acc.open[i] = call}

\* A reply: an llm_call given what is pending, and a span for each of its calls.  A call
\* opened under an id that is open already takes that id over.
Reply(acc, e) ==
  LET id == Len(acc.spans) + 1
      llm == [id |-> id, parent |-> Root, type |-> "llm", input |-> acc.pending, output |-> e.at,
              call |-> "", result |-> 0, started |-> acc.previous, ended |-> e.at]
      tool(k) == [id |-> id + k, parent |-> id, type |-> "tool", input |-> <<>>, output |-> 0,
                  call |-> e.calls[k], result |-> 0, started |-> e.at, ended |-> 0]
      places == id + 1 .. id + Len(e.calls)
      latest(i) == \A j \in places : e.calls[j - id] = e.calls[i - id] => j <= i
      kept == {i \in DOMAIN acc.open : \A k \in DOMAIN e.calls : e.calls[k] # acc.open[i]}
  IN  [acc EXCEPT !.spans = @ \o <<llm>> \o [k \in DOMAIN e.calls |-> tool(k)],
                  !.pending = <<>>, !.since = 0,
                  !.open = [i \in kept \union {i \in places : latest(i)} |->
                              IF i \in kept THEN acc.open[i] ELSE e.calls[i - id]]]

\* A result closes the call it names, and is what the next reply is given.
Result(acc, e) ==
  LET closed == OpenCall(acc, e.call)
  IN  Gather([acc EXCEPT
        !.spans = [i \in DOMAIN @ |-> IF i \in closed THEN [@[i] EXCEPT !.result = e.at, !.ended = e.at]
                                      ELSE @[i]],
        !.open = [i \in DOMAIN @ \ closed |-> @[i]]], e)

\* omp: when a tool really started.
Started(acc, e) ==
  [acc EXCEPT !.spans = [i \in DOMAIN @ |-> IF i \in OpenCall(acc, e.call)
                                            THEN [@[i] EXCEPT !.started = e.at] ELSE @[i]]]

Take(acc, e) ==
  CASE e.kind = "summary" -> Gather(acc, e)
    [] e.kind = "start" -> Started(acc, e)
    [] e.kind = "user" -> [Gather(acc, e) EXCEPT !.previous = e.at]
    [] e.kind = "result" -> [Result(acc, e) EXCEPT !.previous = e.at]
    [] e.kind = "assistant" -> [Reply(acc, e) EXCEPT !.previous = e.at]
    [] e.kind = "other" -> [acc EXCEPT !.previous = e.at]
    [] OTHER -> acc

\* What is pending at the end is kept as a span of its own; no reply is made up for it.
Trailing(acc) ==
  IF acc.pending = <<>> THEN acc.spans
  ELSE Append(acc.spans,
         [id |-> Len(acc.spans) + 1, parent |-> Root, type |-> "custom", input |-> acc.pending,
          output |-> 0, call |-> "", result |-> 0,
          started |-> IF acc.since = 0 THEN acc.previous ELSE acc.since, ended |-> acc.previous])

\* to_run: no session when nothing was said on the branch.
Run(branch, said) ==
  IF said = <<>> THEN <<>>
  ELSE Trailing(FoldLeft(Take, [Start EXCEPT !.previous = Head(said).at], branch))

Replayed(entries, without) == ActiveBranch(Read(entries, without))
ImportBranch(branch) == Run(branch, SelectSeq(branch, IsMessage))
Import(entries, without) == ImportBranch(Replayed(entries, without))
Places(es) == [i \in DOMAIN es |-> es[i].at]

-----------------------------------------------------------------------------
(* Properties.                                                             *)

PiTypeOK ==
  /\ Len(log) <= MaxEntries /\ lost \subseteq DOMAIN log
  /\ \A i \in DOMAIN log : log[i].kind \in Kinds /\ log[i].parent < i
  /\ \A i \in DOMAIN memory : memory[i] \in DOMAIN log
  /\ WellFormed(Import(log, lost))

\* The branch imported is the conversation pi itself would go on with, as long as the
\* person has written something since they went back.
ResumedBranch ==
  (Linked /\ lost = {} /\ ~back) =>
    Places(Replayed(log, lost)) = memory

\* Every message of the person, of the harness to the model, of the model and of a tool on the
\* branch, and every summary the model was given, is in the import exactly once, in its order.
\* A message of any other role is counted as one and told nowhere.
AllTold(spans, branch) ==
  LET told(s) == s.input \o (IF s.output = 0 THEN <<>> ELSE <<s.output>>)
      said == SelectSeq(branch, LAMBDA e : e.kind \in Told)
  IN  spans # <<>> => Flat([i \in DOMAIN spans |-> told(spans[i])]) = Places(said)
ToldOnce == AllTold(Import(log, lost), Replayed(log, lost))

\* A tool span holds the result of its own call: the first one after it under its id, and
\* before the model used that id again; so each result closes one span at most.
FirstResults(spans, branch) ==
  LET tools == {i \in DOMAIN spans : spans[i].type = "tool"}
      made == [i \in tools |-> CHOOSE k \in DOMAIN branch :
                                 \E j \in DOMAIN spans : spans[j].id = spans[i].parent
                                                         /\ spans[j].output = branch[k].at]
      later == [i \in tools |-> {k \in DOMAIN branch :
                  k > made[i] /\ branch[k].kind = "result" /\ branch[k].call = spans[i].call}]
      again == [i \in tools |-> {made[j] : j \in {t \in tools : t > i /\ spans[t].call = spans[i].call}}]
      first == [i \in tools |-> {k \in later[i] : \A m \in later[i] \union again[i] : k <= m}]
  IN  \A i \in tools : {spans[i].result} \ {0} = {branch[k].at : k \in first[i]}
ResultsMatch == FirstResults(Import(log, lost), Replayed(log, lost))

\* No reply and no call ends before it starts, when lines are in the order of their times.
\* (The trailing span can: a summary at the very end starts it and moves no end.)
PiTimesInOrder == TimesInOrder(SelectSeq(Import(log, lost), LAMBDA s : s.type # "custom"))

\* A longer transcript of the same conversation imports to the same spans, and more: a
\* page's link to a span still shows it.  Only what was unanswered may be filled in.
Extends ==
  LET old == SelectSeq(Import(log, lost), LAMBDA s : s.type # "custom")
      new == Import(log', lost')
  IN  \A i \in DOMAIN old :
        /\ i \in DOMAIN new
        /\ new[i].id = old[i].id /\ new[i].parent = old[i].parent
        /\ new[i].input = old[i].input /\ new[i].output = old[i].output
        /\ old[i].result # 0 => new[i].result = old[i].result
GrowsInPlace == (~back /\ lost' = lost /\ lost = {} /\ log' # log) => Extends
=============================================================================
