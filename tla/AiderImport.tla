----------------------------- MODULE AiderImport -----------------------------
(***************************************************************************)
(* Importing one run of an Aider chat history (src/crates/slink-import:    *)
(* aider.rs).                                                              *)
(*                                                                         *)
(* Aider (external) appends every run of a project to one file: a line     *)
(* that opens the run with the time, then what the person typed, the       *)
(* model's replies and Aider's own notices, told apart by how a line       *)
(* begins.  Only the input history beside it says when an entry was typed, *)
(* and it may lack one (given on the command line) or hold one more (not   *)
(* sent).  The import may be taken after any line.                         *)
(***************************************************************************)
EXTENDS ImportedSpans

CONSTANTS
  Texts,     \* what a typed line can say
  Models,    \* models a notice can name
  MaxLines,  \* bound: lines of the file, blank ones and openings not counted
  MaxRuns,   \* bound: runs
  MaxTime    \* bound: moments at which a run is opened or an entry typed

\* What the constants must satisfy.
AiderAssumption == MaxLines \in Nat /\ MaxRuns \in Nat /\ MaxTime \in Nat

VARIABLES
  runs,    \* each run: [began, lines]; a line is [kind, text, at, entry]
  inputs,  \* the input history: [text, at], in order
  clock

vars == <<runs, inputs, clock>>

None == "none"
Blank == [kind |-> "blank", text |-> None, at |-> 0, entry |-> 0]
Told(lines) == SelectSeq(lines, LAMBDA l : l.kind # "blank")
Size == FoldLeft(LAMBDA n, r : n + Len(Told(r.lines)), 0, runs)
\* Lines are numbered as they are written; an entry by the time it was typed.
Write(new) ==
  /\ runs # <<>> /\ Size + Len(Told(new)) <= MaxLines
  /\ runs' = [runs EXCEPT ![Len(runs)].lines = @ \o new]
Line(kind, text, k) == [kind |-> kind, text |-> text, at |-> Size + k, entry |-> clock]

Init == runs = <<>> /\ inputs = <<>> /\ clock = 0
OpenRun ==
  /\ Len(runs) < MaxRuns /\ Size < MaxLines /\ clock < MaxTime
  /\ clock' = clock + 1
  /\ runs' = Append(runs, [began |-> clock', lines |-> <<>>])
  /\ UNCHANGED inputs
Type(entry, recorded) ==
  /\ clock < MaxTime
  /\ Write(<<Blank>> \o [k \in DOMAIN entry |-> [Line("typed", entry[k], k) EXCEPT !.entry = clock + 1]])
  /\ clock' = clock + 1
  /\ inputs' = IF recorded THEN Append(inputs, [text |-> entry, at |-> clock']) ELSE inputs
\* Accepted at the prompt and never sent.
Unsent(entry) ==
  /\ runs # <<>> /\ Size < MaxLines /\ clock < MaxLines - 1
  /\ clock' = clock + 1
  /\ inputs' = Append(inputs, [text |-> entry, at |-> clock'])
  /\ UNCHANGED runs
Reply(paragraphs) ==
  /\ Write(<<Blank, Line("reply", None, 1)>>
             \o (IF paragraphs = 2 THEN <<Blank, Line("reply", None, 2)>> ELSE <<>>) \o <<Blank>>)
  /\ UNCHANGED <<inputs, clock>>
Notice(model) == Write(<<Line("notice", model, 1)>>) /\ UNCHANGED <<inputs, clock>>

Entries == {<<t>> : t \in Texts} \union {<<t, u>> : t, u \in Texts}
Next ==
  \/ OpenRun
  \/ \E entry \in Entries, recorded \in BOOLEAN : Type(entry, recorded)
  \/ \E entry \in Entries : Unsent(entry)
  \/ \E paragraphs \in 1..2 : Reply(paragraphs)
  \/ \E model \in Models \union {None} : Notice(model)
Spec == Init /\ [][Next]_vars

-----------------------------------------------------------------------------
(* The import.                                                             *)

\* The run an id names, the latest of that name; with none, the last one.
Pick(file, id) ==
  IF id = 0 THEN Len(file) ELSE SelectLastInSeq(file, LAMBDA r : r.began = id)
\* Mutant: entries of the runs after it are its own too.
ReadRunOnwards(file, history, id) ==
  LET at == Pick(file, id)
  IN  [lines |-> file[at].lines, inputs |-> SelectSeq(history, LAMBDA e : e.at >= file[at].began),
       began |-> file[at].began]
\* Its lines, and the typed entries from its start to the next run's.
ReadRun(file, history, id) ==
  LET at == Pick(file, id)
      within(e) == e.at >= file[at].began /\ (at < Len(file) => e.at < file[at + 1].began)
  IN  [lines |-> file[at].lines, inputs |-> SelectSeq(history, within), began |-> file[at].began]

\* Stretches of lines from one writer.  A blank line ends a typed entry and nothing else.
Extend(b, line) == [b EXCEPT !.list = Front(@) \o <<Append(Last(@), line)>>]
Open(b, line) == [b EXCEPT !.list = Append(@, <<line>>)]
Continues(b, line) == b.list # <<>> /\ Last(Last(b.list)).kind = line.kind
TakeLine(b, line) ==
  IF line.kind = "blank" THEN [b EXCEPT !.typing = FALSE]
  ELSE [(IF Continues(b, line) /\ (line.kind = "typed" => b.typing) THEN Extend(b, line) ELSE Open(b, line))
          EXCEPT !.typing = (line.kind = "typed")]
Blocks(lines) == FoldLeft(TakeLine, [list |-> <<>>, typing |-> FALSE], lines).list

Said(block) == [k \in DOMAIN block |-> block[k].text]
Places(block) == [k \in DOMAIN block |-> block[k].at]

\* cursor: typed entries before it are used; waiting: when the first pending entry was typed.
Reading == [spans |-> <<>>, pending |-> <<>>, waiting |-> 0, cursor |-> 1, model |-> "unknown", begun |-> FALSE]
Span(r, type) ==
  [id |-> Len(r.spans) + 1, parent |-> Root, type |-> type, input |-> <<>>, output |-> <<>>,
   started |-> 0, ended |-> 0, model |-> None]
\* A span that answers what was waiting.
AddTimed(r, span) ==
  [r EXCEPT !.spans = Append(@, [span EXCEPT !.input = r.pending, !.started = r.waiting]),
            !.pending = <<>>, !.waiting = 0]
Flush(r) == IF r.pending = <<>> THEN r ELSE AddTimed(r, Span(r, "custom"))

\* The next typed entry not yet used that says the same.
TypedAt(r, said, typed) ==
  {k \in r.cursor..Len(typed) : typed[k].text = said /\ \A j \in r.cursor..(k - 1) : typed[j].text # said}

Person(r, block, typed) ==
  LET found == TypedAt(r, Said(block), typed)
  IN  [r EXCEPT !.begun = TRUE, !.pending = Append(@, Places(block)),
                !.cursor = IF found = {} THEN @ ELSE Least(found) + 1,
                !.waiting = IF found # {} /\ r.pending = <<>> THEN typed[Least(found)].at ELSE @]
Model(r, block) ==
  AddTimed([r EXCEPT !.begun = TRUE],
           [Span(r, "llm") EXCEPT !.output = <<Places(block)>>, !.model = r.model])
Aider(r, block) ==
  LET done == Flush(r)
      named == SelectSeq(block, LAMBDA l : l.text # None)
      span == [Span(done, IF r.begun THEN "tool" ELSE "custom") EXCEPT !.output = <<Places(block)>>]
  IN  [done EXCEPT !.spans = Append(@, span),
                   !.model = IF named = <<>> THEN @ ELSE Last(named).text]

Take(r, block, typed) ==
  CASE block[1].kind = "typed" -> Person(r, block, typed)
    [] block[1].kind = "reply" -> Model(r, block)
    [] OTHER -> Aider(r, block)
Import(run) ==
  Flush(FoldLeft(LAMBDA r, block : Take(r, block, run.inputs), Reading, Blocks(run.lines))).spans

-----------------------------------------------------------------------------
(* Properties.                                                             *)

\* Each with its import.
Imports == {[run |-> r, spans |-> Import(ReadRun(runs, inputs, r.began))] : r \in ToSet(runs)}
LinesOf(run, kinds) ==
  LET told == SelectSeq(run.lines, LAMBDA l : l.kind \in kinds) IN [k \in DOMAIN told |-> told[k].at]

AiderTypeOK ==
  /\ Size <= MaxLines /\ Len(runs) <= MaxRuns
  /\ \A r \in ToSet(runs) : r.lines # <<>> => WellFormed(Import(ReadRun(runs, inputs, r.began)))

\* An import tells every line of its run, once and in the order they were written, whoever
\* wrote it, and no line of another run in the same file.
ToldInOrder ==
  \A i \in Imports :
    Flat(Flat([k \in DOMAIN i.spans |-> i.spans[k].input \o i.spans[k].output]))
      = LinesOf(i.run, {"typed", "reply", "notice"})

\* What the person sent at once is one message, and two entries are never run together.
EntriesApart ==
  \A i \in Imports :
    \A s \in ToSet(i.spans) : \A message \in ToSet(s.input) :
      ToSet(message) \in {{l.at : l \in {x \in ToSet(i.run.lines) : x.kind = "typed" /\ x.entry = e}} : e \in 1..clock}

\* A reply is put down to the model last announced before it in its own run.
ModelInForce ==
  \A i \in Imports :
    \A s \in ToSet(OfType(i.spans, "llm")) :
      LET named == SelectSeq(i.run.lines, LAMBDA l : l.kind = "notice" /\ l.text # None /\ l.at < s.output[1][1])
      IN  s.model = IF named = <<>> THEN "unknown" ELSE Last(named).text

\* Times come from the input history of this run, in the order of the spans.  When it holds
\* just what was typed, each span has the time of its own first entry.
TimesAreTheRuns ==
  \A i \in Imports :
    LET timed == SelectSeq(i.spans, LAMBDA s : s.started # 0)
        typed == {l \in ToSet(i.run.lines) : l.kind = "typed"}
        recorded == {e.at : e \in {x \in ToSet(inputs) :
                       x.at > i.run.began /\ \A r \in ToSet(runs) : r.began > i.run.began => x.at < r.began}}
    IN  /\ \A k \in 1..(Len(timed) - 1) : timed[k].started < timed[k + 1].started
        /\ \A s \in ToSet(timed) : s.started \in recorded
        /\ {l.entry : l \in typed} = recorded =>
             \A s \in ToSet(i.spans) :
               s.input # <<>> => \E l \in typed : l.at = s.input[1][1] /\ s.started = l.entry

\* A run that goes on tells again, in place, every span but the last, which was not done.
GrowsInPlace ==
  \A k \in DOMAIN runs :
    LET old == Import(ReadRun(runs, inputs, runs[k].began))
        new == Import(ReadRun(runs', inputs', runs[k].began))
    IN  \A i \in 1..(Len(old) - 1) :
          /\ i \in DOMAIN new
          /\ <<new[i].id, new[i].type, new[i].input, new[i].output, new[i].model>>
               = <<old[i].id, old[i].type, old[i].input, old[i].output, old[i].model>>
=============================================================================
