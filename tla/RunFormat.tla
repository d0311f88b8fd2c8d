------------------------------ MODULE RunFormat -------------------------------
(***************************************************************************)
(* The rules no schema states of a session's spans (src/crates/            *)
(* slink-format: validate.rs, invariant_errors): ids are told once, and no *)
(* span is its own ancestor.  The walk up from a span ends early at one    *)
(* that an earlier walk has passed; a parent that names no span ends it.   *)
(*                                                                         *)
(* The document is in the hands of whoever wrote the file, so spans come   *)
(* in any order, under anything.                                           *)
(***************************************************************************)
EXTENDS Naturals, Sequences, FiniteSets

CONSTANTS Ids, MaxSpans  \* bound: spans of a document

FormatAssumption == MaxSpans \in Nat

VARIABLES
  spans,    \* the document's: each [id, parent]
  acyclic,  \* ids that a walk has passed
  walk,     \* the walk under way: the span it starts from, the one it is at, the ids it has seen
  verdict   \* "", or what the document is refused for, or "valid"

formatVars == <<spans, acyclic, walk, verdict>>

NoSpan == "none"
Named(s) == {i \in DOMAIN spans : spans[i].id = s}
Walk(start, at, seen) == [start |-> start, at |-> at, seen |-> seen]
Twice == \E i, j \in DOMAIN spans : i # j /\ spans[i].id = spans[j].id

-----------------------------------------------------------------------------
\* The ids are collected first; the walks begin if none is there twice.
Collect ==
  /\ verdict = "" /\ walk.start = 0
  /\ IF Twice THEN verdict' = "duplicate" /\ UNCHANGED walk
     ELSE IF spans = <<>> THEN verdict' = "valid" /\ UNCHANGED walk
     ELSE walk' = Walk(1, spans[1].id, {}) /\ UNCHANGED verdict
  /\ UNCHANGED <<spans, acyclic>>

\* One step up, from a span nobody has walked past.
Up ==
  /\ verdict = "" /\ walk.start # 0
  /\ walk.at # NoSpan /\ walk.at \notin acyclic
  /\ IF walk.at \in walk.seen THEN verdict' = "cycle" /\ UNCHANGED walk
     ELSE /\ walk' = LET i == CHOOSE i \in Named(walk.at) : TRUE
                         up == IF Named(spans[i].parent) = {} THEN NoSpan ELSE spans[i].parent
                     IN Walk(walk.start, up, walk.seen \union {walk.at})
          /\ UNCHANGED verdict
  /\ UNCHANGED <<spans, acyclic>>

\* The walk ends, at the top or where an earlier one passed: all it has seen is fine.
Top ==
  /\ verdict = "" /\ walk.start # 0
  /\ walk.at = NoSpan \/ walk.at \in acyclic
  /\ acyclic' = acyclic \union walk.seen
  /\ IF walk.start = Len(spans) THEN verdict' = "valid" /\ UNCHANGED walk
     ELSE /\ walk' = Walk(walk.start + 1, spans[walk.start + 1].id, {})
          /\ UNCHANGED verdict
  /\ UNCHANGED spans

FormatInit ==
  /\ spans \in UNION {[1 .. n -> [id : Ids, parent : Ids \union {NoSpan}]] : n \in 0 .. MaxSpans}
  /\ acyclic = {} /\ walk = Walk(0, NoSpan, {}) /\ verdict = ""

FormatNext == Collect \/ Up \/ Top

-----------------------------------------------------------------------------
(* Properties.                                                             *)

\* A set of spans each of which is under another of them: no walk up from it ends.
Endless(s) ==
  s # {} /\ \A i \in s : \E j \in s : spans[i].parent = spans[j].id
Sound == ~Twice /\ \A s \in SUBSET DOMAIN spans : ~Endless(s)

\* The shortcut misses nothing and refuses nothing it should not: a document is valid if,
\* and only if, its ids are told once and every span has a top above it.
VerdictRight ==
  /\ verdict = "valid" => Sound
  /\ verdict \in {"cycle", "duplicate"} => ~Sound

\* What an import is held to (ImportedSpans) is enough to be published.
ImportsAreValid ==
  (/\ \A i, j \in DOMAIN spans : spans[i].id = spans[j].id => i = j
   /\ \A i \in DOMAIN spans : spans[i].parent = NoSpan \/ \E j \in 1 .. i - 1 : spans[j].id = spans[i].parent)
  => verdict \in {"", "valid"}

=============================================================================
