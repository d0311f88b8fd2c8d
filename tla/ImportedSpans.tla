----------------------------- MODULE ImportedSpans -----------------------------
(* The vocabulary of the importers: a span is [id, parent, type, ...], and   *)
(* a message is named by its place in the transcript.  The publisher's own    *)
(* check (src/crates/slink-format: validate.rs) refuses two spans with one id *)
(* and a span that is its own ancestor; what is asked of an import here is    *)
(* stronger, for an import makes every span itself.                           *)
EXTENDS Naturals, Sequences, FiniteSets, SequencesExt

Root == 0

\* Ids are told once, and a span is under the root or a span listed before it.
WellFormed(spans) ==
  \A i \in DOMAIN spans :
    /\ spans[i].id # Root
    /\ \A j \in DOMAIN spans : spans[j].id = spans[i].id => i = j
    /\ spans[i].parent = Root \/ \E j \in 1 .. i - 1 : spans[j].id = spans[i].parent

\* Each span ends no earlier than it starts; 0 is a time that is not recorded.
TimesInOrder(spans) ==
  \A i \in DOMAIN spans :
    spans[i].started = 0 \/ spans[i].ended = 0 \/ spans[i].started <= spans[i].ended

OfType(spans, type) == SelectSeq(spans, LAMBDA s : s.type = type)
Flat(seqs) == FoldLeft(LAMBDA acc, s : acc \o s, <<>>, seqs)
Inputs(spans) == Flat([i \in DOMAIN spans |-> spans[i].input])
Outputs(spans) == Flat([i \in DOMAIN spans |-> spans[i].output])
Least(places) == CHOOSE a \in places : \A b \in places : a <= b
Greatest(places) == CHOOSE a \in places : \A b \in places : b <= a
=============================================================================
