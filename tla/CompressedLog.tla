---------------------------- MODULE CompressedLog ----------------------------
(***************************************************************************)
(* Reading a compressed log that may end anywhere (src/crates/slink-import:*)
(* discover.rs, read_transcript and first_line).                           *)
(*                                                                         *)
(* dsh (external) compresses each write into a frame of its own, and a     *)
(* frame is blocks and a checksum.  The reader comes at any time, and what *)
(* it finds is also what a crash at that time leaves.  Line j is the three *)
(* characters j, j and NL, so a block may end inside one.  A log is taken  *)
(* to be shorter than the longest one that is read (2^30 bytes).           *)
(***************************************************************************)
EXTENDS Integers, FiniteSets, Sequences, SequencesExt, Functions

CONSTANTS
  MaxFrames,  \* bound: frames
  MaxLines    \* bound: lines in one frame

\* What the constants must satisfy.
LogAssumption == {MaxFrames, MaxLines} \subseteq Nat

VARIABLES
  frames,  \* [kind, blocks, there, sum]; there: blocks wholly on disk; sum: the checksum on disk
  written  \* lines given to be written so far

vars == <<frames, written>>

NL == 0
Text(from, n) == [k \in 1..(3 * n) |-> IF k % 3 = 0 THEN NL ELSE from + ((k + 2) \div 3)]
Pieces(text) ==
  {<<text>>} \union {<<SubSeq(text, 1, k), SubSeq(text, k + 1, Len(text))>> : k \in 1..(Len(text) - 1)}

Writing == IF frames = <<>> THEN FALSE ELSE Last(frames).sum = "none"
Frame(kind, blocks, sum) == [kind |-> kind, blocks |-> blocks, there |-> 0, sum |-> sum]

Init == frames = <<>> /\ written = 0

Begin(n) ==
  /\ ~Writing /\ Len(frames) < MaxFrames
  /\ \E blocks \in Pieces(Text(written, n)) : frames' = Append(frames, Frame("data", blocks, "none"))
  /\ written' = written + n
\* A block reaches the disk, then the checksum, which damage on the way makes wrong.
Block ==
  /\ Writing /\ Last(frames).there < Len(Last(frames).blocks)
  /\ frames' = [frames EXCEPT ![Len(frames)].there = @ + 1]
  /\ UNCHANGED written
Seal(sum) ==
  /\ Writing /\ Last(frames).there = Len(Last(frames).blocks)
  /\ frames' = [frames EXCEPT ![Len(frames)].sum = sum]
  /\ UNCHANGED written
\* A frame the format says to skip, or bytes that are no frame.
Other(kind) ==
  /\ ~Writing /\ Len(frames) < MaxFrames /\ frames # <<>>
  /\ frames' = Append(frames, Frame(kind, <<>>, "right"))
  /\ UNCHANGED written

Next ==
  \/ \E n \in 1..MaxLines : Begin(n)
  \/ Block
  \/ \E sum \in {"right", "wrong"} : Seal(sum)
  \/ \E kind \in {"skip", "junk"} : Other(kind)
Spec == Init /\ [][Next]_vars

-----------------------------------------------------------------------------
(* The reader, of a log fs.                                                *)

\* The blocks ahead of what failed; a frame's last is given only with a good checksum.
WholeBlocks(f) ==
  FlattenSeq(SubSeq(f.blocks, 1, IF f.there = Len(f.blocks) THEN f.there - 1 ELSE f.there))
\* Mutant: nothing is read of a frame whose checksum is wrong.
UnpackFrameUnlessSumWrong(f) ==
  [text |-> CASE f.sum = "right" -> FlattenSeq(f.blocks) [] f.sum = "wrong" -> <<>> [] OTHER -> WholeBlocks(f),
   failed |-> f.sum # "right" \/ f.kind = "junk"]
UnpackFrame(f) ==
  CASE f.kind = "skip" -> [text |-> <<>>, failed |-> FALSE]
    [] f.kind = "junk" -> [text |-> <<>>, failed |-> TRUE]
    [] f.kind = "data" /\ f.sum = "right" -> [text |-> FlattenSeq(f.blocks), failed |-> FALSE]
    [] OTHER -> [text |-> WholeBlocks(f), failed |-> TRUE]

\* One frame after another, to a failure, or to the end of the first line.
Unpack(fs, firstLine) ==
  LET got[i \in 0..Len(fs)] ==
        IF i = 0 THEN [text |-> <<>>, failed |-> FALSE]
        ELSE LET before == got[i - 1]
                 frame == UnpackFrame(fs[i])
             IN  IF before.failed \/ (firstLine /\ NL \in Range(before.text)) THEN before
                 ELSE [text |-> before.text \o frame.text, failed |-> frame.failed]
  IN  got[Len(fs)]

\* Mutant: the last line is kept though it is torn.
UncutReadTranscript(fs) == Unpack(fs, FALSE).text

\* What failed gives the lines it completed, and is unreadable when there are none.  (A file
\* that was cut within its first four bytes is taken for plain text, one line that says nothing.)
ReadTranscript(fs) ==
  LET got == Unpack(fs, FALSE)
  IN  IF got.failed THEN SubSeq(got.text, 1, SelectLastInSeq(got.text, LAMBDA c : c = NL)) ELSE got.text
Unreadable(fs) ==
  LET got == Unpack(fs, FALSE) IN got.failed /\ NL \notin Range(got.text)

\* The lines of a text: what lies between the line ends, blank lines left out.
Lines(text) ==
  LET starts == {k \in DOMAIN text : text[k] # NL /\ (k = 1 \/ text[k - 1] = NL)}
      line(k) == LET rest == SubSeq(text, k, Len(text))
                     end == SelectInSeq(rest, LAMBDA c : c = NL)
                 IN  IF end = 0 THEN rest ELSE SubSeq(rest, 1, end - 1)
      nth(i) == CHOOSE k \in starts : Cardinality({j \in starts : j <= k}) = i
  IN  [i \in 1..Cardinality(starts) |-> line(nth(i))]
ReadLines(fs) == Lines(ReadTranscript(fs))

FirstLine(fs) ==
  LET text == Unpack(fs, TRUE).text
      end == SelectInSeq(text, LAMBDA c : c = NL)
  IN  IF end = 0 THEN text ELSE SubSeq(text, 1, end - 1)

-----------------------------------------------------------------------------
(* Properties.                                                             *)

\* The frames on disk, and how much of each, are of the right types and within the bounds.
LogTypeOK ==
  /\ Len(frames) <= MaxFrames /\ written \in 0..(MaxFrames * MaxLines)
  /\ \A i \in DOMAIN frames : /\ frames[i].there \in 0..Len(frames[i].blocks)
                              /\ frames[i].sum \in {"none", "right", "wrong"}

\* Wherever the log ends or is damaged, what read_lines gives is the log's first lines, each
\* of them whole, in order, with none twice and none torn or made up.
OnlyWholeLines ==
  LET lines == ReadLines(frames) IN \A j \in DOMAIN lines : lines[j] = <<j, j>>

\* Every line of the frames that were finished ahead of the first damage is read, and so is
\* every line finished in the blocks that are whole of the frame that was being written.
NothingFinishedIsLost ==
  LET good == {k \in 0..Len(frames) : \A i \in 1..k : frames[i].kind # "junk" /\ frames[i].sum = "right"}
      whole == CHOOSE k \in good : \A j \in good : j <= k
      sure == FlattenSeq([i \in 1..whole |-> FlattenSeq(frames[i].blocks)])
      torn == IF whole = Len(frames) THEN <<>>
              ELSE LET f == frames[whole + 1]
                   IN  FlattenSeq([b \in {x \in 1..f.there : x < Len(f.blocks)} |-> f.blocks[b]])
      due == Cardinality({k \in DOMAIN (sure \o torn) : (sure \o torn)[k] = NL})
  IN  Len(ReadLines(frames)) >= due

\* A search that reads no further than the first line of a log reads the same one an import
\* of the whole log does.
FirstLineAgrees ==
  LET lines == ReadLines(frames)
  IN  (~Unreadable(frames) /\ lines # <<>>) => FirstLine(frames) = Head(lines)

\* The longer a log grows the more is read of it: no line once read is taken back.
NeverLess == IsPrefix(ReadLines(frames), ReadLines(frames'))
=============================================================================
