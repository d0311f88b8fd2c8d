----------------------------- MODULE MCImports ------------------------------
(***************************************************************************)
(* Small instances of the importers, side by side, and what every one of   *)
(* them promises (src/crates/slink-import).  A behaviour is one harness's: *)
(* it records a session, and the import is a function of what is recorded  *)
(* so far.  Importers whose records are one log share the variable log.    *)
(* Beside them, what a document must be to be published and the arithmetic *)
(* of its times (src/crates/slink-format).                                 *)
(***************************************************************************)
EXTENDS Integers, Sequences, FiniteSets

CONSTANTS
  MaxFrames, MaxFrameLines,  \* a compressed log
  FirstDays, MaxDays         \* dates

VARIABLES
  harness,                          \* whose session this behaviour is about
  log, memory, back, lost,          \* pi; Codex, Claude Code and dsh have a log alone
  rows,                             \* Hermes, with its memory
  runs, inputs, clock,              \* aider
  messages, parts, tasks, taken,    \* opencode
  events, agents, now,              \* sub-agents of any harness
  frames, written,                  \* dsh's compressed log
  spans, acyclic, walk, verdict,    \* RunFormat
  day, date, walked                 \* Calendar

PiTree == INSTANCE PiImport WITH Calls <- {"c"}, MaxEntries <- 4, MaxLost <- 0, Linked <- TRUE
PiFlat == INSTANCE PiImport WITH Calls <- {"c"}, MaxEntries <- 3, MaxLost <- 1, Linked <- FALSE
Codex == INSTANCE CodexImport WITH
  Calls <- {"c"}, Turns <- {"t"}, Models <- {"m", "n"}, MaxItems <- 4, History <- 0
Forked == INSTANCE CodexImport WITH
  Calls <- {"c"}, Turns <- {"t"}, Models <- {"m"}, MaxItems <- 4, History <- 2
Claude == INSTANCE ClaudeImport WITH Calls <- {"c"}, Responses <- {"m"}, MaxEntries <- 4, MaxSide <- 1
Dsh == INSTANCE DshImport WITH
  Calls <- {"c", "d"}, Children <- {"s", "t"}, MaxEvents <- 5, SubAgent <- TRUE
Hermes == INSTANCE HermesImport WITH Calls <- {"c"}, MaxRows <- 4
Aider == INSTANCE AiderImport WITH Texts <- {"a"}, Models <- {"m1", "m2"}, MaxLines <- 4, MaxRuns <- 2, MaxTime <- 4
Opencode == INSTANCE OpencodeImport WITH MaxMessages <- 3, MaxParts <- 3, MaxTasks <- 2
Nested == INSTANCE SubAgents WITH MaxTime <- 6, MaxAgents <- 2, MaxDepth <- 2, Flat <- FALSE
Listed == INSTANCE SubAgents WITH MaxTime <- 6, MaxAgents <- 2, MaxDepth <- 2, Flat <- TRUE
Packed == INSTANCE CompressedLog WITH MaxLines <- MaxFrameLines
Format == INSTANCE RunFormat WITH Ids <- {"a", "b", "c"}, MaxSpans <- 3
Dates == INSTANCE Calendar
\* About the year 0, leap years and others, ends of centuries and eras, and 1970.
YearEnds == {[year |-> y, month |-> 12, day |-> 30] : y \in {-1, 3, 1599, 1899, 1969, 1999, 2023, 2099}}

Is(name) == harness = name

piOnly == <<memory, back, lost>>
hermesOnly == <<rows>>
aiderVars == <<runs, inputs, clock>>
opencodeVars == <<messages, parts, tasks, taken>>
nestedVars == <<events, agents, now>>
packedVars == <<frames, written>>
importVars == <<log, piOnly, hermesOnly, aiderVars, opencodeVars, nestedVars, packedVars>>
checkVars == <<spans, acyclic, walk, verdict>>
dateVars == <<day, date, walked>>
vars == <<harness, importVars, checkVars, dateVars>>

ASSUME ImportsAssumption ==
  /\ PiTree!PiAssumption /\ PiFlat!PiAssumption /\ Codex!CodexAssumption /\ Forked!CodexAssumption
  /\ Claude!ClaudeAssumption /\ Dsh!DshAssumption /\ Hermes!HermesAssumption
  /\ Aider!AiderAssumption /\ Opencode!OpencodeAssumption
  /\ Nested!SubAgentsAssumption /\ Listed!SubAgentsAssumption /\ Packed!LogAssumption
  /\ Format!FormatAssumption /\ Dates!CalendarAssumption

Init ==
  /\ harness \in {"pi", "pi without ids", "codex", "forked codex", "claude-code", "dsh", "hermes", "aider",
                  "opencode", "sub-agents", "listed sub-agents", "compressed log", "document", "dates"}
  /\ PiTree!Init /\ Hermes!Init /\ Aider!Init /\ Opencode!Init /\ Nested!Init /\ Packed!Init
  /\ Format!FormatInit /\ Dates!CalendarInit
  /\ ~Is("document") => spans = <<>>
  /\ ~Is("dates") => date.year = 1969

LogNext ==
  /\ \/ Is("codex") /\ Codex!Next
     \/ Is("forked codex") /\ Forked!Next
     \/ Is("claude-code") /\ Claude!Next
     \/ Is("dsh") /\ Dsh!Next
  /\ UNCHANGED piOnly
PiNext ==
  \/ Is("pi") /\ PiTree!Next
  \/ Is("pi without ids") /\ PiFlat!Next
NestedNext ==
  \/ Is("sub-agents") /\ Nested!Next
  \/ Is("listed sub-agents") /\ Listed!Next
ImportNext ==
  /\ UNCHANGED <<harness, checkVars, dateVars>>
  /\ \/ (LogNext \/ PiNext) /\ UNCHANGED <<hermesOnly, aiderVars, opencodeVars, nestedVars, packedVars>>
     \/ /\ Is("hermes") /\ Hermes!Next
        /\ UNCHANGED <<log, back, lost, aiderVars, opencodeVars, nestedVars, packedVars>>
     \/ /\ Is("aider") /\ Aider!Next
        /\ UNCHANGED <<log, piOnly, hermesOnly, opencodeVars, nestedVars, packedVars>>
     \/ /\ Is("opencode") /\ Opencode!Next
        /\ UNCHANGED <<log, piOnly, hermesOnly, aiderVars, nestedVars, packedVars>>
     \/ NestedNext /\ UNCHANGED <<log, piOnly, hermesOnly, aiderVars, opencodeVars, packedVars>>
     \/ /\ Is("compressed log") /\ Packed!Next
        /\ UNCHANGED <<log, piOnly, hermesOnly, aiderVars, opencodeVars, nestedVars>>
CheckNext ==
  /\ UNCHANGED <<harness, importVars>>
  /\ \/ Is("document") /\ Format!FormatNext /\ UNCHANGED dateVars
     \/ Is("dates") /\ Dates!Tomorrow /\ UNCHANGED checkVars

Next == ImportNext \/ CheckNext
Spec == Init /\ [][Next]_vars

-----------------------------------------------------------------------------
(* Properties.                                                             *)

\* An import tells each message of the person, reply and result exactly once and in order: of the
\* conversation pi and Hermes would go on with, nothing undone or abandoned; of a Codex thread,
\* nothing of the one it was forked from; of an Aider run, nothing of another run; of opencode,
\* nothing written behind the reader's back.  Of a Claude Code transcript every entry in the
\* file is told, undone ones too: its tree of entries is not read.  And it is a session that can
\* be published: whatever is in a document, the check refuses it only if it has an id twice or
\* a span above itself.
ToldOnce ==
  /\ Is("pi") => PiTree!PiTypeOK /\ PiTree!ResumedBranch /\ PiTree!ToldOnce
  /\ Is("pi without ids") => PiFlat!PiTypeOK /\ PiFlat!ToldOnce
  /\ Is("codex") => Codex!CodexTypeOK /\ Codex!EachItemOnce
  /\ Is("forked codex") => Forked!CodexTypeOK /\ Forked!EachItemOnce
  /\ Is("claude-code") => Claude!ClaudeTypeOK /\ Claude!EachEntryOnce /\ Claude!OneCallPerResponse
  /\ Is("dsh") => Dsh!DshTypeOK /\ Dsh!EachEventOnce /\ Dsh!SentBeforeAnswered
  /\ Is("hermes") => Hermes!HermesTypeOK /\ Hermes!ResumedConversation
  /\ Is("aider") => Aider!AiderTypeOK /\ Aider!ToldInOrder /\ Aider!EntriesApart
  /\ Is("opencode") => Opencode!OpencodeTypeOK /\ Opencode!MessagesWhole /\ Opencode!InputsInOrder
  /\ Is("document") => Format!VerdictRight /\ Format!ImportsAreValid

\* A tool call is told under the reply that made it and holds the first answer to it, given
\* before a model used the call's id again.
CallsAnswered ==
  /\ Is("pi") => PiTree!ResultsMatch
  /\ Is("pi without ids") => PiFlat!ResultsMatch
  /\ Is("codex") => Codex!ResultsMatch
  /\ Is("forked codex") => Forked!ResultsMatch
  /\ Is("claude-code") => Claude!ResultsMatch /\ Claude!CallsUnderTheirReply
  /\ Is("dsh") => Dsh!ResultsMatch /\ Dsh!UnderLatestReply
  /\ Is("hermes") => Hermes!ResultsMatch
  /\ Is("opencode") => Opencode!CallsUnderTheirReply

\* A reply is put down to the model and the time that its harness recorded for it, and not to
\* those of the turn or the run before or after it, and no two replies are charged the tokens of
\* one count; and a time is one moment, which a document may have, whatever the date and however
\* it is written.
OwnModelAndTimes ==
  /\ Is("pi") => PiTree!PiTimesInOrder
  /\ Is("codex") => Codex!ChargedOnce /\ Codex!ModelOfItsTurn /\ Codex!CodexTimes
  /\ Is("forked codex") => Forked!ChargedOnce /\ Forked!ModelOfItsTurn /\ Forked!CodexTimes
  /\ Is("aider") => Aider!ModelInForce /\ Aider!TimesAreTheRuns
  /\ Is("dates") => Dates!ArithmeticKeepsUp /\ Dates!ReadIsAllowed /\ Dates!SameMoment

\* A sub-agent's session is nested whole, once, under the call that started it or ran while
\* it did, at every depth.
AgentsUnderTheirCalls ==
  /\ Is("sub-agents") =>
       /\ Nested!SubAgentsTypeOK /\ Nested!NestedWellFormed /\ Nested!NothingLost /\ Nested!UnderItsCall
       /\ Nested!NeverUnderAnIdleCall /\ Nested!FinishedCallAdopts
  /\ Is("listed sub-agents") =>
       Listed!SubAgentsTypeOK /\ Listed!NestedWellFormed /\ Listed!NothingLost /\ Listed!UnderItsCall
  /\ Is("dsh") => Dsh!ChildUnderItsCall /\ Dsh!OneChildPerCall
  /\ Is("opencode") => Opencode!SubAgentsUnderTheirCalls

\* As a session grows, what was told of it is told again in the same place under the same
\* id: a link to a span still shows it.  Only what had not been answered is filled in.
SpansStay ==
  [][/\ Is("pi") => PiTree!GrowsInPlace
     /\ Is("pi without ids") => PiFlat!GrowsInPlace
     /\ Is("codex") => Codex!GrowsInPlace
     /\ Is("forked codex") => Forked!GrowsInPlace
     /\ Is("claude-code") => Claude!GrowsInPlace
     /\ Is("dsh") => Dsh!GrowsInPlace
     /\ Is("hermes") => Hermes!GrowsInPlace
     /\ Is("aider") => Aider!GrowsInPlace
     /\ Is("compressed log") => Packed!NeverLess]_vars

\* Wherever a compressed log ends or is damaged, whole lines are read of it, none of those
\* that were finished is lost, and its first line is the same read alone.
WholeLinesRead ==
  Is("compressed log") =>
    Packed!LogTypeOK /\ Packed!OnlyWholeLines /\ Packed!NothingFinishedIsLost /\ Packed!FirstLineAgrees
=============================================================================
