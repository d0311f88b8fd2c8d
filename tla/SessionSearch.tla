---------------------------- MODULE SessionSearch ----------------------------
(***************************************************************************)
(* Which session a command is about (src/crates/slink-import: discover.rs  *)
(* and each harness's search; src/crates/slink: import.rs, publish.rs,     *)
(* view.rs).                                                               *)
(*                                                                         *)
(* Agents start sessions, spawn sub-agents and write to both while a       *)
(* command looks for a session, shows what it found, and only then reads   *)
(* it.  A directory is a sequence of names and a name a sequence of words, *)
(* because several harnesses join them all to name a project.  Sessions    *)
(* are numbered as their files sort.  Hermes's search is HermesSessions.   *)
(***************************************************************************)
EXTENDS Integers, Sequences, FiniteSets

CONSTANTS
  Harnesses,    \* the harnesses in use, of the names below
  Dirs,         \* where sessions are started and commands are run
  Home,         \* the person's home directory
  PiShared,     \* pi is set to keep every project's sessions in one directory
  MaxSessions,  \* bound: sessions
  MaxTime,      \* bound: the clock
  Limit,        \* rows in a listing (30 in the code)
  Opened        \* rollouts Codex's search opens (500 in the code)

\* What the constants must satisfy.
SearchAssumption ==
  /\ Harnesses \subseteq {"aider", "claude-code", "codex", "dsh", "opencode", "pi"}
  /\ PiShared \in BOOLEAN
  /\ Dirs \union {Home} \subseteq Seq(Seq(STRING))
  /\ MaxSessions \in Nat /\ {MaxTime, Limit, Opened} \subseteq Nat \ {0}

VARIABLES
  clock,
  sessions,  \* [harness, dir, parent, began, wrote]; parent 0: the person's own
  captures,  \* local captures: [dir, wrote]
  cmd        \* the command under way

vars == <<clock, sessions, captures, cmd>>

Idle == [step |-> "idle", cwd |-> Home, from |-> "", rows |-> {}, pick |-> {}, got |-> 0]
Init == clock = 1 /\ sessions = <<>> /\ captures = {} /\ cmd = Idle

All == DOMAIN sessions
Of(h) == {i \in All : sessions[i].harness = h}
Own(i) == sessions[i].parent = 0
Id(i) == IF sessions[i].harness = "aider" THEN <<"time", sessions[i].began>> ELSE <<"session", i>>
NoId == <<>>

-----------------------------------------------------------------------------
(* The stores, each harness's own way.                                     *)

Newer(i, j) == sessions[i].wrote > sessions[j].wrote \/ (sessions[i].wrote = sessions[j].wrote /\ i < j)
Newest(files, n) == {i \in files : Cardinality({j \in files : Newer(j, i)}) < n}

\* A project's name in a store: its words, however they were divided.
Slug(dir) ==
  LET words[n \in 0..Len(dir)] == IF n = 0 THEN <<>> ELSE words[n - 1] \o dir[n]
  IN  words[Len(dir)]

\* Sub-agents' transcripts are kept apart from the sessions'.
ClaudeTranscripts(dir) == {i \in Of("claude-code") : Own(i) /\ Slug(sessions[i].dir) = Slug(dir)}
PiTranscripts(dir) ==
  {i \in Of("pi") : IF PiShared THEN sessions[i].dir = dir ELSE Slug(sessions[i].dir) = Slug(dir)}
\* Every rollout is in the store, sub-agents' too; its header says whose and where.
CodexOwn(i, dir) == sessions[i].dir = dir /\ Own(i)
DshSessions(dir, subAgents) ==
  {i \in Of("dsh") : /\ Slug(sessions[i].dir) = Slug(dir)
                     /\ sessions[i].dir = dir
                     /\ subAgents \/ Own(i)}
\* Mutant: sub-agents' sessions are not left out.
OpencodeWithAgents(dir, id, limit) ==
  Newest({i \in Of("opencode") : sessions[i].dir = dir /\ id \in {NoId, Id(i)}}, limit)
OpencodeSessions(dir, id, limit) ==
  Newest({i \in Of("opencode") : /\ sessions[i].dir = dir
                                 /\ IF id = NoId THEN Own(i) ELSE Id(i) = id}, limit)
\* The runs of one history file, which is written to at its end.
AiderRuns(dir) == {i \in Of("aider") : sessions[i].dir = dir}
LastOf(runs) == {i \in runs : \A j \in runs : j <= i}

\* A session that was found: when it was last written, and how it will be loaded.
Found(i) == [session |-> i, dir |-> sessions[i].dir, recency |-> sessions[i].wrote, id |-> Id(i)]
LatestRun(dir) == {[Found(i) EXCEPT !.id = NoId] : i \in LastOf(AiderRuns(dir))}

CodexLatest(dir) == Newest({i \in Newest(Of("codex"), Opened) : CodexOwn(i, dir)}, 1)

\* The session a harness last wrote for a directory: none, or one.
LatestOf(h, dir) ==
  CASE h = "claude-code" -> {Found(i) : i \in Newest(ClaudeTranscripts(dir), 1)}
    [] h = "pi" -> {Found(i) : i \in Newest(PiTranscripts(dir), 1)}
    [] h = "codex" -> {Found(i) : i \in CodexLatest(dir)}
    [] h = "opencode" -> {Found(i) : i \in OpencodeSessions(dir, NoId, 1)}
    [] h = "dsh" -> {Found(i) : i \in Newest(DshSessions(dir, FALSE), 1)}
    [] h = "aider" -> LatestRun(dir)
    [] OTHER -> {}

\* Across the harnesses: the newest, the first asked when two are as new.
Order == <<"claude-code", "pi", "codex", "opencode", "dsh", "aider">>
Latest(from, dir) ==
  LET best(k) == {f \in LatestOf(Order[k], dir) :
                    \A j \in DOMAIN Order : \A g \in LatestOf(Order[j], dir) :
                      g.recency < f.recency \/ (g.recency = f.recency /\ k <= j)}
  IN  IF from # "" THEN LatestOf(from, dir) ELSE UNION {best(k) : k \in DOMAIN Order}

\* A directory, and each above it short of the home directory and the root.
ProjectDirs(cwd) ==
  LET above == {SubSeq(cwd, 1, n) : n \in 1..(Len(cwd) - 1)}
  IN  {cwd} \union {d \in above : Home \in above \union {cwd} => Len(d) > Len(Home)}
\* The nearest directory that has a session of it.
WalkUp(from, cwd) ==
  UNION {Latest(from, dir) :
           dir \in {d \in ProjectDirs(cwd) : \A e \in ProjectDirs(cwd) : Len(e) > Len(d) => Latest(from, e) = {}}}

-----------------------------------------------------------------------------
(* Listings.                                                               *)

ClaudeCandidates(dir, id) == {Found(i) : i \in {x \in ClaudeTranscripts(dir) : id \in {NoId, Id(x)}}}
PiCandidates(dir, id) == {Found(i) : i \in {x \in PiTranscripts(dir) : id \in {NoId, Id(x)}}}
CodexCandidates(dir, id) ==
  {Found(i) : i \in {x \in Of("codex") : /\ sessions[x].dir = dir
                                         /\ IF id = NoId THEN Own(x) ELSE id = Id(x)}}
DshCandidates(dir, id) == {Found(i) : i \in {x \in DshSessions(dir, id # NoId) : id \in {NoId, Id(x)}}}
OpencodeCandidates(dir, id) == {Found(i) : i \in OpencodeSessions(dir, id, Limit)}
\* A run was last active when the file was last written, or before the next run began.
AiderCandidates(dir, id) ==
  LET after(i) == {j \in AiderRuns(dir) : j > i}
      active(i) == IF after(i) = {} THEN sessions[i].wrote
                   ELSE sessions[CHOOSE j \in after(i) : \A k \in after(i) : j <= k].began
  IN  {[Found(i) EXCEPT !.recency = active(i)] : i \in {x \in AiderRuns(dir) : id \in {NoId, Id(x)}}}
Candidates(h, dir, id) ==
  CASE h = "claude-code" -> ClaudeCandidates(dir, id)
    [] h = "pi" -> PiCandidates(dir, id)
    [] h = "codex" -> CodexCandidates(dir, id)
    [] h = "opencode" -> OpencodeCandidates(dir, id)
    [] h = "dsh" -> DshCandidates(dir, id)
    [] OTHER -> AiderCandidates(dir, id)

\* Rows sort by recency, then by harness and id as text.
KeyOrder == <<"aider", "claude-code", "codex", "dsh", "opencode", "pi">>
RowKey(r) == <<CHOOSE i \in DOMAIN KeyOrder : KeyOrder[i] = sessions[r.session].harness, r.session>>
RowBefore(r, s) ==
  \/ r.recency > s.recency
  \/ /\ r.recency = s.recency
     /\ \/ RowKey(r)[1] < RowKey(s)[1]
        \/ RowKey(r)[1] = RowKey(s)[1] /\ RowKey(r)[2] < RowKey(s)[2]
\* The harnesses asked: the one named, or all.
Asked(from) == {h \in Harnesses : from \in {"", h}}
Offers(from, cwd, id) == UNION {Candidates(h, dir, id) : h \in Asked(from), dir \in ProjectDirs(cwd)}
\* The sessions of a project, or the one an id names, which the limit does not reach.
Recent(from, cwd, id) ==
  LET all == Offers(from, cwd, id)
  IN  IF id # NoId THEN all ELSE {r \in all : Cardinality({s \in all : RowBefore(s, r)}) < Limit}

\* The session a reference names, when exactly one has that id.
Named(from, cwd, id) == LET rows == Recent(from, cwd, id) IN IF Cardinality(rows) = 1 THEN rows ELSE {}

\* The newest session of each store, whatever directory it is for.
ClaudeAnywhere == Newest({i \in Of("claude-code") : Own(i)}, 1)
PiAnywhere == IF PiShared THEN {} ELSE Newest(Of("pi"), 1)
CodexAnywhere == Newest(Of("codex"), 1)
DshAnywhere == Newest({i \in Of("dsh") : Own(i)}, 1)
OpencodeAnywhere ==
  {i \in Of("opencode") : \A j \in Of("opencode") : sessions[j].began <= sessions[i].began}
AnywhereOf(h) ==
  CASE h = "claude-code" -> ClaudeAnywhere
    [] h = "pi" -> PiAnywhere
    [] h = "codex" -> CodexAnywhere
    [] h = "dsh" -> DshAnywhere
    [] h = "opencode" -> OpencodeAnywhere
    [] OTHER -> {}
Anywhere(from) ==
  LET found == UNION {AnywhereOf(h) : h \in Asked(from)}
      recency(i) == IF sessions[i].harness = "opencode" THEN sessions[i].began ELSE sessions[i].wrote
  IN  {i \in found : \A j \in found : recency(j) <= recency(i)}
\* What is said when nothing was found here: where the newest session elsewhere was.
NoSessionHint(from, cwd) ==
  IF WalkUp(from, cwd) = {} THEN {sessions[i].dir : i \in Anywhere(from)} ELSE {}

\* What a loader gives when it is used: the file or row it names, or a run of the history.
Load(f) ==
  IF sessions[f.session].harness # "aider" THEN f.session
  ELSE CHOOSE i \in LastOf({x \in AiderRuns(f.dir) : f.id \in {NoId, Id(x)}}) : TRUE

-----------------------------------------------------------------------------
(* The agents, and a command.                                              *)

NextTime == {t \in {clock, clock + 1} : t <= MaxTime}
Add(t, h, dir, parent) ==
  /\ Len(sessions) < MaxSessions
  /\ clock' = t
  /\ sessions' = Append(sessions, [harness |-> h, dir |-> dir, parent |-> parent, began |-> t, wrote |-> t])

\* Two runs of one history that begin in the same second share an id: left out here.
Start(h, dir) ==
  /\ \E t \in NextTime :
       /\ h = "aider" => \A i \in AiderRuns(dir) : sessions[i].began < t
       /\ Add(t, h, dir, 0)
  /\ UNCHANGED <<captures, cmd>>
\* A sub-agent with a session of its own, in the directory it was spawned from.
Spawn(i) ==
  /\ sessions[i].harness \in {"claude-code", "codex", "dsh", "opencode"}
  /\ \E t \in NextTime : Add(t, sessions[i].harness, sessions[i].dir, i)
  /\ UNCHANGED <<captures, cmd>>
Write(i) ==
  /\ sessions[i].harness = "aider" => i \in LastOf(AiderRuns(sessions[i].dir))
  /\ \E t \in NextTime : clock' = t /\ sessions' = [sessions EXCEPT ![i].wrote = t]
  /\ UNCHANGED <<captures, cmd>>
Record(dir) ==
  /\ captures = {} /\ captures' = {[dir |-> dir, wrote |-> clock]}
  /\ UNCHANGED <<clock, sessions, cmd>>

\* The sessions page lists what it finds; the row chosen is read later.
List(from, cwd) ==
  /\ cmd.step = "idle"
  /\ cmd' = [cmd EXCEPT !.step = "listed", !.cwd = cwd, !.from = from, !.rows = Recent(from, cwd, NoId)]
  /\ UNCHANGED <<clock, sessions, captures>>
Open(r) ==
  /\ cmd.step = "listed"
  /\ cmd' = [cmd EXCEPT !.step = "opened", !.pick = {r}, !.got = Load(r)]
  /\ UNCHANGED <<clock, sessions, captures>>

\* `slink share`: the newest capture, or the agent's newest session when that is newer; a
\* harness named means the agent.
Share(from, cwd) ==
  LET agent == WalkUp(from, cwd)
      newer == \A c \in captures, f \in agent : from # "" \/ f.recency > c.wrote
  IN  /\ cmd.step = "idle" /\ (agent # {} \/ (from = "" /\ captures # {}))
      /\ cmd' = [cmd EXCEPT !.cwd = cwd, !.from = from,
                   !.step = IF agent # {} /\ newer THEN "announced" ELSE "capture",
                   !.pick = IF agent # {} /\ newer THEN agent ELSE captures]
      /\ UNCHANGED <<clock, sessions, captures>>
\* Mutant: it is looked for again whatever its harness.
ImportAnyNewest ==
  /\ cmd.step = "announced"
  /\ LET again == WalkUp("", cmd.cwd)
     IN  cmd' = [cmd EXCEPT !.step = IF again = {} THEN "failed" ELSE "imported",
                   !.rows = again, !.got = IF again = {} THEN 0 ELSE Load(CHOOSE x \in again : TRUE)]
  /\ UNCHANGED <<clock, sessions, captures>>
\* The session announced is looked for again, by its harness, to be imported.
ImportNewest ==
  /\ cmd.step = "announced"
  /\ \E f \in cmd.pick :
       LET again == WalkUp(sessions[f.session].harness, cmd.cwd)
       IN  cmd' = [cmd EXCEPT !.step = IF again = {} THEN "failed" ELSE "imported",
                     !.rows = again, !.got = IF again = {} THEN 0 ELSE Load(CHOOSE x \in again : TRUE)]
  /\ UNCHANGED <<clock, sessions, captures>>

Froms == {""} \union Harnesses
Agents ==
  \/ \E h \in Harnesses, dir \in Dirs : Start(h, dir)
  \/ \E i \in All : Spawn(i) \/ Write(i)
Next ==
  \/ Agents
  \/ \E dir \in Dirs : Record(dir)
  \/ \E from \in Froms, cwd \in Dirs : List(from, cwd) \/ Share(from, cwd)
  \/ \E r \in cmd.rows : Open(r)
  \/ ImportNewest
Spec == Init /\ [][Next]_vars
\* The stores alone, for what holds of any search made in them.
StoresSpec == Init /\ [][Agents]_vars

-----------------------------------------------------------------------------
(* Properties.                                                             *)

SearchTypeOK ==
  /\ clock \in 1..MaxTime
  /\ \A i \in All : /\ sessions[i].harness \in Harnesses /\ sessions[i].dir \in Dirs
                    /\ sessions[i].parent \in 0..(i - 1)
                    /\ sessions[i].began <= sessions[i].wrote /\ sessions[i].wrote <= clock
  /\ cmd.step \in {"idle", "listed", "opened", "announced", "capture", "imported", "failed"}
  /\ cmd.got \in 0..Len(sessions)

\* A sub-agent's session is not listed and is never the newest, however lately it wrote.
OnlyThePersons ==
  \A from \in Froms, cwd \in Dirs :
    \A f \in Latest(from, cwd) \union Recent(from, cwd, NoId) : Own(f.session)

\* The two ways to ask a harness agree: what it says it wrote last for a directory heads that
\* directory's listing.  Codex's search gives out past the rollouts it opens.
LatestLeadsItsList ==
  \A h \in Harnesses, dir \in Dirs :
    LET rows == Candidates(h, dir, NoId)
        latest == Latest(h, dir)
    IN  /\ rows = {} => latest = {}
        /\ (rows # {} /\ (h = "codex" => Cardinality(Of(h)) <= Opened)) =>
             \E f \in latest : /\ \A r \in rows : r.recency <= f.recency
                               /\ \E r \in rows : r.session = f.session /\ r.recency = f.recency

\* An id reaches the session that has it, in the project's directories, however many newer
\* ones there are; a sub-agent's too, where its session is kept with the others.
NamedIsReached ==
  \A cwd \in Dirs, i \in All :
    LET h == sessions[i].harness
        same == {j \in Of(h) : Id(j) = Id(i) /\ sessions[j].dir \in ProjectDirs(cwd)}
    IN  (same = {i} /\ (h = "claude-code" => Own(i))) => \E f \in Named(h, cwd, Id(i)) : Load(f) = i

\* The limit never costs a listing a session newer than one it shows.
ListKeepsTheNewest ==
  \A cwd \in Dirs :
    LET rows == Recent("", cwd, NoId)
        left == {i \in All : Own(i) /\ sessions[i].harness # "aider"
                             /\ sessions[i].dir \in ProjectDirs(cwd)} \ {r.session : r \in rows}
    IN  left # {} => /\ Cardinality(rows) = Limit
                     /\ \A i \in left, r \in rows : sessions[i].wrote <= r.recency

\* When a project has no session, another directory is named; going there and asking again
\* finds a session.  Nothing says that it is the newest: opencode and Hermes rank by when a
\* session began, and a sub-agent's directory can be the one named.
HintWorks ==
  (Cardinality(Of("codex")) <= Opened) =>
    \A from \in Froms, cwd \in Dirs : \A dir \in NoSessionHint(from, cwd) : Latest(from, dir) # {}

\* The session read is the one chosen in the listing, whatever was written or started since.
ChosenIsLoaded == cmd.step = "opened" => \A r \in cmd.pick : cmd.got = r.session

\* Between the announcement and the import agents go on working: what is imported is of the
\* harness announced, and was active no earlier than the session announced.
SharedNoOlder ==
  cmd.step = "imported" =>
    \A f \in cmd.pick : /\ sessions[cmd.got].harness = sessions[f.session].harness
                        /\ sessions[cmd.got].wrote >= f.recency

\* What a project offers was recorded in one of its directories.
OfThisProject ==
  \A from \in Froms, cwd \in Dirs :
    \A f \in Recent(from, cwd, NoId) \union WalkUp(from, cwd) :
      sessions[f.session].dir \in ProjectDirs(cwd)

=============================================================================
