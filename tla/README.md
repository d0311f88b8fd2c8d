# session.link in TLA+

A formal model of session.link. Two programs share its files and its service. The Go
program records agents' calls: the recorder that appends to spools, the commands that read,
recover and heal what it left, and the tap that carves HTTP calls into sessions. The Rust
program (`src/crates`) is the person's side: it finds and imports the sessions of eight
agents, previews and edits them, publishes them as encrypted links or to named people, and
keeps the keys of all that on several devices. TLC checks small instances of both; TLAPS
proves the safety properties of the recorder, the tap, the account, sharing, sign-in, drafts,
previews, the finding of sessions, the reading of compressed logs and the arithmetic of dates
for every instance.

    tlc -workers 2 -config MCSpoolSafe.cfg MCSpool      # one run
    tlapm SpoolProofs.tla                               # one proof module

`PROJECT.json` lists the runs, a mutant that breaks each property, the source lines of
every definition, the findings, the hazards and the theorems.

## 1. Inventory of the system

### The recorder's side (`go/internal`)

| Component | State it keeps | Operations | Correct when |
| --- | --- | --- | --- |
| **Spool protocol** `spool` | per capture: `<json>.spool`, `.spool.pid`, `.json`, `.json.lock`, `.spool.corrupt`, private tmps | Append, TouchOwnerSidecar, Assemble (snapshot, finalize), withCommitLock, RecoverDead, HealStranded | no recorded span is lost; a finished capture is complete and stays finished; whatever a crash leaves is settled in the end |
| **Recorder session** `tap/session.go` | `closed`, `seq`, `lastEndedAt`, `pending`, write semaphore | Begin/End, Record, Heartbeat, Finalize | ids in spool order; no append after the finalizer's read; the root ends no earlier than any call that none overtook |
| **Tap router and server** `tap/router.go`, `server.go` | `Router.open`, `finalizing`, `Server.inflight` | Route, Sweep, FinalizeAll, ServeHTTP, Serve | each session finalized once; never under a call; none left at exit |
| **Listing, inspection, pruning** `cli/cli.go` | none but the files | ListCaptures, InspectRunFile, PlanPrune, RemoveCapture | shows what is recorded; never deletes a live capture |

### The person's side (`crates`)

| Component | State it keeps | Operations | Correct when |
| --- | --- | --- | --- |
| **Configuration and sign-in** `slink-client` config, login; `slink` account, server | `config.json`; the viewer's one sign-in slot and its task | login (begin, poll, save), paste of a key, logout, the page's begin, poll, cancel | a key is read with its issuer's address and sent there; a page is told what is so; a poll ends |
| **Link publishing** `slink-client` publish, delete; `slink` publish | `pending-shares/`, `shares/` | inspect, confirm, upload, save the receipt, delete | a lost answer never costs the key; only what was agreed is uploaded; a retry sends the same envelope |
| **Device identity** `slink-client` identity, device, vault; `slink-protocol` history, record, recovery, wrap | device file with its pins; the service's signed event history and encrypted vault | setup, request, recover, approve, revoke, sharing, sync, status, discard-setup, confirm-recovery | keys go with the listed devices; a rollback is refused; a backed-up link stays |
| **Named sharing** `slink-client` named; `slink-protocol` named; vault | `named-shares/pending-*`, outboxes, their copies in the vault; the service's invitations and claims | publish, acknowledge, sync, revoke, a pass that verifies claims and grants | a key reaches only who was invited, who proved it, and never after a revoke; nothing written down is forgotten |
| **Drafts** `slink-local` drafts; `slink` server | numbered revision files, temporary files | read, compare, write a revision | one writer wins each revision; what was said to be saved is |
| **Beside the previews** `slink-local` drafts; `slink` server | `drafts/titles`, `exports`, `published` | type a title, export an excerpt, publish it, list them | what a tab was told is saved is what every snapshot of the session shows |
| **Private files** `slink-local` home | one file of the home, and what of it is on disk | replace it | a reader finds one whole write, none older than one acknowledged, the power lost or not |
| **Previews** `slink-local` preview; `slink` view | previews under their hash, a note of the stamp | stamp, reuse, import, save, note | never older than the session was when asked for |
| **Session discovery** `slink-import` discover and each harness; `slink` import, publish, view | none: the agents' own stores | latest, recent, by id, newest anywhere, list-then-open, announce-then-import | only the person's sessions of this project; none out of reach; the newest first |
| **Importers** `slink-import` pi, codex, claude_code, dsh, hermes, aider, opencode, agents, discover (compressed logs) | none: a fold over what the agent recorded | one import of each harness; nesting of sub-agents | each item told once, under what it belongs to; spans stay in place as the session grows |
| **Run format and dates** `slink-format` validate, time, datetime; `slink-local` time | none: functions of one document or text | check the spans, count days, read a moment, name a capture | refuses exactly what cannot be shown; a date is its day; what is read may be written |
| **Viewer server** `slink` server | one `Viewer`: target and key it started with, a saving lock, the sign-in slot | its handlers are in the modules of what they act on | |

The rest is listed in `PROJECT.json` with the reason: cryptography, payloads, JSON text
and the secret scan are pure; argument parsing, pickers and printing
change no state modelled here; the Go client is what the crates were ported from, and where
the two differ a module is the crates'.

### How they interact

The tap daemon and `slink record` own captures; every other slink process meets them as files.
A tap handler routes a call to a session (router mutex), relays it and records a span
(session mutex, then the file system); a sweeper and the shutdown finalize. Commands start
with recovery, so any number of processes may assemble one capture at a time, with only the
commit lock file, the checks under it and the owner sidecar between them.

A session then reaches a person by one of two ways: a capture, or an agent's own store, which
discovery searches and an importer reads *while the agent writes it*. A viewer previews it and
edits a draft. To publish, a command or the viewer takes the key and the server from the
configuration, seals the text, keeps the key in `pending-shares`, uploads, moves the receipt to
`shares`, and asks the identity client to back it up: a read of the record, a merge into the
vault, and a write against the revision that was read, which another machine may win. A share
for named people goes the same way into an outbox, which is in the vault too, and a viewer's
background pass grants each person whose claim, and whose own device history, holds. Machines meet only at
the service, which sees ciphertext, signed events and invitations.

### What is hard

* Every file-system call, and every request, of one process interleaves with those of others;
  any may be the last one a process makes, and an answer may be lost after the service acted.
* Checks made before a lock, an upload or an import (mtimes, revisions, stamps, pins) are used after it.
* The service is not believed: it can show an older history, another vault, other statuses.
* Agents record responses in pieces, out of order, with ids used again and turns undone, and
  only times or texts to tell whose a record is.
* Timeouts, clocks and batch limits decide what is looked at.

`PROJECT.json` lists these as hazards at their lines, with the properties that cover them.

## 2. Modules

| Module | Models | Uses |
| --- | --- | --- |
| `CommitLock` | `withCommitLock` and the lock sweep, for any set of processes | |
| `Capture` | the abstract promise: spans kept, a live view, finished once, or set aside | |
| `Spool` | one capture: recorder session, Assemble in three modes, recovery, heal, crashes, faults | `CommitLock`; `Capture` by INSTANCE |
| `SpoolInvariant` | the inductive invariants of `Spool`: what is kept, and what numbers and times say | `Spool` |
| `TapRouter` | router, sweeper, handlers, finalizers, shutdown | |
| `DeviceHistory` | an event history and a vault as every reader verifies them | |
| `Identity` | a machine's actions on its account, the service, lost answers, deaths, a restored service | `DeviceHistory`; `Account` by INSTANCE |
| `Account` | the abstract promise: members who alone hold a key never used before, links that stay | |
| `LinkPublish`, `SignIn`, `NamedShare`, `GrantTurns`, `Previews` | as in the table above | |
| `DraftRegister`, `Drafts` | a register changed by comparison, and the revision files that implement it | `Drafts` INSTANCEs `DraftRegister` |
| `Excerpts` | titles, excerpts and links kept beside the previews | |
| `PrivateFile` | a file replaced by several processes, killed or out of power at any step | |
| `RunFormat`, `Calendar` | the check of a document's spans; days, dates and moments | |
| `SessionSearch`, `HermesSessions` | what a command finds, lists, announces and opens; Hermes's parents | |
| `ImportedSpans` | the vocabulary of the importers | |
| `PiImport`, `CodexImport`, `ClaudeImport`, `DshImport`, `HermesImport`, `AiderImport`, `OpencodeImport` | what each agent records, and the import as a fold over it | `ImportedSpans` |
| `SubAgents` | nesting sub-agents' sessions by call or by time | |
| `CompressedLog` | frames, blocks and checksums, and what is read of a log that ends anywhere | |
| `SpoolProofs`, `TapRouterProofs` | theorems about the recorder's side | `SpoolInvariant`; `TapRouter` |
| `LinkPublishProofs`, `NamedShareProofs`, `IdentityProofs` | theorems about the modules they are named for | those modules |
| `AccountProofs` | theorems about `MCAccount`, and about `PrivateFile` and `Excerpts` | the proofs above by INSTANCE |
| `LocalProofs` | theorems about `MCLocal`, and about `SessionSearch`, `HermesSessions`, `Previews`, `SignIn` and `Drafts` | `MCLocal` |
| `ImportsProofs` | theorems about the compressed log and the dates of `MCImports` | `MCImports` |
| `MCSpool`, `MCTapRouter` | model values and symmetry for TLC | |
| `MCAccount`, `MCLocal`, `MCImports` | instances of the modules of `crates`, side by side | |

### CommitLock, Spool and TapRouter

`CommitLock`'s state is the lock file (its owner's token and one age bit) and the step of each
process: `Acquire` is the O_EXCL create, `SeeOld` the stat that finds it older than 30 s, `Break`
the rename that follows, `Leave`/`Unlink` the read-back and the removal. `MaxStalls` says how
often a live holder spends more than 30 s inside, `PromptBreak` whether a breaker's stat and rename are
never overtaken by a new lock. The code enforces neither; section 5 says which results need them.

An action of `Spool` is one file-system call, a check made of several reads, or one critical section of
the session's mutex. The recorder runs `Record`, the append's steps, the heartbeat and `Finalize`,
`Drain`; the others run `RecoverDead`, `Snapshot`, `HealStranded`; all go through Assemble
(`StatSpool`, `ReadSpool`, `FlushTmp`, the lock, the mode's check, `Rename`, then `StampSnapshot` or
`ConsumeSpool` and `RemoveSidecar`, and `Return`). An append takes `AppendStat`, the `isClosed` gate
(`AppendGate`), the touch of the sidecar (`AppendTouch`), the open and the write. `LockFails`, `AssembleFails`, `AppendFails`,
`AppendTorn` and `StampFails` (the `Chtimes` whose error is ignored) are failing
calls, `Crash` and `RecorderDies` deaths. A span is its number, which it gets when it is recorded; its end is taken before that, while other
calls are parsed and wait for the write semaphore, so `EndOf`, a constant, says in which order the calls end: any at all. A file is its inode, its size in
writes, whether its first line is the skeleton, and its spans; an mtime is a count of
appends. A snapshot may start at any time, which over-approximates the freshness gate
(`GateHonest` says what the gate promises). Legacy sidecars, unique litter and the directory scan
are left out.

`TapRouter` keeps the open sessions, those idle too long, pending calls, the two counters (as
sets), what Sweep and FinalizeAll hold in local slices, each handler's step and the phase of
`Serve`. `WaitFor` is a bounded wait: it ends when its condition holds or, if `MayTimeOut`,
at any time. Wrapper mode, unrecorded calls and heartbeats over open sessions are left out.

### DeviceHistory, Identity, Account

Keys, wrappers and signatures are terms: a key is the number it was drawn under, a wrapper is a key
bound to an epoch, a statement says who signed it. An event holds the whole state after it, so a head,
which the code keeps as a hash, is the sequence it ends. `DeviceHistory` has the rules of `history.rs`
for one step (who may sign what, which wrappers stay, which change) and of `record.rs` for a
record. In `Identity` each action of a machine is cut where the code makes a request: it
reads the record, verifies and pins it (`Enter`), merges what it has and sends a write; the
service takes it only against the head and revision it was made from (`Takes`), answers, and
`wrote` moves the pins on. `Fails` is a lost request or answer, or a death, at any of these
points; `Copy` and `Restore` a service restored from a copy of its disk. `Enter` takes the keys in
the vault, including every earlier incoming-share key. `Account` has none of this: members, a
key, a set of links.

### LinkPublish, SignIn, NamedShare, GrantTurns

`LinkPublish`: processes share one home and a session file that is rewritten under them. `Look`
finds a pending envelope (any one of several), `Resume` sends it, `Seal` draws a key and saves it first;
then the service's answer, the saved receipt, the removal of the pending one, the link shown. `SignIn`:
commands and one viewer on one `config.json`, each read-change-write in two steps; an attempt is
begun, confirmed, granted, saved and reported by different actors. A command that publishes, shares or deletes reads the server and the key
(`ReadToSend`), holds both over its prompt, and sends (`SendFromTerminal`) or is declined (`StopSending`); `share` may sign its person in first (`ShareSignsIn`)
and then read the key, and only the key, again (`ShareSignedIn`). `NamedShare`: machines of one account; what the service lists
of a person is *any* status and any claim it could make up or has seen, with as much of a person's
history as it likes, but no proof of a secret it was not sent. `GrantTurns` is the
arithmetic of the background pass: where it starts, how many shares it looks at, how far the clock moves on to the next (`PassTicks`), and whether
that was one tick (`late`).

### Drafts, Excerpts, Previews, PrivateFile

`Drafts`: a save compares under its viewer's lock, writes a temporary file named for the process
and revision, and links it; between viewers only the link decides. `Previews`: a version stands for
a file's size and mtime; the agent writes between the stamp, the import of each file, and the note; the binary
may be replaced under a running viewer (`BuildStamp`), a stored preview damaged. `Excerpts`: each request of a tab is
its file writes one by one, any of which may be the last; a title is the number of the request that typed
it, and `before` is what was over when a request began, so that "an older one does not come back" can be said of
what is shown once a later one was acknowledged. `Makes` says which snapshot and draft make which excerpt. `PrivateFile` keeps names
and files apart, and of each what is on disk: `PowerGoes` leaves the directory as last flushed or written back, and
of a file that was not flushed a part. The modules that save files take its promise for granted: a save is one step there.

### RunFormat, Calendar

`RunFormat` walks up from each span as `invariant_errors` does, one step an action, with the ids that earlier walks
passed; the reference is a set of spans none of which has a top. `Calendar` is a clock that steps from day to day by the lengths of
months alone; the arithmetic of eras is compared with it on every day, and a set of written times is
read (`Reads`, `Instant`), checked (`Allows`) and stamped there.

### SessionSearch, HermesSessions

A directory is a sequence of names and a name a sequence of words, since Claude Code and pi join
them all to name a project: two directories can share a folder. `Agents` start, spawn and write;
a command lists and opens, or announces and imports, with their steps in between. `HermesSessions`
has what tells a continuation, a branch and a delegated session apart (how the parent
ended, and when), as the two SQL queries have it.

### The importers

Each module has the agent as the state machine (external: what it may record next) and the import as
an operator on what is recorded so far, taken in every state. A record's place stands for its text and time, so
"told once", "under its call" and "in its own turn" are statements about places. `Opencode` also has
the reader's three queries as steps. `SubAgents` takes ids as paths, since `agents.rs` prefixes
them. `CompressedLog` cuts frames at every block and inside a line.

## 3. What the runs check

| Run | Shows |
| --- | --- |
| `spool_safe` | `NoSpanLost`, `FinishedIsComplete`, `NeverStranded`, `RootEndsLast`, `CommitMutex`, types: a recorder whose shutdown may give up on a wedged append, and two commands, one of which may die anywhere |
| `spool_promise` | with two calls recorded in the reverse order of their ends, `Spool` implements `Capture` (`ImplementsCapture`); `GateHonest` of stamped snapshots; the inductive invariant `CaptureInv`: a tap session with heartbeats and suspensions, one command, one failing call (any, the stamp too), one crash |
| `spool_live` | `EventuallySettled`, `AsideOnlyRefused` with the lock as it is: a holder may stall, a breaker may be overtaken |
| `tap_safe` | `OwnedOnce`, `BusyIsOpen`, `NothingDropped`, `NoneOpenedLate`, types: three calls, two keys, a shutdown whose waits may expire |
| `tap_live` | `AllSavedInTheEnd`: the sweep finalizes every session |
| `account` | `KeysFollowTheDevices` (a removed device holds no key in use later, a listed one is never shut out, the recovery key opens the vault, no write leaves a record readers refuse), `BackedUpStays` (links in the vault; and on the machine, a file that was acknowledged, a title, an excerpt, a link), `ImplementsAccount`, `NothingForgotten` (pins, and what an outbox says of a person), `LinkKeysKept`, `OnlyAsAgreed` |
| `local` | `KeyOnlyToIssuer` (a key is sent where it was issued, but for a share that signs in on the way; signed out, no command reads one), `PagesToldTruth`, `ReachesOwn`, `FindsTheNewest`, `ImplementsRegister` (drafts); `PendingEnds`, `EndsInLink`, `SomeSaveLands`, `EveryShareHasItsTurn` (if passes come to be one tick apart) under fairness |
| `imports` | `ToldOnce` (and the check that lets a document be published), `CallsAnswered`, `OwnModelAndTimes` (and the arithmetic of dates), `AgentsUnderTheirCalls`, `WholeLinesRead`, `SpansStay` |
| `lock_break`, `spool_late`, `spool_misjudged`, `tap_exit` | the findings below, as counterexamples |

In `account`, `local` and `imports` the modules stand side by side: a behaviour picks one part and is that part's
alone, and a property is a conjunction of implications, one for each part it is about.
The parts share no state in the model, as they share none but the vault and the configuration in
the code, so nothing is gained by interleaving them, and one promise can be stated once for
everything that makes it ("an import tells each item once").

### Bounds

*Recorder and tap.* Two spans are the least with an earlier and a later one. Two commands beside the
recorder give a snapshotter racing a finalizer while a third process holds or breaks the lock. One
fault and one crash each hit every call once; the theorems lift all these. `spool_promise` takes the two calls in the reverse order
of their ends (`Overtaken`), the other runs in order (`InOrder`), where "not overtaken" is every span; the theorems are about every order. `MaxAttempts = 2` (5 in
the code) reaches both the retry and the exhaustion. Three calls on two keys reach a
rollover, a sweep and a session left for the shutdown at once.

*`account`.* Two machines; three devices, so that one is removed after another has been added
in its place; four events, four vault writes and four keys: setup, join, removal and one write more;
one link. "shared account" has no links, two devices and a fifth key, so an account that shares
removes a device and draws a new incoming-share key. "restored account" returns once to a copy of the
service's disk. Named shares: two machines with two faults and a person who draws a second
incoming-share key; one machine with two people, so that one's claim can be shown for the
other; one with a pending copy left behind. Links: two processes, three envelopes (two
sealed for one text at once, and one after a deletion), two faults, a valid text and one that is not. Machines and
people are symmetric: no action tells them apart, and no temporal property with fairness is checked there.

One file has two writers, three writes and two faults: a write acknowledged, one cut short by the loss of power, one that meets
the name left over. Beside the previews: two tabs and three requests, so that two race and a third comes
after one of them; two snapshots of one session with an excerpt both make and one each alone, and a session that cannot be named.

*`local`.* The bounds of sign-in and drafts are constants of `MCLocal`, as its theorems are about all of them. Previews, searches and Hermes are
instances with a parameter, a record of their bounds (`stores`, `places`, `chosen`, `marked`, ...), so that the lemmas about them are about
any such record. Two servers and two keys (a key saved beside the other's address takes both); one command that sends at a time, with any other commands and
the viewer beside it; one process
with one fault for the liveness of publishing (`account` has the races); three tabs on two viewers, so that the
lock and the link each decide; two files, two versions and two builds for previews, and two faults in a part of
their own; three shares with a batch of two, and passes no, one or two ticks apart. Searches: three sessions with two times, so that ties occur,
and limits of one or two, so that rows are cut off; three directories, two of which share Claude Code's folder name.
Hermes: four sessions, enough for a chain of three kinds of child.

*`imports`.* Every sequence of three to five records over all their kinds, one call id that is used again, two
turns and models where they matter, one line lost; four lines and two runs for Aider, opened or typed at four moments; one sub-agent's line among a Claude Code transcript's own; three messages, three parts and two
tasks for opencode; two sub-agents over six moments, at two depths; three frames of up to two lines (`MaxFrames` and `MaxFrameLines`, which the theorems take as any numbers).
Each cross-record rule of the folds (a late result, a count after its turn, a copied prefix, an undone branch)
takes at most four records to show. Documents: all of up to three spans over three ids, enough for a cycle below a span
walked before. Dates: 400 days from each of eight years' ends (-1, 3, 1599, 1899, 1969, 1999, 2023, 2099), which hold leap days of every rule, the
ends of centuries and eras and day 0.

Deadlock checking is off because the system really stops: a capture is settled and no
command runs, the tap has exited, an agent has recorded all that a bound allows, or every request was answered.

### Fairness

* `Spool`: a process that is not killed takes its next step; a lock file grows old; slink commands go
  on being run (strong fairness of starting recovery, since another's pass may disable it for a while). None of new
  spans, snapshots, heartbeats, crashes or faults.
* `TapRouter`: goroutines go on, time passes, the ticker fires, an upstream answers; none of arrivals
  nor of the decision to stop.
* `SignIn`: a polling task goes on, and its timeout of ten minutes expires (`tokio::time::timeout`).
  None of the person: an attempt nobody confirms must end too.
* `LinkPublish`: an upload under way goes on, and the person tries again (`EndsInLink` is about what
  retries lead to). Faults are bounded, none are fair.
* `Drafts`: a save under way goes on while its viewer runs.
* `GrantTurns`: passes go on while a viewer runs. That they are one tick apart is nowhere assumed: it is a premise of the property of `local`
  (`PromptPassesReachAll`), and without it a share can be skipped for ever ("Turns", below).

## 4. Findings and disagreements

### Checked as counterexamples

1. `lock_break`: breaking an old lock by rename does not make "exactly one breaker" win, because the
   stat that found it old is another call. Two commits can run at once.
2. `spool_late`: a late append that re-creates the spool can let a snapshot show a finished
   capture in progress again; a later command repairs it.
3. `spool_misjudged`: a live recorder judged dead lays a new skeleton and finally replaces the finished
   capture, with its earlier spans, by the later ones.
4. `tap_exit`: sessions that a sweep has taken and not yet handed over are invisible to the
   shutdown, which exits without finalizing them; recovery does later.

### Met while modelling the recorder

* **A root that ends before one of its spans.** `docs/spool-protocol.md:126` has the root end with the "last recorded span's `ended_at`". A call's end is taken when its
  response is (`server.go:203`, `256`), its number after it was parsed and got the semaphore (`session.go:73-96`): of two calls that overlap, the one that ended later may be
  recorded first, and the root then ends with the other one, before it. Healing and recovery take the last line's end with the same effect. `RootEndsLast` says what holds: the root ends no earlier
  than any span that no later-recorded call overtook.
* **A snapshot that was not stamped.** The error of `os.Chtimes` is ignored (`engine.go:271`), and a command may die before it. The snapshot then has the time it was written, and a listing takes it for
  fresh until the next append or the finalization, though it may lack a span appended while it was made. `GateHonest` is about stamped ones.

### Met while modelling the crates

These are what the code does; the models say the same, and a property is restricted as noted. Several are documented as inherited
from the Go program (`docs/rust-cli.md`, "Left as Go has it"; `docs/rust-client.md`).

* **A deleted link comes back.** `delete.rs:1-2` says the service "answers 410 for it from then on"; a pending receipt
  left behind sends the same bytes again and the service takes them (`docs/rust-client.md:186-188` says so). `LinkPublish` models it; nothing is claimed of `gone`.
* **Signed out, but not everywhere.** `account.rs:65-67` reports "the key was removed from this machine"; a viewer that is running keeps
  the key it started with (`server.rs:122-129`) and goes on sending it; and a command that had read the key before the logout, and waits at its prompt
  (`publish.rs:372`, `account.rs:122`), sends it when it is answered. `KeyOnlyToIssuer` asks of commands only that none reads a key to send any more.
* **A key read again.** `config.rs:69`: "The saved key goes only to the server it was issued for". `share` resolves the server and the key together (`publish.rs:114`) and, with no key for the default
  server, signs its person in and resolves again (`124`), of which it keeps the key alone. If another command or the viewer has saved a sign-in at another server by then, and no flag names one, that
  server's key goes to the first. TLC shows it when `SignIn`'s own `KeyOnlyToIssuer` is checked with two servers and two keys (eight steps). The run and the theorem are about `KeyReadWithItsServer`: all other commands, and a `share` whose server a flag names.
* **A revoked person can be granted after all.** `named.rs:638-639` says a revoke is "written down as soon as the service has it, so this
  machine never grants the person a key afterwards". If a pending copy of the share is left behind and published again,
  `save(&outbox_file(..))` at 597 writes the outbox anew, without the statuses. `NothingForgotten` and `NeverGrantedAfter` hold
  where no copy is left (`MaxLeftovers = 0`); with one, `OnlyTheInvited` still does.
* **Turns.** `named.rs:650-651`: "Each pass starts somewhere else, so shares nobody answers cannot keep the later ones
  waiting". The start is read off the wall clock (`653`) and a pass that runs on delays the next (`server.rs:688`), so passes may be two ticks apart; when the list is twice the batch, two ticks
  lead to the same place, and a share can be skipped for ever. TLC shows it when `GrantTurns`'s own `EveryShareHasItsTurn` is checked with four shares, a batch of two and `PassTicks = {1, 2}`.
  What holds, and is checked with passes no, one or two ticks apart, is `PromptPassesReachAll`: once passes come one to each tick, from wherever late ones left the clock, every share has its turn.
* **A preview older than its session.** `view.rs:61-62`: a file that changes during the import "costs another import later, never a stale preview".
  A sub-agent's file that appeared after the listing is imported but in no stamp; when it changes later, the note still matches. `NeverStale` holds when
  `Listed = Files`. The build's stamp (`view.rs:317-333`) is that of the file now at the binary's path: on a system where that path still names the
  replaced binary (`NamesItself`), an old viewer notes its previews as the new one's.
* **Hermes's marked branches** (`hermes.rs:459-461`, `618-619`): a branch that carries the marker while its parent lives is listed as the
  person's own and also nested in the parent's import, since "started while this one was live" holds of it. `NoneInsideAnother`
  is checked where branches end their parent, `ListsThePersons` and `AllReachable` where they do not.
* **A call that is still running** has no end time, so `agents.rs` finds no call "that was running when it started" (12-16) for the sub-agent it
  has just begun, and puts it under another or under the session until the call ends.
* **What Claude Code undid is told.** Its entries name the ones they follow, as pi's do, and a person may go back; `claude_code.rs` reads the entries in the order of the file and tells those
  that were left too. `ToldOnce` claims "nothing undone" of pi and Hermes only.
* **Whose tokens.** `docs/rust-cli.md:225`: Codex's "token counts land on the response before the one they belong to, and the last response has none". The rollout does not say whose a count is.
  `ChargedOnce` says that no count is charged twice and none from before a fork; that a response has its own is not claimed.
* **Messages of other roles.** pi's importer counts a message of any role when it asks whether anything was said, and passes over those it does not know (`pi.rs:295`, `539-541`); opencode's passes over them too (`opencode.rs:310-311`).
  `ToldOnce` is about the roles that are read; what the others leave in place (pi's time of the message before) is in the models.
* **The hint is not the newest.** When a project has no session, the hint names another directory. For opencode and Hermes it "can name a sub-agent's session, and ranks by when a session began" (`docs/rust-cli.md:228`).
  `HintWorks` says that asking again in that directory finds a session.
* **A log cut in its first four bytes** lacks the mark of a compressed file and is taken for plain text (`discover.rs:256-258`), one line that is no record. `CompressedLog` cuts at blocks and within lines, not there.
* **An excerpt moves.** `drafts.rs:259-260` lists "the excerpts made from one session". An excerpt is named by its bytes, and nothing in
  them tells two snapshots of a growing session apart (`export.rs:442-449`; the times and ids of its spans stay). Exported again from a later snapshot it is
  noted as that one's: it leaves the first one's list, and the first one's `compose?view=` answers that it is unavailable. `ExcerptsListed` asks for
  one list, the last one's.
* **A time a document may have, and no program reads.** `datetime.rs` allows a lower-case `t` and `z` and a leap second; `instant` (`time.rs:34-36`, "`None`
  when the text is not one") reads neither. `ReadIsAllowed` states the direction that holds.
* **Directories that share a folder.** Claude Code's and pi's project folders join a path's words, so a session of `~/app/src` is also listed
  for `~/app-src` (`docs/handoff-design.md:12` and `264` say ids are scoped to the project and a session "belongs to the directory it was started in").
  `OfThisProject` is checked of the stores that record the directory.
* **Whose newest session.** `docs/user-guide.md:127` has `slink share` publish "your newest session for this project"; the newest *capture* it
  compares with is any project's.

* **The same ciphertext, or several.** `publish.rs:6-8`: an upload whose answer is lost "is sent again, as the same ciphertext, when the same session is
  published". One or two processes never leave more pending envelopes of a text than they are, and `RetriesReuse` says so. Three may: each seals one and loses its answer; two
  of them find the same receipt, the third publishes it first, and each of the two, whose receipt is gone, seals another. Four are left, of which later tries
  send one each. The attempt to prove the bound for any number of processes found this; what is proved for any number is that a receipt that was found is there
  to be sent until its link is saved.

Quirks no property depends on: a pi compaction at the very end gives a trailing span that starts
after it ends; an Aider entry that the input history lacks takes the time of a later one with the same text; an opencode tool read while it
runs may end before it starts; the ids of nested sub-agents shift when an earlier one appears later;
`share` announces one session and imports the newest at that moment, which may be a newer one; a pi directory shared by all projects is
left out of "newest elsewhere"; a device that syncs from an old outbox can bring a finished share's old status back to the vault (machines keep their own).

## 5. What is proved

All by TLAPS. The lemmas and the theorems of `LinkPublishProofs`, `NamedShareProofs`, `IdentityProofs` and the recorder's two modules are about every set of
machines, processes, viewers, people, keys and calls, and every bound. `AccountProofs` carries them over to the properties as the runs
state them: its instances are bridged to those of the proof modules action by action. `LocalProofs` and `ImportsProofs` are about the instances
of `MCLocal` and `MCImports` themselves; what they say of a part they say for every value of the constants or of the record that part takes.

The form is the same throughout: an inductive invariant that TLC checked first on small instances, one lemma for each action (or one for all the
actions that do the same to the state), and theorems that read the invariant.

### The recorder and the tap

* `LockMutex`: `CommitMutex` follows from `MaxStalls = 0` and `PromptBreak`. The invariant
  `LockInv` says that whoever is inside, and nobody else, owns the lock file, that it is then not old, and that a breaker
  still sees an old one; that last part is what `PromptBreak` preserves and finding 1 breaks.
* `SpoolUsesLock`: every step of `Spool` is a step of `CommitLock` or leaves it alone, so
  `SpoolMutex` follows from `LockMutex` with no further work.
* `SpoolTyping`: the type invariant, with the append's number as the only strengthening.
* `SpoolInvariance`: `SpoolInv` (module `SpoolInvariant`) under `Kind`: no append outlasts the drain
  (`~MayWedge`), the liveness rule can be believed (`BootReliable`), the lock keeps commits apart. The safety
  properties alone are not inductive: that a snapshot's tmp may be renamed depends on why its re-check
  passed. The invariant turns on one idea, `Sealed`: no append can come any more. Whoever ends
  the capture (`Ending`) does so sealed; until then recorded spans are in the spool, which
  still exists; after that the spool can only go, and it goes once the spans are in the finished document or set
  aside. `PassOf(p)` says what a process carries through the lock.
  From it `SpoolNoSpanLost`, `SpoolFinishedIsComplete`, `SpoolNeverStranded`, `SpoolAsideOnlyRefused`.
* `SpoolTimes`: `CaptureInv`, which adds `TimesInv`: spans are written in the order of their numbers, whatever the order in which their calls ended (`EndOf`), a spool is as old as the last of them
  (`OrderInv`), each document ends no earlier than its spans that were not overtaken and, if it was stamped, holds the spans its stamp allows (`DocumentsInv`), and so does what each process has read and not yet renamed
  (`CarriedBy`). From it `SpoolRootEndsLast`, `SpoolGateHonest`, `SpoolFinishedKeepsSpans`, `SpoolFinishedSurvives`, and
  `SpoolImplementsCapture`, the refinement of `Capture`, where each rename, recovery, record and removal is its abstract step and all the rest stutters.
  `spool_promise` checks `CaptureInv` with TLC; it was also checked whole with three processes.
* `RouterInvariance`, and from it `RouterTypes`, `RouterOwnedOnce`, `RouterBusyIsOpen`, `RouterNothingDropped`,
  `RouterNoneOpenedLate`: with no assumption on time. `Partition` says that the five homes of a session
  are disjoint and cover the sessions made; `CallInv` that a joined call is counted by its session; `PhaseInv` that the
  shutdown collects last and, when no wait expired, runs after every handler.

### The account

* `IdentityInvariance`: `IdentityInv` under `IdentityAssumption` and `LimitAssumption` (limits are numbers, those of events, devices and revisions not 0). It has two halves.
  `PinsInv` holds even of a service restored from a copy: whatever was read verified (`Holdable`), a device file's pins are what the write
  under way was made from (`FileInv`), and the readers' rules take that write unless a limit is met (`WriteOK`). `AccountKept` is about a service that
  loses nothing: the vault's key is wrapped for every listed device, for the recovery key and for no device that left (`KeysInv`); a key drawn for a
  write and in no record yet is unknown to everyone (`Unused`); and a write that the service can still take was made of the record it holds
  (`Made`), so that a revoke which races a join is either refused or made with that device in sight. It is what connects the steps of two
  machines, and none of the properties is inductive without it.
  TLC checked the invariant whole on three small instances (190 000 to 290 000 states) before it was proved.
* From it `IdentityTypes`, `KeysAreTheDevices`, `BackupsStay`, the action property `PinsAreKept` (a restored service included), and `RecordIsAnAccount`, the refinement of
  `Account` where the service was not restored (`MaxRestores = 0`): a write that is taken is the abstract account's step, whatever machine or moment it comes from.
* `LinkInvariance` (under `PublishAssumption`: there are finitely many processes), with `LinkTypes`, `LinkKeyNeverLost`, `LinksHaveReceipts`, `OnlyAgreedTextsOnline`: what each step of an upload carries is
  pending or saved (`Carried`). `LinkRetriesReuse` needs for two processes the bound `FewReceipts`: the envelopes of a text that are unacknowledged, with those about to be
  sealed, are no more than two.
* `NamedInvariance`, with `NamedTypes`, `KeyIsKept`, `OnlyInvitedGetKeys` whatever the service lists; and, as long as no pending copy was left behind, `WrittenInvariance`,
  `NoGrantAfterRevoking`, `WrittenStays`. `Remembered` says that what is in an outbox or on its way there is never behind what the machine did.
* `AccountInvariance` is the conjunction over the parts of `MCAccount`, and with it the theorems about what the run `account` checks: `AccountTypes`, `KeysAreTheAccounts` (`KeysFollowTheDevices`),
  `ToldIsKept` (`BackedUpStays`), `RecordsAreAccounts` (`ImplementsAccount`), `AcceptedStays` (`NothingForgotten`: of an account without incoming shares, restored or not, and of shares without a pending copy left behind), `LinkKeysAreKept`, `OnlyAsWasAgreed`. Two of its parts are proved there, for every choice of their constants
  (`Replacing(c)`, `Kept(c)`). `FileInv`: what the directory names, here or on disk, was flushed whole, a write under way is never one that was over before
  another began, and none that was replaced is named again; so a file is never torn and an acknowledged write is never followed by an older one. It needs that the name of the file is nobody's temporary name
  (`"file" \notin Writers`), as `home.rs` has it. `BesideInv`: what each request has written so far is there, or what another wrote that was not over before it (`StillThere`), which is kept when the answer is given.

### The person's machine

* `LocalInvariance`, for every number of servers, keys, tabs, viewers, revisions and faults that `MCLocal` takes, and with it `KeysGoToTheirIssuer`: every copy of a key, in the file, in a command under way, in the hand of one that waits to send, in an attempt or in a viewer, is
  beside the server that issued it (`KeysApart`, `SendingInv`). The one command it leaves out is a `share` that signed in on the way with no server named ("A key read again", section 4). `PagesAreToldTruth` adds what the slot of an attempt shows and, from the previews, that a preview is not stale.
* `PreviewsInvariance`, with `NeverServedStale` where every file an import reads is listed (`Listed = Files`) and `ServedByOwnImporter` where the path does not name a replaced binary (`~NamesItself`). `NoteIsTrue`:
  the stamp of a stored preview was taken before its import began.
* `DraftsImplementTheRegister`: the refinement of `DraftRegister`. The numbers of the revision files have no gap, and a temporary file's edit is based on the number before its own, so that a link made is a
  change by comparison.
* `LocalTypes` reads `LocalTypeOK` from the same invariant.
* `OwnSessionsReached` (`ReachesOwn`) and `NewestFound` (`FindsTheNewest`) rest on lemmas for any directories, agents, times, numbers of sessions and limits. An operator is
  characterised once by what it selects: `LatestIs`, `RecentIs` for the searches, `LoadedIs` for the sessions that Hermes's recursive query loads, layer by layer.
  A limit is by counting: a row cut off has `Limit` rows before it, and what is newer than a row shown is shown. Each promise follows from
  these with what the state adds: sessions have ids of their own, times do not go back, a parent was there before its child.
  `OfThisProject` needs that no store which joins a path's words is searched (no `claude-code`, and pi only with its shared directory), `NoneInsideAnother` that no branch is marked, and `AllReachable` that a
  nesting is no deeper than the query's depth (`Cardinality(ids) <= depth + 1`): the first two are disagreements of section 4.

### A compressed log

* `LinesReadWhole` (`WholeLinesRead`), for any number of frames and of lines in each. The invariant `LogInv` says that there are places `at` in the text that is written where the frames
  begin and end, that each frame's blocks are a cut of what is between its two (`LogFits`), and that only the last frame is unfinished. So whatever an
  unpacking gives is the text's first so many characters (`UnpackIs`), the transcript is those up to a line end (`TranscriptIs`), its lines are the first so many (`LinesAre`), and
  `NothingLost`, `FirstAgrees` follow by counting.
* `LinesNeverTakenBack`: the same counts for the log before and after a step (`MoreIsRead`). It is the part of `SpansStay` that is about the log.
* The proof needed the cases of `UnpackFrame` apart: a frame that is junk satisfied two arms of its CASE, of which TLC takes the first and TLA+ takes either. The arms are
  disjoint now; nothing that TLC checks changed.

### Dates

* `TimesAreMoments`, the dates' conjuncts of `OwnModelAndTimes`, for every set of first dates (`CalendarAssumption`: they are dates) and any number of days, before year 0 too. The runs
  count 400 days from eight dates; the theorem is about every date of every year. The invariant `DatesInv` says that the clock's two faces
  agree: its date is one, and its day is `DaysFromCivil` of that date.
* An era is four centuries of 25 fours of years of four years each, which begin in March: `YearStarts` says what day of the era a year starts on and whether the February that ends it is long,
  `YearOf` that the division in `YearOfEra` finds the year of a day, and `EraDays` that every day of an era is a day of one of its years. From these and the same about months,
  `CivilOfDays` and `DaysOfCivil` are the two directions. `DayAfter` says that the calendar's next date is the next day, across months, leap years and eras.
* `MomentsAreOne` reads what `Stamp` writes: an offset may move a text into another day, and the date of that day is a date because of `DaysOfCivil`.

### Induction

The library's induction theorems take a predicate as a parameter, which the installed provers cannot instantiate. `LocalProofs` and `ImportsProofs` use sets in their place: `Least` (a set of numbers
that is not empty has a least one) follows from the library's well-foundedness of the strict subsets of finite sets, `Induction` from `Least`, and `Iterates` says that a function
defined by steps exists. So a recursive function, such as `Unpack` or `Loaded`, is known for every input. RECURSIVE operators remain out of reach, and no module has one.

### Model-checked only

* Everything temporal under fairness (`EventuallySettled`, `AllSavedInTheEnd`, `PendingEnds`, `EndsInLink`, `SomeSaveLands`, `EveryShareHasItsTurn`), which, like
  `ENABLED`, is out of the prover's reach.
* Of `imports`: `ToldOnce`, `CallsAnswered`, `OwnModelAndTimes` but for its dates, `AgentsUnderTheirCalls`, and `SpansStay` but for the log. Each is one statement about eight importers
  or more, every one a fold with rules of its own over a log of any kind of record; a theorem needs a characterisation of each fold, as `UnpackIs` is for one, and would be stated only when all are there.
* The recorder's safety with a wedged append or an unreliable lock (`spool_safe`, `spool_live`), where `Kind` does not hold.

## 6. Not modelled, and the plan

Left out inside the modelled parts:

* recorder: several calls of one session recorded at once beyond the order of their ends (the write semaphore lets one append at a time); a wedged append together with a failing call (a second `.corrupt` replaces the first); clock
  steps beyond the one bit of each age; Windows' open-file semantics; pruning, a listing followed by deletions under `Spool`'s liveness rule;
* identity: that a person confirms a recovery key only after they were shown it is taken from the person (the code asks nothing of it); the lifetime of an approval request, device names, the vault's size limits, and, in `Identity`, the named
  shares that the same vault carries (`NamedShare` has those);
* named sharing: a grant is posted and written down in one step (`named.rs:815`, `817`), so a machine that dies in between, and grants the same claim again, is left out; reminders and the wording of statuses; a pass over several shares is one share at a time in `NamedShare`;
* drafts: which parts of a session can be picked (the catalog), the text of an excerpt, and the link of a revision, which
  `write_draft` makes without a flush of its directory;
* private files: a directory just made, which is not flushed in its parent; permissions; Windows;
* format: the JSON schema, fractions of seconds, ages as text;
* discovery: omp's second store, a session named by a file's path, the session that runs the command (`DSH_SESSION_ID` and its like), titles, prompts;
* importers: content blocks, images and attachments, the conversion of clock times, names and titles.

Not modelled at all, with the reason in `PROJECT.json`: cryptography and payload parsing (terms stand for
them), JSON text and the secret scan (pure; `Publishable` is a constant), the viewer's routing and assets, command
lines and printing, the Go client the crates were ported from, normalization, and packaging.

Next, in order:

1. Proofs: `GrantTurns` (that passes one tick apart meet every window; the count behind `PromptPassesReachAll`); the importers one fold after another, `SubAgents` and `Aider` first, which have no memory
   beside their records; the recorder's properties that hold without `Kind`.
2. A model of pruning beside `Spool`.
