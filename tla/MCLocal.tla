------------------------------ MODULE MCLocal -------------------------------
(***************************************************************************)
(* Small instances of what runs on a person's machine (src/crates/slink,   *)
(* slink-client, slink-import), side by side, and what it promises.  A     *)
(* behaviour is one part's: signing in, publishing a link, editing a       *)
(* draft, previewing, the turns of granting, or finding sessions.          *)
(***************************************************************************)
EXTENDS Naturals, Sequences, FiniteSets, TLC

CONSTANTS
  Servers, DefaultServer, MaxKeys, MaxSent,               \* signing in
  Tabs, Viewers, ViewerOf, MaxRevisions, MaxDraftFaults,  \* editing drafts
  a, b, c, v1, v2, s1, t1, t2

VARIABLES
  part,                                                                      \* what this behaviour is about
  config, attempts, confirmed, issuer, viewer, slot, command, sending, told, out,  \* SignIn, with told for sent
  file, agreed, drawn, pending, shares, online, gone, publishing, links, offline,  \* LinkPublish
  files, temp, lock, tab, acked,                                             \* Drafts
  version, build, saved, note, previewing, running, served,                  \* Previews
  finished, ready, tick, late,                                               \* GrantTurns
  clock, sessions, captures, cmd,                                            \* SessionSearch
  row, made, now,                                                            \* HermesSessions
  faults                                                                     \* links, drafts or previews

signInVars == <<config, attempts, confirmed, issuer, viewer, slot, command, sending, told, out>>
linkVars == <<file, agreed, drawn, pending, shares, online, gone, publishing, links, offline>>
draftVars == <<files, temp, lock, tab, acked>>
previewVars == <<version, build, saved, note, previewing, running, served>>
turnVars == <<finished, ready, tick, late>>
searchVars == <<clock, sessions, captures, cmd>>
hermesVars == <<row, made, now>>
vars == <<part, signInVars, linkVars, draftVars, previewVars, turnVars, searchVars, hermesVars, faults>>

SignIn == INSTANCE SignIn WITH sent <- told
Link == INSTANCE LinkPublish WITH
  Processes <- {a}, Servers <- {s1}, Texts <- {t1, t2}, Publishable <- {t1, t2},
  MaxSealed <- 2, MaxFaults <- 1, op <- publishing
\* Two tabs on one viewer, one on another.
TwoOfThree == (a :> v1) @@ (b :> v1) @@ (c :> v2)
Drafts == INSTANCE Drafts WITH MaxFaults <- MaxDraftFaults
Previewing(x) == INSTANCE Previews WITH
  Viewers <- x.viewers, Files <- x.files, Listed <- x.listed, MaxVersion <- x.versions,
  MaxBuild <- x.builds, MaxFaults <- x.faults, NamesItself <- x.namesItself, op <- previewing
twoViewers ==
  [viewers |-> Viewers, files |-> {"main", "agent"}, listed |-> {"main", "agent"}, versions |-> 2,
   builds |-> 2, faults |-> 0, namesItself |-> FALSE]
damaged == [twoViewers EXCEPT !.viewers = {v1}, !.faults = 2]
Turns == INSTANCE GrantTurns WITH Shares <- 3, Batch <- 2, PassTicks <- {0, 1, 2}

\* A project, a directory inside it, and another whose name has the same words.
Home == << <<"me">> >>
App == Home \o << <<"app">> >>
Src == App \o << <<"src">> >>
Twin == Home \o << <<"app", "src">> >>

Search(x) == INSTANCE SessionSearch WITH
  Harnesses <- x.harnesses, Dirs <- x.dirs, PiShared <- x.shared, MaxSessions <- x.sessions,
  MaxTime <- x.time, Limit <- x.limit, Opened <- x.opened
stores ==
  [harnesses |-> {"claude-code", "codex", "opencode"}, dirs |-> {App, Src, Twin}, shared |-> FALSE,
   sessions |-> 3, time |-> 2, limit |-> 2, opened |-> 2]
places ==
  [harnesses |-> {"aider", "dsh", "pi"}, dirs |-> {App, Src, Twin}, shared |-> TRUE,
   sessions |-> 3, time |-> 2, limit |-> 1, opened |-> 2]
chosen ==
  [harnesses |-> {"aider", "codex"}, dirs |-> {Src, Twin}, shared |-> FALSE,
   sessions |-> 2, time |-> 2, limit |-> 2, opened |-> 1]
Hermes(x) == INSTANCE HermesSessions WITH
  Sessions <- x.ids, MaxTime <- x.time, MaxDepth <- x.depth, Marks <- x.marks
unmarked == [ids |-> {"a", "b", "c", "d"}, time |-> 5, depth |-> 3, marks |-> FALSE]
marked == [ids |-> {"a", "b", "c", "d"}, time |-> 5, depth |-> 3, marks |-> TRUE]

ASSUME LocalAssumption ==
  /\ SignIn!SignInAssumption /\ Link!PublishAssumption /\ Drafts!DraftsAssumption
  /\ Previewing(twoViewers)!PreviewsAssumption /\ Previewing(damaged)!PreviewsAssumption
  /\ Turns!TurnsAssumption
  /\ Search(stores)!SearchAssumption /\ Search(places)!SearchAssumption /\ Search(chosen)!SearchAssumption
  /\ Hermes(unmarked)!SessionsAssumption /\ Hermes(marked)!SessionsAssumption
  /\ v1 \in Viewers

Is(name) == part = name

Init ==
  /\ part \in {"sign-in", "links", "drafts", "previews", "damaged previews", "turns", "stores", "places",
               "chosen", "hermes", "marked hermes"}
  /\ SignIn!Init /\ Link!Init /\ Drafts!Init /\ Previewing(twoViewers)!Init /\ Turns!Init
  /\ Search(stores)!Init /\ Hermes(unmarked)!Init
  /\ ~Is("links") => file = t1
  /\ ~Is("turns") => finished = {} /\ tick = 0 /\ ~late

SignInNext ==
  /\ Is("sign-in") /\ SignIn!Next
  /\ UNCHANGED <<part, linkVars, draftVars, previewVars, turnVars, searchVars, hermesVars, faults>>
LinkNext ==
  /\ Is("links") /\ Link!Next
  /\ UNCHANGED <<part, signInVars, draftVars, previewVars, turnVars, searchVars, hermesVars>>
DraftsNext ==
  /\ Is("drafts") /\ Drafts!Next
  /\ UNCHANGED <<part, signInVars, linkVars, previewVars, turnVars, searchVars, hermesVars>>
PreviewsNext ==
  /\ \/ Is("previews") /\ Previewing(twoViewers)!Next
     \/ Is("damaged previews") /\ Previewing(damaged)!Next
  /\ UNCHANGED <<part, signInVars, linkVars, draftVars, turnVars, searchVars, hermesVars>>
TurnsNext ==
  /\ Is("turns") /\ Turns!Next
  /\ UNCHANGED <<part, signInVars, linkVars, draftVars, previewVars, searchVars, hermesVars, faults>>
SearchNext ==
  /\ \/ Is("stores") /\ Search(stores)!Agents
     \/ Is("places") /\ Search(places)!Agents
     \/ Is("chosen") /\ Search(chosen)!Next
  /\ UNCHANGED <<part, signInVars, linkVars, draftVars, previewVars, turnVars, hermesVars, faults>>
HermesNext ==
  /\ \/ Is("hermes") /\ Hermes(unmarked)!Next
     \/ Is("marked hermes") /\ Hermes(marked)!Next
  /\ UNCHANGED <<part, signInVars, linkVars, draftVars, previewVars, turnVars, searchVars, faults>>
Next ==
  \/ SignInNext \/ LinkNext \/ DraftsNext \/ PreviewsNext \/ TurnsNext \/ SearchNext \/ HermesNext

\* Each part's own fairness.  What it is about is not enabled in a behaviour of another part,
\* but for a pass over the shares.
Fairness ==
  /\ SignIn!Fairness /\ Link!Fairness /\ Drafts!Fairness
  /\ WF_turnVars(Is("turns") /\ Turns!Pass)
FairSpec == Init /\ [][Next]_vars /\ Fairness

-----------------------------------------------------------------------------
(* Properties.                                                             *)

\* Values are of their kinds in every part.
LocalTypeOK ==
  /\ Is("sign-in") => SignIn!SignInTypeOK
  /\ Is("links") => Link!LinkTypeOK
  /\ Is("drafts") => Drafts!DraftsTypeOK
  /\ Is("previews") => Previewing(twoViewers)!PreviewsTypeOK
  /\ Is("damaged previews") => Previewing(damaged)!PreviewsTypeOK
  /\ Is("chosen") => Search(chosen)!SearchTypeOK
  /\ Is("hermes") => Hermes(unmarked)!SessionsTypeOK

\* A key goes to the server that issued it alone, though commands and a viewer read and write
\* the configuration between each other's steps (but for a share that signs in on the way and
\* was named no server, which fails: README); no sign-in given up waits on to sign the
\* machine in; and signed out, no command reads a key to send (config.rs, login.rs, server.rs,
\* publish.rs, account.rs).
KeyOnlyToIssuer ==
  Is("sign-in") => SignIn!KeyReadWithItsServer /\ SignIn!NoStrayWait /\ SignIn!SignedOutCommandsSendNothing

\* What a page shows is so: a sign-in said to be done or pending is; an edit said to be saved
\* is the one installed under its number; and a preview is no older than the session was when
\* it was asked for, made by the importer of the viewer that shows it.
PagesToldTruth ==
  /\ Is("sign-in") => SignIn!PageToldTruth
  /\ Is("drafts") => Drafts!AckedIsKept
  /\ Is("previews") => Previewing(twoViewers)!NeverStale /\ Previewing(twoViewers)!OwnImporter
  /\ Is("damaged previews") => Previewing(damaged)!NeverStale /\ Previewing(damaged)!OwnImporter

\* A page's sign-in completes, fails or is cancelled (login.rs: poll).
PendingEnds ==
  \A k \in SignIn!Keys :
    ([id |-> k, state |-> "pending"] \in slot) ~> ([id |-> k, state |-> "pending"] \notin slot)

\* A text a person agreed to publish ends as a link to it, once nothing fails (publish.rs).
EndsInLink == Link!EndsInLink

\* Revisions of a draft are a register written by comparison: nobody's words are replaced by
\* someone who was not shown them (drafts.rs: write_draft).
ImplementsRegister == Drafts!ImplementsRegister

\* Tabs that save at once cannot all be turned away (drafts.rs: write_draft).
SomeSaveLands == Drafts!SomeSaveLands

\* Shares nobody answers do not keep the later ones waiting once passes follow each other tick
\* by tick, wherever late ones left the clock (named.rs: named_shares; the comment there claims it of all passes: README).
EveryShareHasItsTurn == Turns!PromptPassesReachAll

\* What is listed, found or opened is the person's own session of this project, and all of
\* those can be reached: never a sub-agent's or one told inside another.
ReachesOwn ==
  /\ Is("stores") => Search(stores)!OnlyThePersons /\ Search(stores)!NamedIsReached
  /\ Is("places") =>
       Search(places)!OnlyThePersons /\ Search(places)!NamedIsReached /\ Search(places)!OfThisProject
  /\ Is("hermes") => Hermes(unmarked)!NoneInsideAnother
  /\ Is("marked hermes") => Hermes(marked)!ListsThePersons /\ Hermes(marked)!AllReachable

\* What a harness says it wrote last heads its listing, no limit costs a session newer than
\* one shown, the hint of another directory leads to one, and what is read is what was chosen
\* or is no older, whatever agents write meanwhile (discover.rs, import.rs, publish.rs).
FindsTheNewest ==
  /\ Is("stores") =>
       Search(stores)!LatestLeadsItsList /\ Search(stores)!ListKeepsTheNewest /\ Search(stores)!HintWorks
  /\ Is("places") => Search(places)!LatestLeadsItsList /\ Search(places)!HintWorks
  /\ Is("chosen") => Search(chosen)!ChosenIsLoaded /\ Search(chosen)!SharedNoOlder
=============================================================================
