------------------------------- MODULE Excerpts -------------------------------
(***************************************************************************)
(* What is kept beside the previews (src/crates/slink-local: drafts.rs;    *)
(* src/crates/slink/src/server.rs: compose, publish): the titles people    *)
(* type, which excerpt was made from which preview with which draft, and   *)
(* where a preview was published.                                          *)
(*                                                                         *)
(* A title is kept under the snapshot it was typed on and, when the        *)
(* session can be named, under the session, which is asked first.  An      *)
(* excerpt is a preview named by its bytes: two snapshots of one session   *)
(* may make the same one.  Several tabs write at once, and any of them may *)
(* be cut short between two files.                                         *)
(***************************************************************************)
EXTENDS Naturals

CONSTANTS
  Tabs,       \* tabs open on this home, of one viewer or several
  Snapshots,  \* saved previews of sessions
  SessionOf,  \* snapshot |-> the name its session's titles are kept under, or Unnamed
  Unnamed,
  Picks,      \* drafts
  Makes,      \* <<snapshot, draft>> |-> the excerpt it makes
  MaxSteps,   \* bound: requests begun
  MaxFaults   \* bound: requests cut short, and previews deleted

ExcerptsAssumption ==
  /\ DOMAIN SessionOf = Snapshots /\ DOMAIN Makes = Snapshots \X Picks
  /\ Unnamed \notin Snapshots /\ MaxSteps \in Nat /\ MaxFaults \in Nat

VARIABLES
  titles,     \* name |-> the title in its file
  notes,      \* excerpt |-> [of, by]: the preview and draft it was made from, by which request
  kept,       \* the excerpts whose previews are saved
  links,      \* excerpt |-> the link it was last noted as published under
  request,    \* tab |-> the request it waits for: its kind, its step, and what it is of
  clock,      \* requests begun: a number tells them apart, and is the title or link of one
  told,       \* history: the requests a tab was told are done
  cut

excerptVars == <<titles, notes, kept, links, request, clock, told, cut>>

No == [at |-> "none"]
Excerpts == {Makes[m] : m \in DOMAIN Makes}
Put(f, x, v) == [y \in DOMAIN f \union {x} |-> IF y = x THEN v ELSE f[y]]
Goes(t, at) == request' = [request EXCEPT ![t].at = at]
Ends(t) == request' = [request EXCEPT ![t] = No]
Waits(t, is, at) == request[t] # No /\ request[t].is = is /\ request[t].at = at
Keys(p) == {SessionOf[p]} \ {Unnamed}

\* What was begun and is over.
Over == (1 .. clock) \ {request[t].id : t \in {t \in Tabs : request[t] # No}}
Begin(t, is, at, of) ==
  /\ request[t] = No /\ clock < MaxSteps /\ clock' = clock + 1
  /\ request' = [request EXCEPT ![t] =
       [is |-> is, at |-> at, of |-> of, id |-> clock + 1, before |-> Over]]
Trouble == cut < MaxFaults /\ cut' = cut + 1

-----------------------------------------------------------------------------
(* Titles.                                                                 *)

Typed(name) == IF name \in DOMAIN titles THEN titles[name] ELSE 0

\* The session's title, else the snapshot's own; 0 is none.
TitleFor(p) ==
  IF Keys(p) # {} /\ Typed(SessionOf[p]) # 0 THEN Typed(SessionOf[p]) ELSE Typed(p)

PutTitle(t) ==
  /\ \E p \in Snapshots : Begin(t, "title", "snapshot", p)
  /\ UNCHANGED <<titles, notes, kept, links, told, cut>>

UnderSnapshot(t) ==
  /\ Waits(t, "title", "snapshot")
  /\ titles' = Put(titles, request[t].of, request[t].id)
  /\ Goes(t, IF Keys(request[t].of) = {} THEN "reply" ELSE "session")
  /\ UNCHANGED <<notes, kept, links, clock, told, cut>>

UnderSession(t) ==
  /\ Waits(t, "title", "session")
  /\ titles' = Put(titles, SessionOf[request[t].of], request[t].id)
  /\ Goes(t, "reply")
  /\ UNCHANGED <<notes, kept, links, clock, told, cut>>

-----------------------------------------------------------------------------
(* Excerpts.                                                               *)

PostExport(t) ==
  /\ \E m \in Snapshots \X Picks : Begin(t, "export", "save", m)
  /\ UNCHANGED <<titles, notes, kept, links, told, cut>>
Made(t) == Makes[request[t].of]

\* save_preview writes it unless it is there.
SaveExcerpt(t) ==
  /\ Waits(t, "export", "save") /\ kept' = kept \union {Made(t)}
  /\ Goes(t, "note")
  /\ UNCHANGED <<titles, notes, links, clock, told, cut>>

RecordView(t) ==
  /\ Waits(t, "export", "note") /\ Goes(t, "reply")
  /\ notes' = Put(notes, Made(t), [of |-> request[t].of, by |-> request[t].id])
  /\ UNCHANGED <<titles, kept, links, clock, told, cut>>

\* The excerpts listed under a preview.
SavedViews(p) == {x \in kept \intersect DOMAIN notes : notes[x].of[1] = p}

-----------------------------------------------------------------------------
(* Where an excerpt was published.                                         *)

PostPublish(t) ==
  /\ \E x \in kept : Begin(t, "publish", "upload", x)
  /\ UNCHANGED <<titles, notes, kept, links, told, cut>>

\* The service gave it a link (LinkPublish, NamedShare); losing the note of it fails nothing.
RecordPublished(t) ==
  /\ Waits(t, "publish", "upload") /\ Goes(t, "reply")
  /\ \/ links' = Put(links, request[t].of, request[t].id) /\ UNCHANGED cut
     \/ UNCHANGED links /\ Trouble
  /\ UNCHANGED <<titles, notes, kept, clock, told>>

-----------------------------------------------------------------------------
Reply(t) ==
  /\ request[t] # No /\ request[t].at = "reply" /\ Ends(t)
  /\ told' = told \union {request[t]}
  /\ UNCHANGED <<titles, notes, kept, links, clock, cut>>

\* A file cannot be written, or the viewer stops: what was written before it stays.
CutShort(t) ==
  /\ request[t] # No /\ Trouble /\ Ends(t)
  /\ UNCHANGED <<titles, notes, kept, links, clock, told>>

\* A person deletes a preview's file.
Delete(x) ==
  /\ x \in kept /\ Trouble /\ kept' = kept \ {x}
  /\ UNCHANGED <<titles, notes, links, request, clock, told>>

ExcerptsInit ==
  /\ titles = <<>> /\ notes = <<>> /\ kept = {} /\ links = <<>>
  /\ request = [t \in Tabs |-> No] /\ clock = 0 /\ told = {} /\ cut = 0

Compose(t) ==
  \/ PutTitle(t) \/ UnderSnapshot(t) \/ UnderSession(t)
  \/ PostExport(t) \/ SaveExcerpt(t) \/ RecordView(t)
  \/ PostPublish(t) \/ RecordPublished(t)
ExcerptsNext ==
  \/ \E t \in Tabs : Compose(t) \/ Reply(t) \/ CutShort(t)
  \/ \E x \in Excerpts : Delete(x)

-----------------------------------------------------------------------------
(* Properties.                                                             *)

ExcerptsTypeOK ==
  /\ DOMAIN titles \subseteq Snapshots \union {SessionOf[p] : p \in Snapshots}
  /\ kept \union DOMAIN notes \union DOMAIN links \subseteq Excerpts
  /\ \A t \in Tabs : request[t] # No => request[t].id \in 1 .. clock

\* The requests that were told of the title of a preview's session, of an excerpt's note, or
\* of its link; and whether what is read is older than one of them.
ToldOfTitle(p) ==
  {r \in told : r.is = "title" /\ (r.of = p \/ Keys(p) \intersect Keys(r.of) # {})}
ToldOfNote(x) == {r \in told : r.is = "export" /\ Makes[r.of] = x}
ToldOfLink(x) == {r \in told : r.is = "publish" /\ r.of = x}
Older(id, requests) == \E r \in requests : id \in r.before

\* A title a person was told is saved is the title of every snapshot of that session, until
\* another is typed: none that was over before it was begun comes back.
TitlesStay ==
  \A p \in Snapshots :
    ToldOfTitle(p) # {} => TitleFor(p) # 0 /\ ~Older(TitleFor(p), ToldOfTitle(p))

\* An excerpt a person was told is made is listed, while its preview is there, under one
\* preview, the last it was made from, with a draft that makes exactly it of that preview.
ExcerptsListed ==
  \A x \in kept : ToldOfNote(x) # {} =>
    /\ \E p \in Snapshots : x \in SavedViews(p) /\ \A q \in Snapshots \ {p} : x \notin SavedViews(q)
    /\ Makes[notes[x].of] = x
    /\ ~Older(notes[x].by, ToldOfNote(x))

\* The link offered again for an excerpt is the newest, if no note of one was lost.
LinkOffered ==
  \A x \in DOMAIN links :
    cut = 0 => ~Older(links[x], ToldOfLink(x))
=============================================================================
