-------------------------------- MODULE SignIn --------------------------------
(***************************************************************************)
(* Signing in and out (src/crates/slink-client: login.rs, config.rs;       *)
(* src/crates/slink: account.rs, and the viewer's sign-in in server.rs).   *)
(*                                                                         *)
(* One config.json is shared by commands in a terminal and by a viewer     *)
(* that a page talks to.  A sign-in asks a server for a code, polls until  *)
(* a person confirms it, and saves the key the server grants; the viewer   *)
(* polls in a task of its own and tells its page through one slot.  A key  *)
(* is the number of the attempt, or the paste, that it was granted to.     *)
(*                                                                         *)
(* A command that publishes, shares or deletes reads the server and the    *)
(* key, may ask its person, and then sends.  share signs its person in on  *)
(* the way, and reads the key again, though not the server.  One such      *)
(* command is under way at a time; any number sign in.                     *)
(*                                                                         *)
(* The servers are external.  The environment variables, which replace     *)
(* the saved server and key for one command by choice, are left out.       *)
(***************************************************************************)
EXTENDS Naturals, FiniteSets

CONSTANTS
  Servers, DefaultServer,
  MaxKeys,   \* bound: attempts and pasted keys
  MaxSent    \* bound: uploads

NoServer == ""  \* what a config, or a command without its flag, names

\* What the constants must satisfy.
SignInAssumption ==
  /\ DefaultServer \in Servers /\ NoServer \notin Servers
  /\ MaxKeys \in Nat /\ MaxSent \in Nat

VARIABLES
  config,    \* [key, server]; 0 is no key
  attempts,  \* attempt |-> [server, by, at]
  confirmed, \* attempts a person confirmed on their server
  issuer,    \* history: key |-> the server that issued it
  viewer,    \* the running viewer's [target, key], as it started, in a set of at most one
  slot,      \* the viewer's sign-in, [id, state], in a set of at most one
  command,   \* a logout or a paste between reading the config and writing it
  sending,   \* a command that sends, from its reading the config to its sending
  sent,      \* history: <<key, server, by, out>>: what was sent where, and whether its sender
             \* read the key when signed out
  out        \* history: a person was told the key is gone, and none was saved since

signing == <<attempts, confirmed>>
vars == <<config, signing, issuer, viewer, slot, command, sending, sent, out>>

Idle == [at |-> "idle"]
Keys == 1 .. MaxKeys
NewKey == Cardinality(DOMAIN issuer) + 1
Numbered(f, k, v) == [x \in DOMAIN f \union {k} |-> IF x = k THEN v ELSE f[x]]

\* The server and key a command uses: the one a flag names, or else the one saved.
Issued == IF config.server = NoServer THEN DefaultServer ELSE config.server
Target(flag) == IF flag = NoServer THEN Issued ELSE flag
\* Mutant: the saved key goes to any server.
TargetKeyAnywhere(server) == config.key
TargetKey(server) == IF server = Issued THEN config.key ELSE 0

-----------------------------------------------------------------------------
(* A sign-in.                                                              *)

\* begin, at the server asked for.
Begin(server, by) ==
  /\ NewKey <= MaxKeys
  /\ attempts' = Numbered(attempts, NewKey, [server |-> server, by |-> by, at |-> "waits"])
  /\ issuer' = Numbered(issuer, NewKey, server)
  /\ UNCHANGED confirmed

BeginInTerminal(flag) ==
  /\ Begin(Target(flag), "terminal")
  /\ UNCHANGED <<config, viewer, slot, command, sending, sent, out>>

\* /api/login/start: unless one is pending, and the slot is held meanwhile.
BeginInViewer ==
  /\ \A s \in slot : s.state # "pending"
  /\ \E v \in viewer : Begin(v.target, "viewer")
  /\ slot' = {[id |-> NewKey, state |-> "pending"]}
  /\ UNCHANGED <<config, viewer, command, sending, sent, out>>

\* A person confirms the code in a browser.
ConfirmCode(a) ==
  /\ a \in DOMAIN attempts \ confirmed
  /\ confirmed' = confirmed \union {a}
  /\ UNCHANGED <<config, attempts, issuer, viewer, slot, command, sending, sent, out>>

Attempt(a, from, to) ==
  /\ a \in DOMAIN attempts /\ attempts[a].at = from
  /\ attempts' = [attempts EXCEPT ![a].at = to]

\* poll: the answer carries the grant; until it is saved nothing else is awaited.
Granted(a) ==
  /\ a \in confirmed /\ Attempt(a, "waits", "granted")
  /\ UNCHANGED <<config, confirmed, issuer, viewer, slot, command, sending, sent, out>>

SaveGrant(a) ==
  /\ Attempt(a, "granted", "saved")
  /\ config' = [key |-> a, server |-> attempts[a].server]
  /\ out' = FALSE
  /\ UNCHANGED <<confirmed, issuer, viewer, slot, command, sending, sent>>

\* Mutant: a code nobody confirms is waited for without end.
ExpireConfirmed(a) ==
  /\ a \in confirmed /\ Attempt(a, "waits", "failed")
  /\ UNCHANGED <<config, confirmed, issuer, viewer, slot, command, sending, sent, out>>

\* The code expired, the server refused, or ten minutes passed.
Expire(a) ==
  /\ Attempt(a, "waits", "failed")
  /\ UNCHANGED <<config, confirmed, issuer, viewer, slot, command, sending, sent, out>>

\* The file cannot be written.
SaveFails(a) ==
  /\ Attempt(a, "granted", "failed")
  /\ UNCHANGED <<config, confirmed, issuer, viewer, slot, command, sending, sent, out>>

\* The viewer's task tells the slot, if the slot is still its own.
Report(a) ==
  /\ \E end \in {<<"saved", "complete">>, <<"failed", "error">>} :
       /\ Attempt(a, end[1], end[2])
       /\ slot' = {IF s.id = a THEN [s EXCEPT !.state = end[2]] ELSE s : s \in slot}
  /\ attempts[a].by = "viewer"
  /\ UNCHANGED <<config, confirmed, issuer, viewer, command, sending, sent, out>>

\* An abort ends a task where it waits: not between the grant and its being saved.
Aborted(ids) ==
  [a \in DOMAIN attempts |->
     IF a \in ids /\ attempts[a].at = "waits" THEN [attempts[a] EXCEPT !.at = "aborted"]
     ELSE attempts[a]]

Cancel ==
  /\ slot # {} /\ slot' = {}
  /\ attempts' = Aborted({s.id : s \in slot})
  /\ UNCHANGED <<config, confirmed, issuer, viewer, command, sending, sent, out>>

-----------------------------------------------------------------------------
(* The other commands.                                                     *)

StartViewer ==
  /\ viewer = {} /\ viewer' = {[target |-> Issued, key |-> TargetKey(Issued)]}
  /\ UNCHANGED <<config, signing, issuer, slot, command, sending, sent, out>>

\* The process ends, and its tasks with it, saved or not.
StopViewer ==
  /\ viewer # {} /\ viewer' = {} /\ slot' = {}
  /\ attempts' = [a \in DOMAIN attempts |->
       IF attempts[a].by = "viewer" THEN [attempts[a] EXCEPT !.at = "aborted"] ELSE attempts[a]]
  /\ UNCHANGED <<config, confirmed, issuer, command, sending, sent, out>>

ReadForLogout ==
  /\ command = Idle /\ config.key # 0
  /\ command' = [at |-> "logout", config |-> [config EXCEPT !.key = 0]]
  /\ UNCHANGED <<config, signing, issuer, viewer, slot, sending, sent, out>>

\* with_key: a key issued by the server named, or else by the server saved.
ReadForPaste(flag) ==
  /\ command = Idle /\ NewKey <= MaxKeys
  /\ issuer' = Numbered(issuer, NewKey, Target(flag))
  /\ command' = [at |-> "paste",
                 config |-> [key |-> NewKey, server |-> IF flag = NoServer THEN config.server ELSE flag]]
  /\ UNCHANGED <<config, signing, viewer, slot, sending, sent, out>>

WriteConfig ==
  /\ command # Idle /\ command' = Idle
  /\ config' = command.config
  /\ out' = (command.at = "logout")
  /\ UNCHANGED <<signing, issuer, viewer, slot, sending, sent>>

\* The viewer's key: the one saved now for its server, else the one it started with.
ViewerKey(v) ==
  IF Issued = v.target /\ TargetKey(Issued) # 0 THEN TargetKey(Issued) ELSE v.key

Send(key, server, by, signedOut) ==
  /\ Cardinality(sent) < MaxSent /\ key # 0
  /\ sent' = sent \union {<<key, server, by, signedOut>>}
  /\ UNCHANGED <<config, signing, issuer, viewer, slot, command, out>>

SendFromViewer == \E v \in viewer : Send(ViewerKey(v), v.target, "viewer", out) /\ UNCHANGED sending

\* The key read with the server it is for.
Holds(server, key, by) == [at |-> "holds", server |-> server, key |-> key, by |-> by, out |-> out]

\* publish, share and delete.  With no key to read, what they send has none.
ReadToSend(flag) ==
  /\ sending = Idle /\ Cardinality(sent) < MaxSent /\ TargetKey(Target(flag)) # 0
  /\ sending' = Holds(Target(flag), TargetKey(Target(flag)), "terminal")
  /\ UNCHANGED <<config, signing, issuer, viewer, slot, command, sent, out>>

\* share, with no key for the default server: a browser is opened.
ShareSignsIn(flag) ==
  /\ sending = Idle /\ Cardinality(sent) < MaxSent
  /\ Target(flag) = DefaultServer /\ TargetKey(DefaultServer) = 0
  /\ Begin(DefaultServer, "terminal")
  /\ sending' = [at |-> "signs in", flag |-> flag, id |-> NewKey]
  /\ UNCHANGED <<config, viewer, slot, command, sent, out>>

\* Signed in, it reads the key again and keeps the server; the key is that of the server then
\* saved, unless a flag names one.
ShareSignedIn ==
  /\ sending.at = "signs in" /\ attempts[sending.id].at = "saved"
  /\ sending' = Holds(DefaultServer, TargetKey(Target(sending.flag)),
                      IF sending.flag = NoServer THEN "share" ELSE "terminal")
  /\ UNCHANGED <<config, signing, issuer, viewer, slot, command, sent, out>>

\* The sign-in failed; the person declined; or the key read again is none, and none is sent.
StopSending ==
  /\ \/ sending.at = "signs in" /\ attempts[sending.id].at = "failed"
     \/ sending.at = "holds"
  /\ sending' = Idle
  /\ UNCHANGED <<config, signing, issuer, viewer, slot, command, sent, out>>

SendFromTerminal ==
  /\ sending.at = "holds" /\ sending' = Idle
  /\ Send(sending.key, sending.server, sending.by, sending.out)

-----------------------------------------------------------------------------
Init ==
  /\ config = [key |-> 0, server |-> NoServer] /\ issuer = <<>>
  /\ attempts = <<>> /\ confirmed = {}
  /\ viewer = {} /\ slot = {} /\ command = Idle /\ sending = Idle
  /\ sent = {} /\ out = FALSE

Task(a) == Granted(a) \/ SaveGrant(a) \/ Report(a)

Next ==
  \/ \E flag \in Servers \union {NoServer} :
       BeginInTerminal(flag) \/ ReadForPaste(flag) \/ ReadToSend(flag) \/ ShareSignsIn(flag)
  \/ BeginInViewer \/ Cancel \/ StartViewer \/ StopViewer \/ SendFromViewer
  \/ ShareSignedIn \/ StopSending \/ SendFromTerminal
  \/ ReadForLogout \/ WriteConfig
  \/ \E a \in Keys : ConfirmCode(a) \/ Task(a) \/ SaveFails(a) \/ Expire(a)

\* A task runs, and its ten minutes pass; nobody need ever confirm.
Spec == Init /\ [][Next]_vars
Fairness == \A a \in Keys : WF_vars(Task(a)) /\ WF_vars(Expire(a))
FairSpec == Spec /\ Fairness

-----------------------------------------------------------------------------
(* Properties.                                                             *)

SignInTypeOK ==
  /\ config.key \in {0} \union DOMAIN issuer /\ config.server \in Servers \union {NoServer}
  /\ DOMAIN issuer \subseteq Keys /\ DOMAIN attempts \subseteq DOMAIN issuer
  /\ \A a \in DOMAIN attempts :
       /\ attempts[a].by \in {"terminal", "viewer"}
       /\ attempts[a].at \in {"waits", "granted", "saved", "failed", "aborted", "complete", "error"}
  /\ Cardinality(slot) <= 1 /\ Cardinality(viewer) <= 1
  /\ sending.at \in {"idle", "signs in", "holds"}
  /\ sending.at = "signs in" => sending.id \in DOMAIN attempts
  /\ slot # {} => viewer # {}

\* "The saved key goes only to the server it was issued for" (config.rs).  It fails of a share
\* that signs in on the way, and is not one of the runs' properties: README, disagreements.
KeyOnlyToIssuer == \A x \in sent : x[2] = issuer[x[1]]

\* That is so though the config changes between a command's reading and its writing, between
\* its reading a key and sending it, and under a viewer that runs on; of a share that signs in
\* on the way it is so if a flag names the server.
KeyReadWithItsServer == \A x \in sent : x[3] # "share" => x[2] = issuer[x[1]]

\* What the page is told is so: a sign-in said to be complete was saved (not an earlier,
\* cancelled one), one said to be pending is still being waited for.
PageToldTruth ==
  \A s \in slot :
    /\ s.state # "pending" => attempts[s.id].at = s.state
    /\ s.state = "pending" <=> attempts[s.id].at \in {"waits", "granted", "saved", "failed"}

\* A sign-in that was cancelled, or whose viewer is gone, does not wait on for a grant
\* that would sign this machine in behind its person's back.
NoStrayWait ==
  \A a \in DOMAIN attempts :
    (attempts[a].by = "viewer" /\ attempts[a].at = "waits") => \E s \in slot : s.id = a

\* Signed out, no command reads a key to send any more; one that waits for its person's answer
\* with a key in hand still sends it.
SignedOutCommandsSendNothing == \A x \in sent : x[3] # "viewer" => ~x[4]

\* A page's sign-in does not stay pending: it completes, fails or is cancelled.
PendingEnds ==
  \A a \in Keys : ([id |-> a, state |-> "pending"] \in slot)
                    ~> ([id |-> a, state |-> "pending"] \notin slot)

=============================================================================
