----------------------------- MODULE MCAccount ------------------------------
(***************************************************************************)
(* Small instances of what the client and the service keep for a person    *)
(* (src/crates/slink-client, slink-protocol), side by side, and what they  *)
(* promise together.  A behaviour is one part's: the device history and    *)
(* the vault, with links or with one more key to draw, so that a shared    *)
(* account removes a device, or with a service restored from a copy of its *)
(* disk; named shares of two machines, for two people or with a pending copy     *)
(* that stays behind; published links; one file that two processes          *)
(* replace; or what is kept beside the previews.                           *)
(***************************************************************************)
EXTENDS Naturals, Sequences, FiniteSets, TLC

CONSTANTS m1, m2, ann, bob, s1, text, bad

VARIABLES
  part,                                       \* what this behaviour is about
  record, requests, copy, restores, file,     \* Identity
  receipts, op, drawn, shown, opened, backedUp,
  sealed, outbox, vault, taken, sent,         \* NamedShare, with named and revoked
  claims, epoch, named, revoked, grants, leftovers,
  document, agreed, keys, shares, online,     \* LinkPublish, with publishing
  publishing, links, offline,
  pending, gone, faults,                      \* NamedShare or LinkPublish
  dir, onDisk, nodes, writer, replaced, trouble,                \* PrivateFile
  titles, notes, kept, noted, request, clock, told, cut         \* Excerpts, with noted for links

identityVars == <<record, requests, copy, restores, file, receipts, op, drawn, shown, opened, backedUp>>
namedVars == <<sealed, outbox, vault, taken, sent, claims, epoch, named, revoked, grants, leftovers>>
linkVars == <<document, agreed, keys, shares, online, publishing, links, offline>>
bothVars == <<pending, gone, faults>>
fileVars == <<dir, onDisk, nodes, writer, replaced, trouble>>
besideVars == <<titles, notes, kept, noted, request, clock, told, cut>>
homeVars == <<fileVars, besideVars>>
vars == <<part, identityVars, namedVars, linkVars, bothVars, homeVars>>

Machines == {m1, m2}
Vault == INSTANCE Identity WITH
  Links <- {text}, MaxEvents <- 4, MaxDevices <- 3, MaxDrawn <- 4, MaxRevision <- 4, MaxRestores <- 0
SharedVault == INSTANCE Identity WITH
  Links <- {}, MaxEvents <- 4, MaxDevices <- 2, MaxDrawn <- 5, MaxRevision <- 4, MaxRestores <- 0
Restored == INSTANCE Identity WITH
  Links <- {}, MaxEvents <- 4, MaxDevices <- 3, MaxDrawn <- 4, MaxRevision <- 3, MaxRestores <- 1
TwoMachines == INSTANCE NamedShare WITH
  People <- {ann}, Texts <- {text}, MaxSealed <- 1, MaxFaults <- 2, MaxLeftovers <- 0, MaxEpoch <- 2,
  op <- named
TwoPeople == INSTANCE NamedShare WITH
  Machines <- {m1}, People <- {ann, bob}, Texts <- {text}, MaxSealed <- 1, MaxFaults <- 1,
  MaxLeftovers <- 0, MaxEpoch <- 1, op <- named
LeftPending == INSTANCE NamedShare WITH
  Machines <- {m1}, People <- {ann}, Texts <- {text}, MaxSealed <- 1, MaxFaults <- 0,
  MaxLeftovers <- 1, MaxEpoch <- 1, op <- named
Link == INSTANCE LinkPublish WITH
  Processes <- Machines, Servers <- {s1}, Texts <- {text, bad}, Publishable <- {text},
  MaxSealed <- 3, MaxFaults <- 2, file <- document, drawn <- keys, op <- publishing

Replaced == INSTANCE PrivateFile WITH Writers <- Machines, MaxWrites <- 3, MaxFaults <- 2
\* Two snapshots of one session, which make one excerpt of the same draft and one each of
\* another, in two tabs.
Beside == INSTANCE Excerpts WITH
  Tabs <- Machines, Snapshots <- {"earlier", "later"}, Unnamed <- "unnamed",
  SessionOf <- [p \in {"earlier", "later"} |-> "session"], Picks <- {"start", "end"},
  Makes <- [m \in {"earlier", "later"} \X {"start", "end"} |->
              IF m[2] = "start" THEN "start" ELSE m[1]],
  MaxSteps <- 3, MaxFaults <- 1, links <- noted
Nameless == INSTANCE Excerpts WITH
  Tabs <- Machines, Snapshots <- {"earlier"}, Unnamed <- "unnamed",
  SessionOf <- [p \in {"earlier"} |-> "unnamed"], Picks <- {"start"},
  Makes <- [m \in {"earlier"} \X {"start"} |-> "start"], MaxSteps <- 3, MaxFaults <- 1, links <- noted

AccountSymmetry == Permutations(Machines) \union Permutations({ann, bob})

ASSUME AccountAssumption ==
  /\ Vault!IdentityAssumption /\ Vault!LimitAssumption
  /\ SharedVault!IdentityAssumption /\ SharedVault!LimitAssumption
  /\ Restored!IdentityAssumption /\ Restored!LimitAssumption
  /\ TwoMachines!NamedAssumption /\ TwoPeople!NamedAssumption /\ LeftPending!NamedAssumption /\ Link!PublishAssumption
  /\ Replaced!PrivateAssumption /\ Beside!ExcerptsAssumption /\ Nameless!ExcerptsAssumption

Is(name) == part = name
Accounts == {"account", "shared account", "restored account"}

None == <<>>
IdentityNone ==
  /\ record = None /\ requests = None /\ copy = None /\ restores = None /\ file = None /\ receipts = None
  /\ op = None /\ drawn = None /\ shown = None /\ opened = None /\ backedUp = None
NamedNone ==
  /\ sealed = None /\ outbox = None /\ vault = None /\ taken = None /\ sent = None /\ claims = None
  /\ epoch = None /\ named = None /\ revoked = None /\ grants = None /\ leftovers = None
LinkNone ==
  /\ document = None /\ agreed = None /\ keys = None /\ shares = None /\ online = None
  /\ publishing = None /\ links = None /\ offline = None
BothNone == pending = None /\ gone = None /\ faults = None
FileNone ==
  /\ dir = None /\ onDisk = None /\ nodes = None /\ writer = None /\ replaced = None /\ trouble = None
BesideNone ==
  /\ titles = None /\ notes = None /\ kept = None /\ noted = None /\ request = None
  /\ clock = None /\ told = None /\ cut = None
HomeNone == FileNone /\ BesideNone
ServiceNone == IdentityNone /\ NamedNone /\ LinkNone /\ BothNone

Init ==
  \/ part \in Accounts /\ Vault!Init /\ NamedNone /\ LinkNone /\ BothNone /\ HomeNone
  \/ Is("shares for a person") /\ TwoMachines!Init /\ IdentityNone /\ LinkNone /\ HomeNone
  \/ Is("shares for two") /\ TwoPeople!Init /\ IdentityNone /\ LinkNone /\ HomeNone
  \/ Is("shares left pending") /\ LeftPending!Init /\ IdentityNone /\ LinkNone /\ HomeNone
  \/ Is("links") /\ Link!Init /\ IdentityNone /\ NamedNone /\ HomeNone
  \/ Is("replaced file") /\ Replaced!PrivateInit /\ ServiceNone /\ BesideNone
  \/ Is("beside previews") /\ Beside!ExcerptsInit /\ ServiceNone /\ FileNone
  \/ Is("nameless session") /\ Nameless!ExcerptsInit /\ ServiceNone /\ FileNone

AccountNext ==
  /\ \/ Is("account") /\ Vault!Next
     \/ Is("shared account") /\ SharedVault!Next
     \/ Is("restored account") /\ Restored!Next
  /\ UNCHANGED <<part, namedVars, linkVars, bothVars, homeVars>>
NamedNext ==
  /\ \/ Is("shares for a person") /\ TwoMachines!Next
     \/ Is("shares for two") /\ TwoPeople!Next
     \/ Is("shares left pending") /\ LeftPending!Next
  /\ UNCHANGED <<part, identityVars, linkVars, homeVars>>
LinkNext == Is("links") /\ Link!Next /\ UNCHANGED <<part, identityVars, namedVars, homeVars>>
HomeNext ==
  /\ \/ Is("replaced file") /\ Replaced!PrivateNext /\ UNCHANGED besideVars
     \/ Is("beside previews") /\ Beside!ExcerptsNext /\ UNCHANGED fileVars
     \/ Is("nameless session") /\ Nameless!ExcerptsNext /\ UNCHANGED fileVars
  /\ UNCHANGED <<part, identityVars, namedVars, linkVars, bothVars>>

Next == AccountNext \/ NamedNext \/ LinkNext \/ HomeNext
Spec == Init /\ [][Next]_vars

-----------------------------------------------------------------------------
(* Properties.                                                             *)

\* Files, records, receipts and steps are of their kinds in every part.
AccountTypeOK ==
  /\ Is("account") => Vault!IdentityTypeOK
  /\ Is("shared account") => SharedVault!IdentityTypeOK
  /\ Is("restored account") => Restored!IdentityTypeOK
  /\ Is("shares for a person") => TwoMachines!NamedTypeOK
  /\ Is("shares for two") => TwoPeople!NamedTypeOK
  /\ Is("shares left pending") => LeftPending!NamedTypeOK
  /\ Is("links") => Link!LinkTypeOK
  /\ Is("replaced file") => Replaced!PrivateTypeOK
  /\ Is("beside previews") => Beside!ExcerptsTypeOK
  /\ Is("nameless session") => Nameless!ExcerptsTypeOK

\* The keys go with the devices the account lists, whichever writes race or are lost: a
\* device removed never holds a key in use after it, one that is listed is never shut out by
\* its own pins, the recovery key opens the vault, and no write leaves a record that
\* readers refuse (identity.rs, vault.rs, history.rs).
KeysFollowTheDevices ==
  /\ Is("account") =>
       Vault!RevokedLockedOut /\ Vault!NeverLockedOut /\ Vault!RecoveryKeyWorks /\ Vault!HonestWritesVerify
  /\ Is("shared account") =>
       /\ SharedVault!RevokedLockedOut /\ SharedVault!NeverLockedOut
       /\ SharedVault!RecoveryKeyWorks /\ SharedVault!HonestWritesVerify

\* A link a machine was told is backed up stays in the vault, whoever wrote it since, and so
\* does every incoming-share key the account had (identity.rs: backup; vault.rs: merge,
\* rotate_inbox).  What a program was told is written stays written, whole, when the power
\* goes (home.rs), and a title, an excerpt or a link a person was told of stays what is
\* shown until another is made (drafts.rs).
BackedUpStays ==
  /\ Is("account") => Vault!BackedUpStays
  /\ Is("shared account") => SharedVault!BackedUpStays
  /\ Is("replaced file") => Replaced!NeverTorn /\ Replaced!AcknowledgedStays
  /\ Is("beside previews") => Beside!TitlesStay /\ Beside!ExcerptsListed /\ Beside!LinkOffered
  /\ Is("nameless session") => Nameless!TitlesStay /\ Nameless!ExcerptsListed /\ Nameless!LinkOffered

\* The service's record is an account as Account.tla states it.
ImplementsAccount ==
  [][Is("account") => Vault!Promise!AccountNext \/ UNCHANGED Vault!Promise!accountVars]_vars

\* In "account" and "restored account" no machine forgets what it accepted: the history and the
\* revision of the vault, even if the service was restored from a copy of its disk (device.rs:
\* pin, wrote).  In "shares for a person" and "shares for two", where no pending copy of a share
\* is left behind, what was written down of the people it is for stays, a person revoked above
\* all (named.rs: grant).
NothingForgotten ==
  [][/\ Is("account") => Vault!KeepsItsPins
     /\ Is("restored account") => Restored!KeepsItsPins
     /\ Is("shares for a person") => TwoMachines!KeepsWhatIsWritten
     /\ Is("shares for two") => TwoPeople!KeepsWhatIsWritten]_vars

\* Whatever answers were lost and whoever died on the way: the key of everything online is
\* on a machine, a link a person was given has its receipt, and a retry sends what an
\* attempt before it sealed (publish.rs, named.rs).
LinkKeysKept ==
  /\ Is("links") => Link!KeyNeverLost /\ Link!LinkHasReceipt /\ Link!RetriesReuse
  /\ Is("shares for a person") => TwoMachines!NamedKeyKept

\* Only what a person agreed to publish, where they agreed to, is online, and a key goes
\* only to the person invited, who proved it, and never after they were revoked.
OnlyAsAgreed ==
  /\ Is("links") => Link!OnlyWhatWasAgreed
  /\ Is("shares for two") => TwoPeople!OnlyTheInvited
  /\ Is("shares left pending") => LeftPending!OnlyTheInvited
  /\ Is("shares for a person") => TwoMachines!NeverGrantedAfter
=============================================================================
