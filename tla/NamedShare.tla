------------------------------ MODULE NamedShare ------------------------------
(***************************************************************************)
(* Sharing with named people (src/crates/slink-client: named.rs, and the   *)
(* named part of vault.rs; src/crates/slink-protocol: named.rs).           *)
(*                                                                         *)
(* Each machine of one account seals a session for some people, keeps it   *)
(* in named-shares/ as pending- until the service acknowledges it and as   *)
(* an outbox from then on, and grants the key to each person whose claim   *)
(* holds.  Under the lock on the identity folder a machine does one thing  *)
(* at a time; machines share the vault.  The account's history and its     *)
(* vault's revisions are module Identity's.  A pass over several shares    *)
(* (module GrantTurns) is here one share at a time.                        *)
(*                                                                         *)
(* The service is external and not believed: what it lists of a person     *)
(* may be anything, with any claim it ever saw or can make up, and as      *)
(* much of a person's history as it likes.  It cannot make a proof of a    *)
(* secret it was not sent.                                                 *)
(***************************************************************************)
EXTENDS Naturals, FiniteSets

CONSTANTS
  Machines,
  People,        \* the people every share here is for
  Texts,
  MaxSealed,     \* bound: envelopes
  MaxFaults,     \* bound: lost answers, deaths and failed requests
  MaxLeftovers,  \* bound: pending copies left behind by a death or a failed removal
  MaxEpoch       \* bound: a person's incoming-share keys

\* What the constants must satisfy.
NamedAssumption ==
  /\ MaxSealed \in Nat /\ MaxFaults \in Nat /\ MaxLeftovers \in Nat /\ MaxEpoch \in Nat

VARIABLES
  sealed,   \* envelope |-> the text in it
  pending,  \* machine |-> envelopes not known to be acknowledged
  outbox,   \* machine |-> envelope |-> person |-> status
  vault,    \* envelope |-> person |-> status, in the account's vault
  taken, gone, \* envelopes the service has, and those deleted there
  sent,     \* invitations whose link, and secret, was shown to be sent on
  claims,   \* the claims people made: [env, person, epoch]
  epoch,    \* person |-> the incoming-share key their history names now
  op,       \* machine |-> what it is doing
  revoked,  \* history: machine |-> invitations revoked here and written down
  grants,   \* history: the grants posted
  faults, leftovers

people == <<claims, epoch>>
local == <<sealed, pending, outbox, vault, sent>>
service == <<taken, gone>>
vars == <<local, service, people, op, revoked, grants, faults, leftovers>>

Idle == [at |-> "idle"]
Unknown == ""
Statuses == {Unknown, "waiting", "accepted", "ready", "expired", "revoked"}
Nobody == [p \in People |-> Unknown]
Envelopes == 1 .. MaxSealed

At(m, step) == op[m].at = step
Goes(m, next) == op' = [op EXCEPT ![m] = next]
Over(f, g) == [n \in DOMAIN f \union DOMAIN g |-> IF n \in DOMAIN f THEN f[n] ELSE g[n]]
Save(m, n, status) == outbox' = [outbox EXCEPT ![m] = Over([k \in {n} |-> status], @)]
Fault == faults < MaxFaults /\ faults' = faults + 1

-----------------------------------------------------------------------------
(* Publishing.                                                             *)

\* The same text for the same people is sent again as it was sealed.
SealNamed(m, t) ==
  /\ At(m, "idle")
  /\ LET kept == {n \in pending[m] : sealed[n] = t}
         new == Cardinality(DOMAIN sealed) + 1
     IN  \/ /\ kept = {} /\ new \in Envelopes
            /\ sealed' = Over([n \in {new} |-> t], sealed)
            /\ pending' = [pending EXCEPT ![m] = @ \union {new}]
            /\ Goes(m, [at |-> "upload", env |-> new])
         \/ \E n \in kept : Goes(m, [at |-> "upload", env |-> n]) /\ UNCHANGED <<sealed, pending>>
  /\ UNCHANGED <<outbox, vault, sent, service, people, revoked, grants, faults, leftovers>>

UploadNamed(m) ==
  /\ At(m, "upload") /\ op[m].env \notin gone
  /\ taken' = taken \union {op[m].env}
  /\ Goes(m, [op[m] EXCEPT !.at = "answered"])
  /\ UNCHANGED <<local, gone, people, revoked, grants, faults, leftovers>>

\* 410: the pending copy goes, so that publishing again seals the text afresh.
DiscardDeleted(m) ==
  /\ At(m, "upload") /\ op[m].env \in gone
  /\ pending' = [pending EXCEPT ![m] = @ \ {op[m].env}]
  /\ Goes(m, Idle)
  /\ UNCHANGED <<sealed, outbox, vault, sent, service, people, revoked, grants, faults, leftovers>>

\* Acknowledged: the outbox is written with no status in it.
KeepOutbox(m) ==
  /\ At(m, "answered")
  /\ Save(m, op[m].env, Nobody)
  /\ Goes(m, [op[m] EXCEPT !.at = "kept"])
  /\ UNCHANGED <<sealed, pending, vault, sent, service, people, revoked, grants, faults, leftovers>>

\* The pending copy is removed, or its removal fails unnoticed; the links are shown.
ForgetPending(m) ==
  /\ At(m, "kept")
  /\ \/ pending' = [pending EXCEPT ![m] = @ \ {op[m].env}] /\ UNCHANGED leftovers
     \/ leftovers < MaxLeftovers /\ leftovers' = leftovers + 1 /\ UNCHANGED pending
  /\ sent' = sent \union {<<op[m].env, p>> : p \in People}
  /\ Goes(m, Idle)
  /\ UNCHANGED <<sealed, outbox, vault, service, people, revoked, grants, faults>>

\* The vault and this machine trade outboxes: for one in both, this machine's goes into
\* the vault, and its own copy stays.
SyncNamed(m) ==
  /\ At(m, "idle")
  /\ vault' = Over(outbox[m], vault)
  /\ outbox' = [outbox EXCEPT ![m] = Over(@, vault)]
  /\ UNCHANGED <<sealed, pending, sent, service, people, op, revoked, grants, faults, leftovers>>

-----------------------------------------------------------------------------
(* Revoking and granting.                                                  *)

\* The service is told first, and may have taken it though its answer is lost.
Revoke(m, n, p) ==
  /\ At(m, "idle") /\ n \in DOMAIN outbox[m]
  /\ Goes(m, [at |-> "revoke", env |-> n, person |-> p])
  /\ UNCHANGED <<local, service, people, revoked, grants, faults, leftovers>>

\* Written down as soon as the service has it; then every share is looked at.
WriteRevoked(m) ==
  /\ At(m, "revoke")
  /\ LET n == op[m].env
         p == op[m].person
     IN  /\ Save(m, n, [outbox[m][n] EXCEPT ![p] = "revoked"])
         /\ revoked' = [revoked EXCEPT ![m] = @ \union {<<n, p>>}]
  /\ Goes(m, Idle)
  /\ UNCHANGED <<sealed, pending, vault, sent, service, people, grants, faults, leftovers>>

Finished(status) == \A p \in People : status[p] \in {"ready", "revoked", "expired"}

\* A page that refreshes looks at every share, the background pass at unfinished ones.
LookAtShare(m, n, refresh) ==
  /\ At(m, "idle") /\ n \in DOMAIN outbox[m]
  /\ refresh \/ ~Finished(outbox[m][n])
  /\ Goes(m, [at |-> "grant", env |-> n, status |-> outbox[m][n], left |-> People])
  /\ UNCHANGED <<local, service, people, revoked, grants, faults, leftovers>>

\* What this machine knows stays known, whatever the service lists.
Known(was, listed) ==
  CASE was = "revoked" \/ listed = "revoked" -> "revoked"
    [] was = "ready" /\ listed # "revoked" -> "ready"
    [] OTHER -> listed

\* Any claim: one its person made, proven with the secret they were sent, or one made up
\* with some other secret or none.
Offered ==
  [by : People, env : Envelopes, person : People, epoch : 1 .. MaxEpoch, secret : sent]
    \union [by : {"stranger"}, env : Envelopes, person : People, epoch : {1}, secret : sent \union {<<>>}]
Makable(c) ==
  \/ c.by # "stranger" /\ c.person = c.by /\ c.secret = <<c.env, c.by>>
       /\ [env |-> c.env, person |-> c.by, epoch |-> c.epoch] \in claims
  \/ c.by = "stranger" /\ c.secret # <<c.env, c.person>>

\* verify_claim: proven with this invitation's secret, for this invitation, and signed at
\* a point of the person's history that the service shows, up to epoch "shown".
ClaimHolds(c, n, p, shown) ==
  /\ c.secret = <<n, p>>
  /\ c.env = n /\ c.person = p
  /\ c.epoch <= shown

\* The next person listed is not to be granted now: their status is noted, or the claim
\* is named and passed over.
PassOver(m, p, listed) ==
  /\ At(m, "grant") /\ p \in op[m].left
  /\ LET status == Known(op[m].status[p], listed)
     IN  /\ status # Unknown
         /\ Goes(m, [op[m] EXCEPT !.left = @ \ {p}, !.status[p] = status])
  /\ UNCHANGED <<local, service, people, revoked, grants, faults, leftovers>>

\* A claim that holds is granted, to the key their history names as shown, and the grant
\* written down at once.  Posting it and writing it down are one step here; a machine that dies
\* in between grants the same claim again.
Grant(m, p, c, shown) ==
  /\ At(m, "grant") /\ p \in op[m].left
  /\ Known(op[m].status[p], "accepted") = "accepted"
  /\ Makable(c) /\ ClaimHolds(c, op[m].env, p, shown)
  /\ shown <= (IF c.by \in People THEN epoch[c.by] ELSE 1)
  /\ grants' = grants \union {[on |-> m, env |-> op[m].env, person |-> p, to |-> c.by, key |-> shown,
                               claimed |-> c.epoch, late |-> <<op[m].env, p>> \in revoked[m]]}
  /\ LET status == [op[m].status EXCEPT ![p] = "ready"]
     IN  /\ Save(m, op[m].env, status)
         /\ Goes(m, [op[m] EXCEPT !.left = @ \ {p}, !.status = status])
  /\ UNCHANGED <<sealed, pending, vault, sent, service, people, revoked, faults, leftovers>>

SaveStatus(m) ==
  /\ At(m, "grant") /\ op[m].left = {}
  /\ Save(m, op[m].env, op[m].status)
  /\ Goes(m, Idle)
  /\ UNCHANGED <<sealed, pending, vault, sent, service, people, revoked, grants, faults, leftovers>>

\* A request fails, an answer is not what it should be, or the process dies.
Abandon(m) ==
  /\ ~At(m, "idle") /\ Goes(m, Idle)
  /\ IF At(m, "kept")
     THEN leftovers < MaxLeftovers /\ leftovers' = leftovers + 1 /\ UNCHANGED faults
     ELSE Fault /\ UNCHANGED leftovers
  /\ UNCHANGED <<local, service, people, revoked, grants>>

-----------------------------------------------------------------------------
(* Others.                                                                 *)

\* A person who was sent their link accepts, with the key their account has then.
Accept(n, p) ==
  /\ <<n, p>> \in sent
  /\ claims' = claims \union {[env |-> n, person |-> p, epoch |-> epoch[p]]}
  /\ UNCHANGED <<local, service, epoch, op, revoked, grants, faults, leftovers>>

\* Their account removes a device, or rotates its key.
Rotate(p) ==
  /\ epoch[p] < MaxEpoch /\ epoch' = [epoch EXCEPT ![p] = @ + 1]
  /\ UNCHANGED <<local, service, claims, op, revoked, grants, faults, leftovers>>

\* The share is deleted, here or from any browser.
Remove(n) ==
  /\ n \in taken \ gone /\ gone' = gone \union {n}
  /\ UNCHANGED <<local, taken, people, op, revoked, grants, faults, leftovers>>

Init ==
  /\ sealed = <<>> /\ vault = <<>> /\ sent = {} /\ taken = {} /\ gone = {}
  /\ pending = [m \in Machines |-> {}] /\ outbox = [m \in Machines |-> <<>>]
  /\ claims = {} /\ epoch = [p \in People |-> 1]
  /\ op = [m \in Machines |-> Idle] /\ revoked = [m \in Machines |-> {}]
  /\ grants = {} /\ faults = 0 /\ leftovers = 0

Next ==
  \/ \E m \in Machines :
       \/ \E t \in Texts : SealNamed(m, t)
       \/ UploadNamed(m) \/ DiscardDeleted(m) \/ KeepOutbox(m) \/ ForgetPending(m) \/ SyncNamed(m)
       \/ \E n \in Envelopes :
            \/ \E p \in People : Revoke(m, n, p)
            \/ \E refresh \in BOOLEAN : LookAtShare(m, n, refresh)
       \/ WriteRevoked(m) \/ SaveStatus(m) \/ Abandon(m)
       \/ \E p \in People :
            \/ \E listed \in Statuses : PassOver(m, p, listed)
            \/ \E c \in Offered, shown \in 1 .. MaxEpoch : Grant(m, p, c, shown)
  \/ \E n \in Envelopes : Remove(n) \/ \E p \in People : Accept(n, p)
  \/ \E p \in People : Rotate(p)

Spec == Init /\ [][Next]_vars

-----------------------------------------------------------------------------
(* Properties.                                                             *)

NamedTypeOK ==
  /\ DOMAIN sealed \subseteq Envelopes /\ \A n \in DOMAIN sealed : sealed[n] \in Texts
  /\ \A m \in Machines :
       /\ pending[m] \subseteq DOMAIN sealed /\ DOMAIN outbox[m] \subseteq DOMAIN sealed
       /\ \A n \in DOMAIN outbox[m] : outbox[m][n] \in [People -> Statuses]
  /\ \A n \in DOMAIN vault : vault[n] \in [People -> Statuses]
  /\ taken \subseteq DOMAIN sealed /\ gone \subseteq taken /\ sent \subseteq Envelopes \X People
  /\ faults \in 0 .. MaxFaults /\ leftovers \in 0 .. MaxLeftovers

\* The key of every share the service took and did not delete is on some machine of the
\* account, whatever answers were lost: it can be granted, and sent again as it is.
NamedKeyKept ==
  \A n \in taken \ gone : \E m \in Machines : n \in pending[m] \union DOMAIN outbox[m]

\* Whatever the service offers, a key goes only to the account of the person invited, who
\* proved it with the secret they were sent, and never to a key older than their claim.
OnlyTheInvited ==
  \A g \in grants : g.to = g.person /\ <<g.env, g.person>> \in sent /\ g.claimed <= g.key

\* What a machine wrote down stays: a person revoked is never listed otherwise again, and
\* one granted only as revoked.
KeepsWhatIsWritten ==
  \A m \in Machines : \A n \in DOMAIN outbox[m] : \A p \in People :
    LET was == outbox[m][n][p]
        now == outbox'[m][n][p]
    IN  /\ was = "revoked" => now = "revoked"
        /\ was = "ready" => now \in {"ready", "revoked"}

\* named.rs: a revocation is "written down as soon as the service has it, so this machine
\* never grants the person a key afterwards".
NeverGrantedAfter == \A g \in grants : ~g.late
=============================================================================
