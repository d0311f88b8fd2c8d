------------------------------ MODULE Account -------------------------------
(***************************************************************************)
(* What the device history and the vault promise together, with no         *)
(* machine, request or signature in sight: an account has members, who     *)
(* alone hold its current key, and a set of backed-up links.  It is opened *)
(* once; members join one at a time under the current key; removing one    *)
(* changes the key to one never used before; and no link is ever taken out *)
(* again, whatever else the same write does.                               *)
(***************************************************************************)
CONSTANTS Ids, KeySet, LinkSet

VARIABLES
  members,  \* the devices that can read the vault
  key,      \* the vault key they hold
  retired,  \* the keys that earlier members held
  links     \* the links in the vault

accountVars == <<members, key, retired, links>>

Closed == members = {}

AccountInit ==
  members = {} /\ key = 0 /\ retired = {} /\ links = {}

Back(S) == links' = links \union S

Open(d, k, S) ==
  /\ Closed
  /\ members' = {d} /\ key' = k
  /\ Back(S)
  /\ UNCHANGED retired

Join(d, S) ==
  /\ ~Closed /\ d \notin members
  /\ members' = members \union {d}
  /\ Back(S)
  /\ UNCHANGED <<key, retired>>

Remove(d, k, S) ==
  /\ d \in members /\ members # {d}
  /\ k \notin retired \union {key}
  /\ members' = members \ {d} /\ key' = k
  /\ retired' = retired \union {key}
  /\ Back(S)

Save(S) ==
  /\ ~Closed
  /\ Back(S)
  /\ UNCHANGED <<members, key, retired>>

AccountNext ==
  \E S \in SUBSET LinkSet :
    \/ Save(S)
    \/ \E d \in Ids :
         \/ Join(d, S)
         \/ \E k \in KeySet : Open(d, k, S) \/ Remove(d, k, S)

AccountSpec == AccountInit /\ [][AccountNext]_accountVars
=============================================================================
