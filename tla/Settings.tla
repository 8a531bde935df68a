------------------------------ MODULE Settings ------------------------------
(***************************************************************************)
(* LocalConfig of web.py and AgentCatalog of services/agent_catalog.py:    *)
(* the settings file, which concurrent POST /api/config requests read,     *)
(* merge, validate and replace, and the catalog of installed agent         *)
(* programs whose cached probe decides which profiles may be stored.       *)
(*                                                                         *)
(* Abstracted: one provider; a profile is its permission mode ("" for the  *)
(* default), which stands for model and reasoning too: each must be one    *)
(* that the probe found.  Repository and Plane project are left out, the   *)
(* planner is treated like QA.                                             *)
(***************************************************************************)
EXTENDS Naturals

CONSTANTS
  Savers,     \* POST /api/config requests
  Keys,       \* API keys
  MaxChanges  \* bound: changes of the world (programs, the user's editor)

ASSUME SettingsAssumption ==
  /\ {"", "MASK", "absent"} \cap Keys = {}
  /\ MaxChanges \in Nat

VARIABLES
  file,       \* the settings file
  offers,     \* what the installed program offers now
  cache,      \* the catalog's entry of it, or none
  saver,      \* where each request is
  incoming,   \* what each request asks for
  base,       \* what it has read
  last,       \* what the acknowledged requests and the user's editor made of it
  apart,      \* nothing has overlapped with a request yet
  edited,     \* the user's editor has been at the profiles
  changes

setVars == <<file, offers, cache, saver, incoming, base, last, apart, edited, changes>>
world   == <<offers, cache, edited, changes>>

-----------------------------------------------------------------------------
AgentRoles == {"developer", "qa"}
Profiles   == {"", "plan", "write"}
ReadOnlySafe == {"", "plan"}
NoProfile  == ""
DefaultConfig == [key |-> "", agents |-> [r \in AgentRoles |-> NoProfile]]

\* A program offers its modes; one that is not installed offers
\* nothing, not even the empty choice.
NoEntry == {"unknown"}
Offers == {{}, {"", "plan"}, {"", "plan", "write"}}

\* The page sends the profile of a role, and the key if one is typed in; other
\* clients send the mask back.
Requests == [key : Keys \cup {"absent", "MASK"},
             role : AgentRoles, profile : Profiles]

NoRequest == [key |-> "absent", role |-> "qa", profile |-> NoProfile]

\* A request that is over is forgotten.
Forget(c) == /\ incoming' = [incoming EXCEPT ![c] = NoRequest]
             /\ base' = [base EXCEPT ![c] = DefaultConfig]

SetInit ==
  /\ file = DefaultConfig
  /\ offers \in Offers
  /\ cache = NoEntry
  /\ saver = [c \in Savers |-> "new"]
  /\ incoming = [c \in Savers |-> NoRequest]
  /\ base = [c \in Savers |-> DefaultConfig]
  /\ last = DefaultConfig
  /\ apart = TRUE
  /\ edited = FALSE
  /\ changes = 0

-----------------------------------------------------------------------------
\* provider: an entry younger than the TTL is used as it is.
Entry == IF cache = NoEntry THEN offers ELSE cache
Probe == cache' = Entry

\* validate_profile.
Valid(role, p) ==
  /\ Entry # {}
  /\ p \in Entry
  /\ role # "developer" => p \in ReadOnlySafe

\* Slip: the mask on display is taken for a key.
MergeKeyMasked(old, new) == IF new = "absent" THEN old ELSE new
MergeKey(old, new) == IF new \in {"absent", "MASK"} THEN old ELSE new

Merge(c, in) == [key    |-> MergeKey(c.key, in.key),
                 agents |-> [c.agents EXCEPT ![in.role] = in.profile]]

-----------------------------------------------------------------------------
Load(c) ==
  /\ saver[c] = "new"
  /\ \E in \in Requests : incoming' = [incoming EXCEPT ![c] = in]
  /\ base' = [base EXCEPT ![c] = file]
  /\ saver' = [saver EXCEPT ![c] = "validate"]
  /\ apart' = (apart /\ \A d \in Savers : saver[d] \notin {"validate", "write"})
  /\ UNCHANGED <<file, last, world>>

\* Slip: what is validated is the profile that is to be replaced.
ValidateCurrent(c) ==
  /\ saver[c] = "validate"
  /\ Probe
  /\ IF Valid(incoming[c].role, base[c].agents[incoming[c].role])
       THEN saver' = [saver EXCEPT ![c] = "write"] /\ UNCHANGED <<incoming, base>>
       ELSE saver' = [saver EXCEPT ![c] = "refused"] /\ Forget(c)
  /\ UNCHANGED <<file, last, apart, offers, edited, changes>>
Validate(c) ==
  /\ saver[c] = "validate"
  /\ Probe
  /\ IF Valid(incoming[c].role, incoming[c].profile)
       THEN saver' = [saver EXCEPT ![c] = "write"] /\ UNCHANGED <<incoming, base>>
       ELSE saver' = [saver EXCEPT ![c] = "refused"] /\ Forget(c)
  /\ UNCHANGED <<file, last, apart, offers, edited, changes>>

Write(c) ==
  /\ saver[c] = "write"
  /\ file' = Merge(base[c], incoming[c])
  /\ last' = IF apart THEN Merge(last, incoming[c]) ELSE last
  /\ saver' = [saver EXCEPT ![c] = "saved"]
  /\ Forget(c)
  /\ UNCHANGED <<apart, world>>

\* GET /api/agent-catalog with refresh=1, or the entry grows too old.
Refresh ==
  /\ cache' = offers
  /\ UNCHANGED <<file, offers, saver, incoming, base, last, apart, edited, changes>>
Expire ==
  /\ cache # NoEntry
  /\ cache' = NoEntry
  /\ UNCHANGED <<file, offers, saver, incoming, base, last, apart, edited, changes>>

\* build_agent validates the stored profile again, and refuses one that has
\* become invalid; either way it may have probed the program.
BuildAgent ==
  /\ Probe
  /\ UNCHANGED <<file, offers, saver, incoming, base, last, apart, edited, changes>>

\* A program is installed, upgraded or removed; the user edits the file.
Upgrade ==
  /\ changes < MaxChanges /\ changes' = changes + 1
  /\ offers' \in Offers
  /\ UNCHANGED <<file, cache, saver, incoming, base, last, apart, edited>>
EditFile ==
  /\ changes < MaxChanges /\ changes' = changes + 1
  /\ apart' = (apart /\ \A c \in Savers : saver[c] \notin {"validate", "write"})
  /\ \E role \in AgentRoles, p \in Profiles :
       /\ file' = [file EXCEPT !.agents[role] = p]
       /\ last' = [last EXCEPT !.agents[role] = p]
  /\ edited' = TRUE
  /\ UNCHANGED <<offers, cache, saver, incoming, base>>

SetNext ==
  \/ \E c \in Savers : Load(c) \/ Validate(c) \/ Write(c)
  \/ BuildAgent \/ Refresh \/ Expire \/ Upgrade \/ EditFile

SetSpec == SetInit /\ [][SetNext]_setVars

-----------------------------------------------------------------------------
SetTypeOK ==
  /\ file \in [key : Keys \cup {""}, agents : [AgentRoles -> Profiles]]
  /\ cache \in Offers \cup {NoEntry} /\ offers \in Offers
  /\ edited \in BOOLEAN

\* Of requests and edits that do not overlap nothing is lost: the file holds every field
\* that was acknowledged last, and the mask that the page shows never replaces
\* the API key, not even when requests overlap.
SettingsKept ==
  /\ SetTypeOK
  /\ apart => file = last
  /\ file.key # "MASK"

\* Whatever requests overlap, each writing back the profiles that it has read,
\* and however old the probe is that validates them: only the user's editor can
\* store a mode that writes for a role that must not write.
ReadOnlyKept ==
  ~edited => \A role \in AgentRoles \ {"developer"} : file.agents[role] \in ReadOnlySafe
=============================================================================
