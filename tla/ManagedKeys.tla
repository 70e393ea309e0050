---------------------------- MODULE ManagedKeys ----------------------------
(***************************************************************************)
(* Keys GpuTerm makes for signing in (ssh/managed_key.rs, ssh/keyring.rs): *)
(* the profile's own key, set up and removed by one panel, and the keys of *)
(* the key manager.  A key has a public half in the server's               *)
(* authorized_keys, a private half in the vault and an entry in a file,    *)
(* and each step between them may fail or be the last before the program   *)
(* ends.  One profile is modelled.                                         *)
(***************************************************************************)
EXTENDS Naturals, FiniteSets

CONSTANT MaxKeys   \* keys made, numbered from 1: a bound; 0 is none

ManagedKeysAssumption == MaxKeys \in Nat

VARIABLES
  authorized,  \* the server's authorized_keys
  own,         \* the vault entry sshkey:<profile>
  info,        \* managed_key of the profile, in sessions.json
  ring,        \* keys.json: the keys
  assigned,    \* keys.json: those assigned to the profile
  ringVault,   \* the vault entries sshkey:key:<id>
  made,        \* how many keys were made
  panel,       \* setup_managed_key or remove_managed_key: where it is, the key
               \* it makes, the one it found in the profile
  manager,     \* install_key or generate_key, likewise
  kept,        \* what remove_script goes on to put in place of the file
  erased       \* the keys that went with a vault; not in the code

vars == <<authorized, own, info, ring, assigned, ringVault, made, panel, manager, kept,
          erased>>

Keys == 1 .. MaxKeys
Idle == [at |-> "idle", key |-> 0, previous |-> 0]

TypeOK ==
  /\ {authorized, ring, assigned, ringVault, kept, erased} \subseteq SUBSET Keys
  /\ assigned \subseteq ring /\ Cardinality(assigned) <= 1
  /\ {own, info, made} \subseteq 0 .. MaxKeys
  /\ panel.at \in {"idle", "install", "verify", "clean up", "store", "retire",
                   "record", "revoke", "clear", "forget"}
  /\ manager.at \in {"idle", "list", "install", "verify", "assign"}
  /\ \A command \in {panel, manager} :
       {command.key, command.previous} \subseteq 0 .. MaxKeys

Init ==
  /\ authorized = {} /\ own = 0 /\ info = 0 /\ made = 0
  /\ ring = {} /\ assigned = {} /\ ringVault = {} /\ kept = {} /\ erased = {}
  /\ panel = Idle /\ manager = Idle

-----------------------------------------------------------------------------
Panel(at) == panel' = IF at = "idle" THEN Idle ELSE [panel EXCEPT !.at = at]
Manager(at) == manager' = IF at = "idle" THEN Idle ELSE [manager EXCEPT !.at = at]

Server == <<authorized, kept>>
Ring == <<ring, assigned, ringVault>>

\* A step may fail: the command ends with an error, and nothing is taken back.
PanelFails ==
  /\ panel.at \in {"install", "retire", "record", "revoke", "clear", "forget"}
  /\ Panel(IF panel.at = "retire" THEN "record" ELSE "idle")
  /\ UNCHANGED <<Server, own, info, Ring, made, manager, erased>>

\* setup_managed_key: signed in the usual way, makes a key.
SetUp ==
  /\ panel.at = "idle" /\ made < MaxKeys /\ made' = made + 1
  /\ panel' = [at |-> "install", key |-> made', previous |-> info]
  /\ UNCHANGED <<Server, own, info, Ring, manager, erased>>

\* A script that puts the new key in the place of the old one.
Install_Replaces ==
  /\ panel.at = "install"
  /\ authorized' = (authorized \cup {panel.key}) \ {panel.previous}
  /\ \/ Panel("verify") \/ Panel("idle")
  /\ UNCHANGED <<kept, own, info, Ring, made, manager, erased>>

\* install: the script may do its work and its answer be lost.
Install ==
  /\ panel.at = "install" /\ authorized' = authorized \cup {panel.key}
  /\ \/ Panel("verify") \/ Panel("idle")
  /\ UNCHANGED <<kept, own, info, Ring, made, manager, erased>>

\* verify_managed_key_session, with the new key alone.
Verify ==
  /\ panel.at = "verify"
  /\ \/ panel.key \in authorized /\ Panel("store")
     \/ Panel("clean up")
  /\ kept' = IF panel'.at = "clean up" THEN authorized \ {panel.key} ELSE kept
  /\ UNCHANGED <<authorized, own, info, Ring, made, manager, erased>>

\* The vault takes the key, or is locked and does not.
Store ==
  /\ panel.at = "store"
  /\ \/ /\ own' = panel.key
        /\ Panel(IF panel.previous = 0 THEN "record" ELSE "retire")
        /\ kept' = authorized \ {panel.previous}
     \/ /\ Panel("clean up") /\ UNCHANGED own
        /\ kept' = authorized \ {panel.key}
  /\ UNCHANGED <<authorized, info, Ring, made, manager, erased>>

\* uninstall, after its grep has been through the file: what it keeps replaces
\* the file.  A failure is told with the fingerprint, or only logged.
Replaces(next) ==
  /\ authorized' = kept /\ kept' = {} /\ Panel(next)
  /\ UNCHANGED <<own, info, Ring, made, manager, erased>>

CleansUp ==
  /\ panel.at = "clean up"
  /\ \/ Replaces("idle")
     \/ Panel("idle") /\ UNCHANGED <<Server, own, info, Ring, made, manager, erased>>

\* "The old key leaves the server only once the new one works".
Retire == panel.at = "retire" /\ Replaces("record")

\* set_managed_key_info
Record ==
  /\ panel.at = "record" /\ info' = panel.key /\ Panel("idle")
  /\ UNCHANGED <<Server, own, Ring, made, manager, erased>>

\* remove_managed_key, with the server or without: does nothing for a profile
\* that records no key.
Remove ==
  /\ panel.at = "idle" /\ info # 0
  /\ \/ /\ panel' = [at |-> "revoke", key |-> 0, previous |-> info]
        /\ kept' = authorized \ {info}
     \/ /\ panel' = [at |-> "clear", key |-> 0, previous |-> info]
        /\ UNCHANGED kept
  /\ UNCHANGED <<authorized, own, info, Ring, made, manager, erased>>

Revoke == panel.at = "revoke" /\ Replaces("clear")

Clear ==
  /\ panel.at = "clear" /\ own' = 0 /\ Panel("forget")
  /\ UNCHANGED <<Server, info, Ring, made, manager, erased>>

Forget ==
  /\ panel.at = "forget" /\ info' = 0 /\ Panel("idle")
  /\ UNCHANGED <<Server, own, Ring, made, manager, erased>>

-----------------------------------------------------------------------------
(* The key manager.                                                        *)

\* generate_key_at: the vault first.
Generate ==
  /\ manager.at = "idle" /\ made < MaxKeys /\ made' = made + 1
  /\ ringVault' = ringVault \cup {made'}
  /\ manager' = [at |-> "list", key |-> made', previous |-> 0]
  /\ UNCHANGED <<Server, own, info, ring, assigned, panel, erased>>

\* The list takes it, or the vault entry goes again, if it can.
Lists ==
  /\ manager.at = "list" /\ Manager("idle")
  /\ \/ ring' = ring \cup {manager.key} /\ UNCHANGED ringVault
     \/ ringVault' \in {ringVault, ringVault \ {manager.key}} /\ UNCHANGED ring
  /\ UNCHANGED <<Server, own, info, assigned, made, panel, erased>>

\* A deletion that clears the vault first and then fails to write the list.
DeleteKey_VaultFirst(k) ==
  /\ manager.at = "idle" /\ k \in ring
  /\ ringVault' = ringVault \ {k}
  /\ \/ ring' = ring \ {k} /\ assigned' = assigned \ {k}
     \/ UNCHANGED <<ring, assigned>>
  /\ UNCHANGED <<Server, own, info, made, panel, manager, erased>>

\* delete_key_at: the list first; an entry that stays in the vault is logged.
DeleteKey(k) ==
  /\ manager.at = "idle" /\ k \in ring
  /\ ring' = ring \ {k} /\ assigned' = assigned \ {k}
  /\ ringVault' \in {ringVault, ringVault \ {k}}
  /\ UNCHANGED <<Server, own, info, made, panel, manager, erased>>

\* assign_key, without the server.
Assign(k) ==
  /\ manager.at = "idle" /\ assigned' = {k} \cap ring /\ assigned' # assigned
  /\ UNCHANGED <<Server, own, info, ring, ringVault, made, panel, manager, erased>>

\* install_key: nothing is taken back when a step fails, and the key may be
\* deleted from another window before it is assigned.
InstallBegins(k) ==
  /\ manager.at = "idle" /\ k \in ring \cap ringVault
  /\ manager' = [at |-> "install", key |-> k, previous |-> 0]
  /\ UNCHANGED <<Server, own, info, Ring, made, panel, erased>>

InstallsKey ==
  /\ manager.at = "install" /\ authorized' = authorized \cup {manager.key}
  /\ Manager("verify")
  /\ UNCHANGED <<kept, own, info, Ring, made, panel, erased>>

VerifiesKey ==
  /\ manager.at = "verify"
  /\ \/ manager.key \in authorized /\ Manager("assign")
     \/ Manager("idle")
  /\ UNCHANGED <<Server, own, info, Ring, made, panel, erased>>

AssignsKey ==
  /\ manager.at = "assign" /\ Manager("idle")
  /\ assigned' = IF manager.key \in ring THEN {manager.key} ELSE assigned
  /\ UNCHANGED <<Server, own, info, ring, ringVault, made, panel, erased>>

ManagerFails ==
  /\ manager.at \in {"install", "assign"} /\ Manager("idle")
  /\ UNCHANGED <<Server, own, info, Ring, made, panel, erased>>

\* The program ends, wherever its commands are.
Ends ==
  /\ panel' = Idle /\ manager' = Idle /\ kept' = {}
  /\ <<panel, manager>> # <<Idle, Idle>>
  /\ UNCHANGED <<authorized, own, info, Ring, made, erased>>

\* Where a rename does not replace, write_json_file removes the old list first: a
\* write that fails between leaves none, and none is read as one without keys.
ListGoes ==
  /\ manager.at \in {"idle", "list", "assign"} /\ ring # {}
  /\ ring' = {} /\ assigned' = {} /\ Manager("idle")
  /\ UNCHANGED <<Server, own, info, ringVault, made, panel, erased>>

\* reset, offered until the vault is unlocked, when no command is under way yet; and
\* a vault whose file such a write left missing is one that was reset.  keys.json
\* and sessions.json stay.
ResetVault ==
  /\ panel = Idle /\ manager = Idle /\ ringVault \cup {own} # {0}
  /\ own' = 0 /\ ringVault' = {} /\ erased' = erased \cup ringVault \cup ({own} \ {0})
  /\ UNCHANGED <<Server, info, ring, assigned, made, panel, manager>>

Next ==
  \/ PanelFails \/ SetUp \/ Install \/ Verify \/ Store \/ CleansUp \/ Retire
  \/ Record \/ Remove \/ Revoke \/ Clear \/ Forget
  \/ Generate \/ Lists \/ InstallsKey \/ VerifiesKey \/ AssignsKey \/ ManagerFails
  \/ \E k \in Keys : DeleteKey(k) \/ Assign(k) \/ InstallBegins(k)
  \/ ListGoes \/ Ends \/ ResetVault

Spec == Init /\ [][Next]_vars

-----------------------------------------------------------------------------
(* Properties.                                                             *)

SignsIn == own \in authorized

\* A profile that signs in with its key goes on doing so through every setup,
\* whatever fails in it and wherever the program ends: only removing the key, or
\* the vault, takes it away.
KeyKeepsWorking ==
  [][SignsIn /\ panel.at \notin {"revoke", "clear"} /\ own \notin erased' => SignsIn']_vars

\* A key the manager lists can be used: its private half is in the vault, or went
\* with the vault; a key that is made afterwards can.
ListedHasPrivate == ring \subseteq ringVault \cup erased
=============================================================================
