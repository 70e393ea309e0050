------------------------------ MODULE Registry ------------------------------
(***************************************************************************)
(* The two files of what the user registered: the profiles (session.rs),   *)
(* each rewritten as a whole under a lock, and the LLM instances           *)
(* (llm/mod.rs), read and rewritten as a whole without one, with a copy in *)
(* memory that the monitor polls.  An instance tunnels through a profile   *)
(* and a profile jumps through another.                                    *)
(***************************************************************************)
EXTENDS Naturals, FiniteSets

CONSTANTS
  Profiles, Instances,   \* ids
  Rules,                 \* sets of port forwards a profile may have
  Addresses,             \* runtime and address of an instance
  Commands,              \* commands on the instances that may run at once
  None

RegistryAssumption ==
  None \notin Profiles \cup Instances \cup Rules /\ IsFiniteSet(Profiles)

VARIABLES
  profiles,   \* sessions.json
  rules,      \* what save_profile_forwards last put there; not in the code
  imported,   \* an import wrote profiles; not in the code
  instances,  \* llm_instances.json
  slot,       \* AppState.llm_instances
  command     \* the commands under way, each with the list it read

vars == <<profiles, rules, imported, instances, slot, command>>

Profile == [jump : Profiles \cup {None}, forwards : Rules, key : BOOLEAN]
Absent == [jump |-> None, forwards |-> None, key |-> FALSE]
Instance == [address : Addresses, through : Profiles \cup {None}, enabled : BOOLEAN]
NotThere == [address |-> None, through |-> None, enabled |-> FALSE]
Lists == [Instances -> Instance \cup {NotThere}]
Idle == [at |-> "idle", list |-> [i \in Instances |-> NotThere]]

TypeOK ==
  /\ profiles \in [Profiles -> Profile \cup {Absent}]
  /\ rules \in [Profiles -> Rules \cup {None}] /\ imported \in BOOLEAN
  /\ {instances, slot} \subseteq Lists
  /\ command \in [Commands -> [at : {"idle", "list", "save", "write", "slot"},
                               list : Lists]]

Init ==
  /\ profiles = [p \in Profiles |-> Absent]
  /\ rules = [p \in Profiles |-> None] /\ imported = FALSE
  /\ instances = Idle.list /\ slot = Idle.list
  /\ command = [c \in Commands |-> Idle]

-----------------------------------------------------------------------------
(* Profiles: a command reads, changes and writes the file with the lock.   *)

Saved == {p \in Profiles : profiles[p] # Absent}
listing == <<instances, slot, command>>

\* A save that takes the draft as it is.
Merged_Draft(old, draft) == draft

\* merge_profile: what other commands edit is not taken from the draft, which
\* may be older than the profile.
Merged(old, draft) ==
  IF old = Absent THEN draft
  ELSE [draft EXCEPT !.forwards = old.forwards, !.key = old.key]

\* normalize_profile
Normalized(p, draft) == [draft EXCEPT !.jump = IF @ = p THEN None ELSE @]

Jump(all, p) == IF p = None THEN None ELSE all[p].jump

\* A walk that looks at the first jump only.
LeadsBack_First(all, p) == Jump(all, p) = p

\* ensure_no_jump_loop: a walk comes back to p, or never ends.
LeadsBack(all, p) ==
  LET most == 1 + Cardinality({q \in Profiles : all[q] # Absent})
      after[n \in 0 .. most] == Jump(all, IF n = 0 THEN p ELSE after[n - 1])
  IN after[most] # None \/ \E n \in 0 .. most : after[n] = p

SavesProfile(p, draft) ==
  /\ LET new == [profiles EXCEPT ![p] = Merged(@, Normalized(p, draft))]
     IN profiles' = IF LeadsBack(new, p) THEN profiles ELSE new
  /\ rules' = IF p \notin Saved /\ profiles'[p] # Absent
              THEN [rules EXCEPT ![p] = draft.forwards] ELSE rules
  /\ UNCHANGED <<imported, listing>>

\* upsert_profiles, for an import: the walk is not made.
Imports(p, draft) ==
  /\ profiles' = [profiles EXCEPT ![p] = Merged(@, Normalized(p, draft))]
  /\ rules' = IF p \notin Saved THEN [rules EXCEPT ![p] = draft.forwards] ELSE rules
  /\ imported' = TRUE /\ UNCHANGED listing

SavesForwards(p, forwards) ==
  /\ p \in Saved
  /\ profiles' = [profiles EXCEPT ![p].forwards = forwards]
  /\ rules' = [rules EXCEPT ![p] = forwards]
  /\ UNCHANGED <<imported, listing>>

\* set_managed_key_info
SetsKey(p, key) ==
  /\ p \in Saved /\ profiles' = [profiles EXCEPT ![p].key = key]
  /\ UNCHANGED <<rules, imported, listing>>

\* delete_session, which the profiles and instances that need p refuse.
DeletesProfile(p) ==
  /\ p \in Saved
  /\ \A q \in Profiles \ {p} : profiles[q].jump # p
  /\ \A i \in Instances : instances[i].through # p
  /\ profiles' = [profiles EXCEPT ![p] = Absent]
  /\ rules' = [rules EXCEPT ![p] = None]
  /\ UNCHANGED <<imported, listing>>

-----------------------------------------------------------------------------
(* Instances.                                                              *)

Stored == <<profiles, rules, imported>>
Now(c, state) == command' = [command EXCEPT ![c] = state]

\* What delete_llm_instance and set_llm_instance_enabled make of a list.
Changed(list) ==
  {[list EXCEPT ![i] = NotThere] : i \in Instances}
    \cup {[list EXCEPT ![i].enabled = ~@] : i \in {j \in Instances : list[j] # NotThere}}

\* Each command reads the file first.
Reads(c) ==
  /\ command[c].at = "idle"
  /\ \/ \E at \in {"list", "save"} : Now(c, [at |-> at, list |-> instances])
     \/ \E list \in Changed(instances) : Now(c, [at |-> "write", list |-> list])
  /\ UNCHANGED <<Stored, instances, slot>>

\* list_llm_instances
ShowsList(c) ==
  /\ command[c].at = "list" /\ slot' = command[c].list /\ Now(c, Idle)
  /\ UNCHANGED <<Stored, instances>>

\* An instance that no other is compared with.
Upserted_Any(list, i, new) == [list EXCEPT ![i] = new]

\* upsert: two at one address through one profile are refused.
Upserted(list, i, new) ==
  IF \E j \in Instances \ {i} :
       list[j].address = new.address /\ list[j].through = new.through
  THEN list ELSE [list EXCEPT ![i] = new]

\* save_llm_instance: the profile has to exist, now.
Validates(c) ==
  /\ command[c].at = "save"
  /\ \E i \in Instances, new \in Instance :
       IF new.through \in Saved \cup {None}
          /\ Upserted(command[c].list, i, new) # command[c].list
       THEN Now(c, [at |-> "write", list |-> Upserted(command[c].list, i, new)])
       ELSE Now(c, Idle)
  /\ UNCHANGED <<Stored, instances, slot>>

\* persist
Writes(c) ==
  /\ command[c].at = "write" /\ instances' = command[c].list
  /\ Now(c, [command[c] EXCEPT !.at = "slot"])
  /\ UNCHANGED <<Stored, slot>>

FillsSlot(c) ==
  /\ command[c].at = "slot" /\ slot' = command[c].list /\ Now(c, Idle)
  /\ UNCHANGED <<Stored, instances>>

Next ==
  \/ \E p \in Profiles : \/ \E draft \in Profile : SavesProfile(p, draft) \/ Imports(p, draft)
                         \/ \E r \in Rules : SavesForwards(p, r)
                         \/ \E key \in BOOLEAN : SetsKey(p, key)
                         \/ DeletesProfile(p)
  \/ \E c \in Commands : Reads(c) \/ ShowsList(c) \/ Validates(c) \/ Writes(c) \/ FillsSlot(c)

Spec == Init /\ [][Next]_vars

-----------------------------------------------------------------------------
(* Properties.                                                             *)

\* "Forward rules are kept: they are edited only through
\* save_profile_forwards" (session.rs:645), however old the draft that is saved.
RulesAreKept == \A p \in Saved : profiles[p].forwards = rules[p]

\* Profiles of which each jumps through one of them: no jump of theirs ends.
Loop(S) == S # {} /\ \A p \in S : profiles[p].jump \in S

\* Two commands that save at once leave no jump loop; an import may.
LoopsAreImported == (\E S \in SUBSET Profiles : Loop(S)) => imported

\* However the commands overlap, the file never holds two instances of one
\* runtime at one address through one profile.
InstancesDistinct ==
  \A i, j \in Instances :
    i # j /\ NotThere \notin {instances[i], instances[j]}
      => <<instances[i].address, instances[i].through>>
           # <<instances[j].address, instances[j].through>>

-----------------------------------------------------------------------------
(* Three that do not hold.                                                 *)

\* delete_session refuses a profile that is needed; "deleting it would leave
\* dangling ids" (session.rs:303).
NoDanglingProfile ==
  /\ \A p \in Saved : profiles[p].jump \in Saved \cup {None}
  /\ \A i \in Instances : instances[i].through \in Saved \cup {None}

\* What one command wrote is not undone by another that only edits what it read
\* before: an instance leaves the file only by its own deletion.
InstanceUpdatesKept ==
  [][\A c \in Commands : command[c].at = "write" /\ command'[c].at = "slot"
       => Cardinality({i \in Instances : instances[i] # instances'[i]}) <= 1]_vars

\* What is polled is what is in the file, when no command is under way.
SlotFollowsFile == (\A c \in Commands : command[c].at = "idle") => slot = instances
=============================================================================
