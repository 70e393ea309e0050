----------------------------- MODULE ImportPlan -----------------------------
(***************************************************************************)
(* plan_import and import_ssh_config (ssh/ssh_config.rs): the hosts chosen *)
(* from a configuration become profiles, with those they jump through.  A  *)
(* host that has a profile at its endpoint updates that one; a hop is a    *)
(* host of the configuration, a profile, or becomes one.                   *)
(***************************************************************************)
EXTENDS Naturals, Sequences, FiniteSets, SequencesExt

CONSTANTS
  Aliases,
  Endpoints,     \* host, port and user
  Chains,        \* ProxyJump values: sequences of aliases, endpoints and of
                 \* Unreadable hops
  Unreadable,
  MaxProfiles,   \* profiles that are made, numbered from 1: a bound; 0 is none
  MaxJumpHops

ImportPlanAssumption ==
  Aliases \cap Endpoints = {} /\ Unreadable \notin Aliases \cup Endpoints

VARIABLES
  config,     \* each alias: its endpoint and the hops to it
  profiles,   \* sessions.json: endpoint and jump of each profile
  made,       \* how many there were
  chosen,     \* the aliases of the last import
  created     \* how many profiles it made

vars == <<config, profiles, made, chosen, created>>

Ids == 1 .. MaxProfiles
NoProfile == [at |-> "none", jump |-> 0]

TypeOK ==
  /\ config \in [Aliases -> [at : Endpoints, through : Chains]]
  /\ profiles \in [Ids -> [at : Endpoints, jump : 0 .. MaxProfiles] \cup {NoProfile}]
  /\ made \in 0 .. MaxProfiles /\ created \in 0 .. MaxProfiles
  /\ chosen \subseteq Aliases

Init ==
  /\ config \in [Aliases -> [at : Endpoints, through : Chains]]
  /\ \/ profiles = [i \in Ids |-> NoProfile] /\ made = 0
     \/ \E e \in Endpoints :
          profiles = [i \in Ids |-> IF i = 1 THEN [at |-> e, jump |-> 0] ELSE NoProfile]
          /\ made = 1
  /\ chosen = {} /\ created = 0

-----------------------------------------------------------------------------
\* The chosen aliases and all that they jump through.
Needed(aliases) ==
  LET Hops(S) == UNION {Range(config[a].through) : a \in S} \cap Aliases
      more[n \in 0 .. Cardinality(Aliases)] ==
        IF n = 0 THEN aliases ELSE more[n - 1] \cup Hops(more[n - 1])
  IN more[Cardinality(Aliases)]

\* The state of a plan: what is planned, [id, at, jump] in order, hop profiles
\* apart, and the next id.

\* Nothing is ever found, so nothing is updated.
Found_Never(saved, list, endpoint) == 0

\* same_endpoint: the saved profile at an endpoint, else the first planned one.
Found(saved, list, endpoint) ==
  IF saved[endpoint] # 0 THEN saved[endpoint]
  ELSE LET there == SelectSeq(list, LAMBDA p : p.at = endpoint)
       IN IF there = <<>> THEN 0 ELSE there[1].id

\* Pass 1: one profile for each alias.
PlanAlias(saved, plan, alias) ==
  LET at == config[alias].at
      old == Found(saved, <<>>, at)
      id == IF old # 0 THEN old ELSE plan.next
  IN [plan EXCEPT !.planned = Append(@, [id |-> id, at |-> at,
                                         jump |-> IF old # 0 THEN profiles[old].jump ELSE 0]),
                  !.ids[alias] = id,
                  !.next = IF old # 0 THEN @ ELSE @ + 1]

\* Pass 2: a hop, reached through the one before it; one that cannot be read
\* ends the chain.
Hop(saved, chain, hop) ==
  LET id == IF hop \in Aliases THEN chain.ids[hop]
            ELSE Found(saved, chain.planned \o chain.hops, hop)
  IN IF hop = Unreadable \/ ~chain.ok THEN [chain EXCEPT !.ok = FALSE]
     ELSE IF id # 0 THEN [chain EXCEPT !.previous = id]
     ELSE [chain EXCEPT !.hops = Append(@, [id |-> chain.next, at |-> hop,
                                            jump |-> chain.previous]),
                        !.next = @ + 1, !.previous = chain.next]

\* The first planned profile of the alias gets the last hop, unless that is
\* itself.
PlanJump(saved, plan, alias) ==
  LET through == config[alias].through
      id == plan.ids[alias]
      start == [plan EXCEPT !.previous = 0, !.ok = TRUE]
      end == FoldLeft(LAMBDA chain, hop : Hop(saved, chain, hop), start, through)
      first == CHOOSE i \in DOMAIN plan.planned :
                 plan.planned[i].id = id /\ \A j \in 1 .. i - 1 : plan.planned[j].id # id
  IN IF through = <<>> \/ Len(through) > MaxJumpHops THEN plan
     ELSE IF ~end.ok \/ end.previous = id THEN end
     ELSE [end EXCEPT !.planned[first].jump = end.previous]

\* plan_import, for the aliases in the order they are taken from the queue.
Plan(saved, order) ==
  LET start == [planned |-> <<>>, hops |-> <<>>, ids |-> [a \in Aliases |-> 0],
                next |-> made + 1, previous |-> 0, ok |-> TRUE]
      first == FoldLeft(LAMBDA plan, a : PlanAlias(saved, plan, a), start, order)
  IN FoldLeft(LAMBDA plan, a : PlanJump(saved, plan, a), first, order)

\* upsert_profiles: of two that are planned for one profile the last stays.
Upserted(plan) ==
  FoldLeft(LAMBDA all, p : [all EXCEPT ![p.id] = [at |-> p.at, jump |-> p.jump]],
           profiles, plan.planned \o plan.hops)

\* import_ssh_config; the list is sorted by name, so any of the profiles at an
\* endpoint may come first.
Imports(aliases) ==
  \E order \in SetToSeqs(Needed(aliases)),
     saved \in [Endpoints -> {0} \cup {i \in Ids : profiles[i] # NoProfile}] :
    LET At(e) == {i \in Ids : profiles[i].at = e}
        plan == Plan(saved, order)
    IN /\ \A e \in Endpoints : IF At(e) = {} THEN saved[e] = 0 ELSE saved[e] \in At(e)
       /\ plan.next <= MaxProfiles + 1
       /\ profiles' = Upserted(plan) /\ made' = plan.next - 1
       /\ created' = plan.next - 1 - made
       /\ chosen' = aliases /\ UNCHANGED config

Next == \E aliases \in SUBSET Aliases \ {{}} : Imports(aliases)

Spec == Init /\ [][Next]_vars

-----------------------------------------------------------------------------
(* Properties.                                                             *)

\* Importing once more what was just imported makes no profile: "Selected hosts
\* that match a saved profile update it in place" (ssh_config.rs:552), and so
\* do the hops.
ImportsOnce == [][chosen' = chosen /\ chosen # {} => created' = 0]_vars

\* Hosts at endpoints of their own are reached through the last hop of their
\* chain, whatever was there before.
Endpoint(hop) == IF hop \in Aliases THEN config[hop].at ELSE hop
LastHopIsKept ==
  (\A a, b \in Aliases : a # b => config[a].at # config[b].at) =>
    \A a \in chosen :
      LET through == config[a].through
      IN through # <<>> /\ Len(through) <= MaxJumpHops /\ Unreadable \notin Range(through)
           /\ Endpoint(Last(through)) # config[a].at
         => \E i \in Ids : /\ profiles[i].at = config[a].at /\ profiles[i].jump # 0
                           /\ profiles[profiles[i].jump].at = Endpoint(Last(through))

-----------------------------------------------------------------------------
(* One that does not hold.                                                 *)

\* "`a,b` reaches b through a, then the target through b" (ssh_config.rs:647).
ReachesThroughHops ==
  \A a \in chosen :
    LET through == config[a].through
    IN Len(through) = 2 /\ Cardinality({config[a].at, Endpoint(through[1]), Endpoint(through[2])}) = 3
         /\ (\A b, c \in Aliases : b # c => config[b].at # config[c].at)
       => \E i \in Ids : /\ profiles[i].at = Endpoint(through[2]) /\ profiles[i].jump # 0
                         /\ profiles[profiles[i].jump].at = Endpoint(through[1])
=============================================================================
