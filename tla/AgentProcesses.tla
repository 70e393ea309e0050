--------------------------- MODULE AgentProcesses ---------------------------
(***************************************************************************)
(* Which processes of a host are one agent, and which session each agent   *)
(* is shown with (build_agent_metrics and assign_metadata,                 *)
(* ssh/agent_monitor.rs).  A listing of processes and the sessions read    *)
(* from logs and snapshots come in; a list of agents goes out.             *)
(***************************************************************************)
EXTENDS Naturals, Sequences, FiniteSets, SequencesExt

CONSTANTS
  MaxPid,        \* processes 1..MaxPid; 0 is no parent
  Providers,     \* a sequence, in the order in which they are looked for
  ByKey,         \* the same, in the order of Provider::key
  Marks,         \* what a command line may show: sets of Providers
  Hints,         \* the pids a snapshot may name
  MaxSessions,   \* sessions of a provider: a bound
  Reused,        \* whether a pid may be given again while children of the
                 \* process that had it run, as Windows does
  None

ProcessAssumption ==
  /\ Range(Providers) = Range(ByKey) /\ None \notin Hints
  /\ Marks \subseteq SUBSET Range(Providers) /\ Reused \in BOOLEAN

VARIABLES
  processes,   \* pid -> parent and marks
  metadata,    \* provider -> sessions, the latest first, each the pid it names
  agents       \* the listing; None before

vars == <<processes, metadata, agents>>

Pids == 1 .. MaxPid

\* The processes above each.
Above(parents) ==
  LET up[n \in 0 .. MaxPid] ==
        [p \in Pids |->
           IF n = 0 THEN {parents[p]} \ {0}
           ELSE up[n - 1][p] \cup ({parents[q] : q \in up[n - 1][p]} \ {0})]
  IN up[MaxPid]

Forests ==
  {parents \in [Pids -> 0 .. MaxPid] :
     Reused \/ LET above == Above(parents) IN \A p \in Pids : p \notin above[p]}

Init ==
  /\ \E parents \in Forests, marks \in [Pids -> Marks] :
       processes = [p \in Pids |-> [parent |-> parents[p], marks |-> marks[p]]]
  /\ metadata \in [Range(Providers) -> BoundedSeq(Hints \cup {None}, MaxSessions)]
  /\ agents = None

-----------------------------------------------------------------------------
(* build_agent_metrics                                                     *)

\* provider_for_process, over executable_candidates and the command.
Provider(pid) ==
  IF processes[pid].marks = {} THEN None
  ELSE SelectSeq(Providers, LAMBDA p : p \in processes[pid].marks)[1]

\* A walk up from an agent never ends among processes that are their own
\* ancestors, unless it meets an agent of its provider.
Hangs(kind, above) ==
  \E p \in Pids :
    /\ kind[p] # None
    /\ \A q \in above[p] : kind[q] # kind[p]
    /\ \E q \in above[p] : q \in above[q]

\* Each agent process an agent of its own.
Roots_All(kind, above) == {p \in Pids : kind[p] # None}

\* The agents with no agent of their provider above them.
Roots(kind, above) ==
  {p \in Pids : kind[p] # None /\ \A q \in above[p] : kind[q] # kind[p]}

\* A root and what is below it, but neither other roots nor what is below those.
Tree(root, roots) ==
  LET down[n \in 0 .. MaxPid] ==
        IF n = 0 THEN {root}
        ELSE down[n - 1] \cup {p \in Pids \ (roots \ {root}) :
                                  processes[p].parent \in down[n - 1]}
  IN down[MaxPid]

\* By provider and pid.
Trees(kind, roots) ==
  LET Of(provider) == SetToSortSeq({p \in roots : kind[p] = provider}, <)
      order == FoldLeft(LAMBDA all, provider : all \o Of(provider), <<>>, ByKey)
  IN [i \in DOMAIN order |-> [root |-> order[i], provider |-> kind[order[i]],
                              members |-> Tree(order[i], roots)]]

-----------------------------------------------------------------------------
(* assign_metadata                                                         *)

Least(S) == CHOOSE i \in S : \A j \in S : i <= j

\* The first session that names a process of the tree; 0 is none.
Hinted(tree) ==
  LET sessions == metadata[tree.provider]
      mine == {i \in DOMAIN sessions : sessions[i] \in tree.members}
  IN IF mine = {} THEN 0 ELSE Least(mine)

\* Any session that is left, whatever process it names.
Free_Any(provider, used, trees) ==
  {i \in DOMAIN metadata[provider] : <<provider, i>> \notin used}

\* The sessions nobody has that name no process of an agent.
Free(provider, used, trees) ==
  {i \in DOMAIN metadata[provider] :
     /\ <<provider, i>> \notin used
     /\ \A tree \in Range(trees) : metadata[provider][i] \notin tree.members}

\* Sessions that name a process go to its tree, the others in order to the
\* trees that have none.
Assigned(trees) ==
  LET hinted == [t \in DOMAIN trees |-> Hinted(trees[t])]
      used == {<<trees[t].provider, hinted[t]>> : t \in DOMAIN trees}
      Give(state, tree) ==
        LET t == Len(state.given) + 1
            free == Free(tree.provider, state.used, trees)
            i == IF hinted[t] # 0 \/ free = {} THEN hinted[t] ELSE Least(free)
        IN [given |-> Append(state.given, i),
            used |-> state.used \cup {<<tree.provider, i>>}]
  IN FoldLeft(Give, [given |-> <<>>, used |-> used], trees).given

\* The agents of one tick.
Lists ==
  /\ agents = None
  /\ LET above == Above([p \in Pids |-> processes[p].parent])
         kind == [p \in Pids |-> Provider(p)]
         trees == Trees(kind, Roots(kind, above))
         given == Assigned(trees)
     IN /\ ~Hangs(kind, above)
        /\ agents' = [t \in DOMAIN trees |->
                        [root |-> trees[t].root, provider |-> trees[t].provider,
                         members |-> trees[t].members, session |-> given[t]]]
  /\ UNCHANGED <<processes, metadata>>

Next == Lists

Spec == Init /\ [][Next]_vars

-----------------------------------------------------------------------------
(* Properties.                                                             *)

Listed == agents # None

RingAbove(p) ==
  LET above == Above([q \in Pids |-> processes[q].parent])
  IN \E q \in above[p] : q \in above[q]

\* A process is counted in one agent at most, and two agents of a provider are
\* not below each other: CPU and memory are summed once.  Each agent process is in
\* one, unless parents whose pids were given again form a ring above it.
CountedOnce ==
  Listed =>
    /\ \A p \in Pids :
         LET in == {i \in DOMAIN agents : p \in agents[i].members}
         IN Cardinality(in) <= 1 /\ (Provider(p) # None /\ ~RingAbove(p) => in # {})
    /\ \A i, j \in DOMAIN agents :
         i # j /\ agents[i].provider = agents[j].provider
           => agents[j].root \notin Above([p \in Pids |-> processes[p].parent])[agents[i].root]

\* "A snapshot naming a pid that is live in another tree belongs to that
\* session, so it is never handed to an unrelated process"
\* (agent_monitor.rs:1939), and a session is shown with one agent only.
SessionIsItsOwn ==
  Listed =>
    \A i \in DOMAIN agents : agents[i].session # 0 =>
      LET names == metadata[agents[i].provider][agents[i].session]
      IN /\ \A j \in DOMAIN agents : names \in agents[j].members => j = i
         /\ \A j \in DOMAIN agents :
              j # i /\ agents[j].provider = agents[i].provider
                => agents[j].session # agents[i].session

\* An agent goes without a session only when all its provider's are spoken for.
NoneToSpare ==
  Listed =>
    \A i \in DOMAIN agents : agents[i].session = 0 =>
      \A k \in DOMAIN metadata[agents[i].provider] :
        \E j \in DOMAIN agents :
          \/ agents[j].provider = agents[i].provider /\ agents[j].session = k
          \/ metadata[agents[i].provider][k] \in agents[j].members

-----------------------------------------------------------------------------
(* Two that do not hold when pids are given again.                         *)

\* The walk up from an agent ends (agent_monitor.rs:1813).
WalkEnds ==
  ~Hangs([p \in Pids |-> Provider(p)], Above([p \in Pids |-> processes[p].parent]))

\* Every agent process is in an agent: one that comes to be its own ancestor is
\* taken to be below itself (agent_monitor.rs:1814).
EveryAgentIsListed ==
  Listed => \A p \in Pids :
    Provider(p) # None => \E i \in DOMAIN agents : p \in agents[i].members
=============================================================================
