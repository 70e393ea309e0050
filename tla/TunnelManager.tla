--------------------------- MODULE TunnelManager ---------------------------
(***************************************************************************)
(* The SSH tunnels of the LLM poller (src-tauri/src/llm/tunnel.rs).        *)
(*                                                                         *)
(* The manager belongs to the coordinator thread alone, so `retain` and    *)
(* `endpoint_for` are atomic.  What moves behind its back: connect threads *)
(* that complete late or after they were given up, forwarders that die,    *)
(* time, profiles that are edited or whose host key is (un)trusted, and    *)
(* instances that are edited, enabled and disabled.                        *)
(***************************************************************************)
EXTENDS FiniteSets, TLC

CONSTANTS
  Instances,   \* registered LLM instances
  Profiles,    \* SSH profiles they tunnel through
  Signatures,  \* where a profile points: target_signature
  Addresses,   \* host and port of a base_url, as seen from the SSH host
  Connections, \* SSH connections that can exist at one time: a bound
  None

Forward == [connection : Connections, address : Addresses,
            alive : BOOLEAN, hopFailed : BOOLEAN]

ASSUME TunnelAssumption ==
  None \notin Profiles \cup Signatures \cup Connections \cup Forward

VARIABLES
  instance,   \* ssh_profile_id and base_url of each instance
  enabled,    \* the instances switched on
  signature,  \* the signature a profile resolves to; None: cannot resolve
  trusted,    \* profiles whose host keys are known
  visit,      \* instances the tick of the coordinator has yet to look at
  result,     \* what endpoint_for said of each instance last
  tunnels,    \* struct TunnelManager
  slot,       \* each connection: its thread, or what became of it
  target      \* the signature each connection was opened for

config == <<instance, enabled, signature, trusted>>
vars == <<config, visit, result, tunnels, slot, target>>

Instance == [profile : Profiles, address : Addresses]
Manager  == [hosts    : [Profiles -> Connections \cup {None}],
             pending  : [Profiles -> Connections \cup {None}],
             overdue  : SUBSET Profiles,  \* pending longer than 20 s
             waiting  : SUBSET Profiles,  \* now < retry_at
             forwards : [Instances -> Forward \cup {None}],
             owners   : [Instances -> Profiles \cup {None}]]

TypeOK ==
  /\ instance \in [Instances -> Instance]
  /\ enabled \subseteq Instances
  /\ signature \in [Profiles -> Signatures \cup {None}]
  /\ trusted \subseteq Profiles
  /\ visit \subseteq Instances
  /\ result \in [Instances -> {"none", "ready", "pending", "failed", "unbound"}]
  /\ tunnels \in Manager
  /\ slot \in [Connections -> {"closed", "connecting", "ok", "error", "lost"}]
  /\ target \in [Connections -> Signatures \cup {None}]

Init ==
  /\ instance \in [Instances -> Instance]
  /\ enabled \in SUBSET Instances
  /\ signature \in [Profiles -> Signatures]
  /\ trusted = Profiles
  /\ visit = {}
  /\ result = [i \in Instances |-> "none"]
  /\ tunnels = [hosts    |-> [p \in Profiles |-> None],
                pending  |-> [p \in Profiles |-> None],
                overdue  |-> {}, waiting |-> {},
                forwards |-> [i \in Instances |-> None],
                owners   |-> [i \in Instances |-> None]]
  /\ slot = [c \in Connections |-> "closed"]
  /\ target = [c \in Connections |-> None]

-----------------------------------------------------------------------------
(* Operators on the manager.                                               *)

\* The forwards of the instances in S and their owners go together.
DropForwards(m, S) ==
  [m EXCEPT !.forwards = [i \in Instances |-> IF i \in S THEN None ELSE @[i]],
            !.owners   = [i \in Instances |-> IF i \in S THEN None ELSE @[i]]]

\* A drop_profile that forgets the forwards riding on the connection.
DropProfile_KeepsForwards(m, p) ==
  [m EXCEPT !.hosts[p] = None, !.pending[p] = None, !.overdue = @ \ {p}]

\* drop_profile: the forwards first, then the connection and the pending one.
DropProfile(m, p) ==
  [DropForwards(m, {i \in Instances : m.owners[i] = p})
     EXCEPT !.hosts[p] = None, !.pending[p] = None, !.overdue = @ \ {p}]

\* A check that looks at the established connection only.
SignatureChanged_HostsOnly(m, p) ==
  m.hosts[p] # None /\ target[m.hosts[p]] # signature[p]

SignatureChanged(m, p) ==
  \E c \in {m.hosts[p], m.pending[p]} \ {None} : target[c] # signature[p]

Alive(m, i) == m.forwards[i] # None /\ m.forwards[i].alive

HopFailed(m, i) ==
  /\ m.forwards[i] # None
  /\ ~m.forwards[i].alive /\ m.forwards[i].hopFailed

\* record_failure: no new attempt before the backoff has passed.
RecordFailure(m, p) ==
  [m EXCEPT !.pending[p] = None, !.overdue = @ \ {p}, !.waiting = @ \cup {p}]

\* A drain_pending without the 20 s limit.
DrainPending_NoTimeout(m, p) ==
  LET c == m.pending[p] IN
  IF c = None THEN m
  ELSE CASE slot[c] = "ok" ->
              [m EXCEPT !.hosts[p] = c, !.pending[p] = None,
                        !.overdue = @ \ {p}, !.waiting = @ \ {p}]
         [] slot[c] = "error" -> RecordFailure(m, p)
         [] OTHER -> m

\* drain_pending: fold in a finished connect, give up on one that is late.
DrainPending(m, p) ==
  LET c == m.pending[p] IN
  IF c = None THEN m
  ELSE CASE slot[c] = "ok" ->
              [m EXCEPT !.hosts[p] = c, !.pending[p] = None,
                        !.overdue = @ \ {p}, !.waiting = @ \ {p}]
         [] slot[c] = "error" -> RecordFailure(m, p)
         [] OTHER -> IF p \in m.overdue THEN RecordFailure(m, p) ELSE m

\* Connections the process still holds: those of the manager, those a forward
\* keeps alive, and those a thread is still opening.
Held(m, slots) ==
  {c \in Connections :
     \/ slots[c] = "connecting"
     \/ \E p \in Profiles : c \in {m.hosts[p], m.pending[p]}
     \/ \E i \in Instances : m.forwards[i] # None
                             /\ m.forwards[i].connection = c}

\* A connection nothing holds any more is closed.
Close(m, slots) ==
  [c \in Connections |-> IF c \in Held(m, slots) THEN slots[c] ELSE "closed"]

-----------------------------------------------------------------------------
(* The coordinator.                                                        *)

\* retain(live), then every enabled instance in turn.
Retain ==
  /\ visit = {}
  /\ visit' = enabled
  /\ LET m    == DropForwards(tunnels, Instances \ enabled)
         idle == {p \in Profiles : /\ m.hosts[p] # None
                                   /\ \A i \in Instances : m.owners[i] # p}
     IN  tunnels' =
           [m EXCEPT
              !.hosts   = [p \in Profiles |-> IF p \in idle THEN None ELSE @[p]],
              !.pending = [p \in Profiles |-> IF p \in idle THEN None ELSE @[p]],
              !.overdue = @ \ idle]
  /\ slot' = Close(tunnels', slot)
  /\ UNCHANGED <<config, result, target>>

\* Not due, or its probe is in flight.
Skip(i) ==
  /\ i \in visit
  /\ visit' = visit \ {i}
  /\ UNCHANGED <<config, result, tunnels, slot, target>>

Answer(i, answer) ==
  /\ result' = [result EXCEPT ![i] = answer]
  /\ visit' = visit \ {i}

\* The profile does not resolve, or its host key is not trusted: decided
\* before any socket is opened.
EndpointRefused(i) ==
  LET p == instance[i].profile IN
  /\ i \in visit
  /\ signature[p] = None \/ p \notin trusted
  /\ Answer(i, "failed")
  /\ UNCHANGED <<config, tunnels, slot, target>>

\* The manager once a moved profile or a dead hop was dropped and a finished
\* connect folded in.
Settled(i) ==
  LET p  == instance[i].profile
      m1 == IF SignatureChanged(tunnels, p) THEN DropProfile(tunnels, p)
            ELSE tunnels
      m2 == IF HopFailed(m1, i) THEN DropProfile(m1, p) ELSE m1
  IN  DrainPending(m2, p)

EndpointSettled(i, answer, m) ==
  /\ i \in visit
  /\ signature[instance[i].profile] # None
  /\ instance[i].profile \in trusted
  /\ Answer(i, answer)
  /\ tunnels' = m
  /\ slot' = Close(m, slot)
  /\ UNCHANGED <<config, target>>

\* forward_for: the forward of this instance is alive and reused ...
ForwardReused(i) ==
  LET m == Settled(i) IN
  /\ m.hosts[instance[i].profile] # None
  /\ Alive(m, i)
  /\ EndpointSettled(i, "ready", m)

\* A forward_for reached without a connection.
ForwardBuilt_NoHost(i) ==
  LET m == Settled(i)
      p == instance[i].profile
  IN
  /\ ~Alive(m, i)
  /\ EndpointSettled(i, "ready",
       [m EXCEPT !.forwards[i] = [connection |-> m.hosts[p],
                                  address |-> instance[i].address,
                                  alive |-> TRUE, hopFailed |-> FALSE],
                 !.owners[i] = p])

\* ... or it is rebuilt on the connection of the profile ...
ForwardBuilt(i) ==
  LET m == Settled(i)
      p == instance[i].profile
  IN
  /\ m.hosts[p] # None
  /\ ~Alive(m, i)
  /\ EndpointSettled(i, "ready",
       [m EXCEPT !.forwards[i] = [connection |-> m.hosts[p],
                                  address |-> instance[i].address,
                                  alive |-> TRUE, hopFailed |-> FALSE],
                 !.owners[i] = p])

\* ... or the local port cannot be bound.
ForwardUnbound(i) ==
  LET m == Settled(i) IN
  /\ m.hosts[instance[i].profile] # None
  /\ ~Alive(m, i)
  /\ EndpointSettled(i, "unbound", DropForwards(m, {i}))

ConnectPending(i) ==
  LET m == Settled(i) IN
  /\ m.hosts[instance[i].profile] = None
  /\ m.pending[instance[i].profile] # None
  /\ EndpointSettled(i, "pending", m)

BackingOff(i) ==
  LET m == Settled(i)
      p == instance[i].profile
  IN
  /\ m.hosts[p] = None /\ m.pending[p] = None /\ p \in m.waiting
  /\ EndpointSettled(i, "failed", m)

\* begin_connect hands the connection to a thread of its own.
BeginConnect(i, c) ==
  LET m     == Settled(i)
      p     == instance[i].profile
      freed == Close(m, slot)
  IN
  /\ i \in visit /\ signature[p] # None /\ p \in trusted
  /\ m.hosts[p] = None /\ m.pending[p] = None /\ p \notin m.waiting
  /\ freed[c] = "closed"
  /\ Answer(i, "pending")
  /\ tunnels' = [m EXCEPT !.pending[p] = c]
  /\ slot' = [freed EXCEPT ![c] = "connecting"]
  /\ target' = [target EXCEPT ![c] = signature[p]]
  /\ UNCHANGED config

EndpointFor(i) ==
  \/ EndpointRefused(i) \/ ForwardReused(i) \/ ForwardBuilt(i)
  \/ ForwardUnbound(i) \/ ConnectPending(i) \/ BackingOff(i)
  \/ \E c \in Connections : BeginConnect(i, c)

-----------------------------------------------------------------------------
(* What happens behind the manager's back.                                 *)

\* The connect thread completes its handle, or ends without doing so ("lost").
\* A handle nobody looks at any more is dropped with the connection in it.
ConnectDone(c, outcome) ==
  /\ slot[c] = "connecting"
  /\ slot' = Close(tunnels, [slot EXCEPT ![c] = outcome])
  /\ UNCHANGED <<config, visit, result, tunnels, target>>

\* A forwarder ends; it knows whether the hop was to blame.
ForwarderDies(i, hop) ==
  /\ Alive(tunnels, i)
  /\ tunnels' = [tunnels EXCEPT !.forwards[i].alive = FALSE,
                                !.forwards[i].hopFailed = hop]
  /\ UNCHANGED <<config, visit, result, slot, target>>

\* Time passes between two ticks: a tick reads the clock once.  20 s passed
\* since the connect began ...
ConnectOverdue(p) ==
  /\ visit = {}
  /\ tunnels.pending[p] # None /\ p \notin tunnels.overdue
  /\ tunnels' = [tunnels EXCEPT !.overdue = @ \cup {p}]
  /\ UNCHANGED <<config, visit, result, slot, target>>

\* ... or the backoff after a failure is over: it lasts five seconds or more,
\* and an instance that was told "pending" is asked again after one
\* (monitor.rs:924-930).
BackoffPasses(p) ==
  /\ visit = {}
  /\ \A i \in enabled : instance[i].profile = p => result[i] # "pending"
  /\ p \in tunnels.waiting
  /\ tunnels' = [tunnels EXCEPT !.waiting = @ \ {p}]
  /\ UNCHANGED <<config, visit, result, slot, target>>

EditProfile(p, s) ==
  /\ signature' = [signature EXCEPT ![p] = s]
  /\ UNCHANGED <<instance, enabled, trusted, visit, result, tunnels, slot,
                 target>>

ChangeTrust(p) ==
  /\ trusted' = IF p \in trusted THEN trusted \ {p} ELSE trusted \cup {p}
  /\ UNCHANGED <<instance, enabled, signature, visit, result, tunnels, slot,
                 target>>

\* The coordinator works on a copy of the list, taken when its tick starts: an
\* edit during a tick is an edit after it.
EditInstance(i, settings) ==
  /\ visit = {}
  /\ instance' = [instance EXCEPT ![i] = settings]
  /\ UNCHANGED <<enabled, signature, trusted, visit, result, tunnels, slot,
                 target>>

SwitchInstance(i) ==
  /\ visit = {}
  /\ enabled' = IF i \in enabled THEN enabled \ {i} ELSE enabled \cup {i}
  /\ UNCHANGED <<instance, signature, trusted, visit, result, tunnels, slot,
                 target>>

Coordinator == Retain \/ \E i \in Instances : Skip(i) \/ EndpointFor(i)

ConfigStep ==
  \/ \E p \in Profiles : \/ \E s \in Signatures \cup {None} : EditProfile(p, s)
                         \/ ChangeTrust(p)
  \/ \E i \in Instances : \/ \E settings \in Instance : EditInstance(i, settings)
                          \/ SwitchInstance(i)

Next ==
  \/ Coordinator
  \/ \E c \in Connections, o \in {"ok", "error", "lost"} : ConnectDone(c, o)
  \/ \E i \in Instances, hop \in BOOLEAN : ForwarderDies(i, hop)
  \/ \E p \in Profiles : ConnectOverdue(p) \/ BackoffPasses(p)
  \/ ConfigStep

Spec == Init /\ [][Next]_vars

\* The coordinator ticks every 500 ms and an enabled instance comes due again
\* and again; time passes; a connect thread ends, for every SSH step has its
\* own timeout, but nothing says that it reports.  A pending instance is asked
\* every second: it does not for ever miss the ticks in which its connection is
\* up, although another instance on the profile may be the one that folds the
\* connect in.  A local port, which the system picks, can be bound sooner or
\* later.
Fairness ==
  /\ WF_vars(Coordinator)
  /\ \A i \in Instances : /\ SF_vars(EndpointFor(i))
                         /\ SF_vars(EndpointFor(i) /\ result'[i] # "pending")
                         /\ SF_vars(ForwardBuilt(i))
  /\ \A p \in Profiles : SF_vars(ConnectOverdue(p)) /\ SF_vars(BackoffPasses(p))
  /\ \A c \in Connections :
       WF_vars(\E o \in {"ok", "error", "lost"} : ConnectDone(c, o))

FairSpec == Spec /\ Fairness

-----------------------------------------------------------------------------
(* Properties.                                                             *)

\* A forward always rides on the connection its owner has now: whatever drops
\* or replaces a connection first drops the forwards on it, also those of
\* instances that have since moved to another profile.  A profile never has
\* both a connection and a connect in flight.  (drop_profile, tunnel.rs:387:
\* a forward left behind would keep the SSH session up.)
Rides(m) ==
  /\ \A i \in Instances :
       /\ m.forwards[i] # None <=> m.owners[i] # None
       /\ m.owners[i] # None =>
            m.hosts[m.owners[i]] = m.forwards[i].connection
  /\ \A p \in Profiles : m.hosts[p] = None \/ m.pending[p] = None

ForwardRidesHost == Rides(tunnels)

Ready(i) == ForwardReused(i) \/ ForwardBuilt(i)

\* An instance is never sent to poll over a connection opened for where its
\* profile used to point, however the edit raced the connect ("invalidates the
\* connection, every forward riding on it, and any connect still in flight",
\* tunnel.rs:252).
ReadyIsCurrent ==
  [][\A i \in Instances :
       Ready(i) /\ tunnels'.owners[i] = instance[i].profile =>
         target[tunnels'.forwards[i].connection]
           = signature[instance[i].profile]]_vars

\* "An instance is never stuck reporting 'not polled yet' forever"
\* (tunnel.rs:32): once the settings stop changing, no enabled instance stays
\* pending for ever, even if the connect thread ends without a word.
NotPendingForever ==
  <>[][config' = config]_config =>
    \A i \in Instances : []<>(i \notin enabled \/ result[i] # "pending")

\* What endpoint_for is documented to resolve (tunnel.rs:228, "where this
\* instance should be polled"): the address and the profile the instance has
\* now.  Forwards are keyed by the instance id alone, so the code breaks it.
ReadyReachesInstance ==
  [][\A i \in Instances :
       Ready(i) =>
         /\ tunnels'.owners[i] = instance[i].profile
         /\ tunnels'.forwards[i].address = instance[i].address]_vars

\* When the local port cannot be bound "the connection is kept and this is
\* retried next tick" (tunnel.rs:335).  The next retain finds no owner for the
\* connection and drops it.
ForwardFailureKeepsConnection ==
  [][\A i \in enabled :
       visit = {} /\ visit' = enabled /\ result[i] = "unbound" =>
         tunnels'.hosts = tunnels.hosts]_vars

Idle(p) ==
  /\ tunnels.hosts[p] # None \/ tunnels.pending[p] # None
  /\ \A i \in enabled : instance[i].profile # p
  /\ \A i \in Instances : tunnels.owners[i] # p

\* retain releases "any connection left with nothing to carry" (tunnel.rs:405):
\* here, also one that completes after the last instance on it went away.
IdleConnectionsReleased == \A p \in Profiles : Idle(p) ~> ~Idle(p)

-----------------------------------------------------------------------------
\* For TLC: nothing tells the values of a set apart.
Symmetry == Permutations(Connections) \cup Permutations(Instances)
            \cup Permutations(Profiles) \cup Permutations(Signatures)
            \cup Permutations(Addresses)
=============================================================================
