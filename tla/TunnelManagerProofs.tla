------------------------ MODULE TunnelManagerProofs ------------------------
(***************************************************************************)
(* Every forward rides on the connection its owner has, for any number of  *)
(* instances, profiles and connections.                                    *)
(*                                                                         *)
(* `Rides` is inductive together with the shape of the manager.  It is     *)
(* proved of each operator on the manager first, for any manager: the      *)
(* actions only compose them.                                              *)
(***************************************************************************)
EXTENDS TunnelManager, TLAPS

Coherent(m) == m \in Manager /\ Rides(m)

-----------------------------------------------------------------------------
(* The operators on the manager.                                           *)

\* Releasing forwards with their owners leaves the others on their connection.
LEMMA DropForwardsCoherent ==
  ASSUME NEW m, Coherent(m), NEW S
  PROVE  Coherent(DropForwards(m, S))
<1> DEFINE n == DropForwards(m, S)
<1>1. n \in Manager
  BY DEF Coherent, Manager, DropForwards
<1>2. /\ n.hosts = m.hosts /\ n.pending = m.pending
      /\ \A i \in Instances :
           /\ n.forwards[i] = IF i \in S THEN None ELSE m.forwards[i]
           /\ n.owners[i] = IF i \in S THEN None ELSE m.owners[i]
  BY DEF Coherent, Manager, DropForwards
<1> QED
  BY <1>1, <1>2 DEF Coherent, Rides

\* drop_profile: nothing rides on the profile once its forwards are gone.
LEMMA DropProfileCoherent ==
  ASSUME NEW m, Coherent(m), NEW p \in Profiles
  PROVE  Coherent(DropProfile(m, p))
<1> DEFINE n == DropProfile(m, p)
           k == DropForwards(m, {i \in Instances : m.owners[i] = p})
<1>1. Coherent(k)
  BY DropForwardsCoherent
<1>2. \A i \in Instances : k.owners[i] # p
  BY TunnelAssumption DEF Coherent, Manager, DropForwards
<1>3. n \in Manager
  BY <1>1 DEF Coherent, Manager, DropProfile
<1>4. /\ n.forwards = k.forwards /\ n.owners = k.owners
      /\ \A q \in Profiles :
           /\ n.hosts[q] = IF q = p THEN None ELSE k.hosts[q]
           /\ n.pending[q] = IF q = p THEN None ELSE k.pending[q]
  BY <1>1 DEF Coherent, Manager, DropProfile
<1>5. \A i \in Instances : n.owners[i] # None =>
                             n.owners[i] \in Profiles /\ n.owners[i] # p
  BY <1>2, <1>3, <1>4 DEF Manager
<1> QED
  BY <1>1, <1>3, <1>4, <1>5 DEF Coherent, Rides

LEMMA RecordFailureCoherent ==
  ASSUME NEW m, Coherent(m), NEW p \in Profiles
  PROVE  Coherent(RecordFailure(m, p))
<1> DEFINE n == RecordFailure(m, p)
<1>1. n \in Manager
  BY DEF Coherent, Manager, RecordFailure
<1>2. /\ n.forwards = m.forwards /\ n.owners = m.owners /\ n.hosts = m.hosts
      /\ \A q \in Profiles :
           n.pending[q] = IF q = p THEN None ELSE m.pending[q]
  BY DEF Coherent, Manager, RecordFailure
<1> QED
  BY <1>1, <1>2 DEF Coherent, Rides

\* drain_pending: a profile with a connect in flight has no connection, so
\* the one that arrives replaces none a forward could ride on.
LEMMA DrainPendingCoherent ==
  ASSUME NEW m, Coherent(m), NEW p \in Profiles
  PROVE  Coherent(DrainPending(m, p))
<1> DEFINE c == m.pending[p]
           n == [m EXCEPT !.hosts[p] = c, !.pending[p] = None,
                          !.overdue = @ \ {p}, !.waiting = @ \ {p}]
<1>1. CASE c = None
  BY <1>1 DEF DrainPending
<1>2. ASSUME c # None PROVE Coherent(n)
  <2>1. n \in Manager
    BY <1>2 DEF Coherent, Manager
  <2>2. /\ n.forwards = m.forwards /\ n.owners = m.owners
        /\ \A q \in Profiles :
             /\ n.hosts[q] = IF q = p THEN c ELSE m.hosts[q]
             /\ n.pending[q] = IF q = p THEN None ELSE m.pending[q]
    BY DEF Coherent, Manager
  <2>3. m.hosts[p] = None
    BY <1>2 DEF Coherent, Rides
  <2>4. ASSUME NEW i \in Instances, m.owners[i] # None
        PROVE  m.owners[i] \in Profiles \ {p}
    <3>1. m.forwards[i] \in Forward /\ m.owners[i] \in Profiles
      BY <2>4 DEF Coherent, Manager, Rides
    <3>2. m.forwards[i].connection \in Connections
      BY <3>1 DEF Forward
    <3> QED
      BY <2>3, <2>4, <3>1, <3>2, TunnelAssumption DEF Coherent, Rides
  <2> QED
    BY <2>1, <2>2, <2>4 DEF Coherent, Rides
<1>3. CASE c # None /\ slot[c] = "ok"
  BY <1>2, <1>3 DEF DrainPending
<1>4. CASE c # None /\ slot[c] = "error"
  BY <1>4, RecordFailureCoherent DEF DrainPending
<1>5. CASE c # None /\ slot[c] # "ok" /\ slot[c] # "error"
  BY <1>5, RecordFailureCoherent DEF DrainPending
<1> QED
  BY <1>1, <1>3, <1>4, <1>5

LEMMA SettledCoherent ==
  ASSUME Coherent(tunnels), NEW i \in Instances,
         instance[i].profile \in Profiles
  PROVE  Coherent(Settled(i))
<1> DEFINE p  == instance[i].profile
           m1 == IF SignatureChanged(tunnels, p) THEN DropProfile(tunnels, p)
                 ELSE tunnels
           m2 == IF HopFailed(m1, i) THEN DropProfile(m1, p) ELSE m1
<1>1. Coherent(m1)
  BY DropProfileCoherent
<1>2. Coherent(m2)
  BY <1>1, DropProfileCoherent
<1> HIDE DEF m2
<1>3. Coherent(DrainPending(m2, p))
  BY <1>2, DrainPendingCoherent
<1> QED
  BY <1>3 DEF Settled, m2

-----------------------------------------------------------------------------
(* The steps.                                                              *)

IInv == TypeOK /\ Coherent(tunnels)

LEMMA CloseType ==
  ASSUME NEW m, NEW slots,
         slots \in [Connections -> {"closed", "connecting", "ok", "error", "lost"}]
  PROVE  Close(m, slots)
           \in [Connections -> {"closed", "connecting", "ok", "error", "lost"}]
BY DEF Close

\* retain: a connection it drops is one no owner names.
LEMMA RetainStep ==
  ASSUME IInv, Retain
  PROVE  IInv'
<1> DEFINE m    == DropForwards(tunnels, Instances \ enabled)
           idle == {p \in Profiles : /\ m.hosts[p] # None
                                     /\ \A i \in Instances : m.owners[i] # p}
<1> USE DEF IInv
<1>1. Coherent(m)
  BY DropForwardsCoherent
<1>2. tunnels' = [m EXCEPT
         !.hosts   = [p \in Profiles |-> IF p \in idle THEN None ELSE @[p]],
         !.pending = [p \in Profiles |-> IF p \in idle THEN None ELSE @[p]],
         !.overdue = @ \ idle]
  BY DEF Retain
<1> HIDE DEF m
<1>3. tunnels' \in Manager
  BY <1>1, <1>2 DEF Coherent, Manager
<1>4. /\ tunnels'.forwards = m.forwards /\ tunnels'.owners = m.owners
      /\ \A p \in Profiles :
           /\ tunnels'.hosts[p] = IF p \in idle THEN None ELSE m.hosts[p]
           /\ tunnels'.pending[p] = IF p \in idle THEN None ELSE m.pending[p]
  BY <1>1, <1>2 DEF Coherent, Manager
<1>5. \A i \in Instances : m.owners[i] # None =>
                             m.owners[i] \in Profiles \ idle
  BY <1>1 DEF Coherent, Manager
<1>6. Rides(tunnels')
  BY <1>1, <1>4, <1>5 DEF Coherent, Rides
<1>7. slot' \in [Connections -> {"closed", "connecting", "ok", "error", "lost"}]
  BY CloseType DEF TypeOK, Retain
<1> QED
  BY <1>3, <1>6, <1>7 DEF TypeOK, Retain, config, Coherent

\* Every answer but the two that touch no connection leaves a coherent manager.
LEMMA EndpointSettledStep ==
  ASSUME IInv, NEW i \in Instances, NEW m, Coherent(m),
         NEW answer \in {"ready", "pending", "failed", "unbound"},
         EndpointSettled(i, answer, m)
  PROVE  IInv'
<1>1. slot' \in [Connections -> {"closed", "connecting", "ok", "error", "lost"}]
  BY CloseType DEF IInv, TypeOK, EndpointSettled
<1> QED
  BY <1>1 DEF IInv, TypeOK, EndpointSettled, Answer, config, Coherent

LEMMA EndpointStep ==
  ASSUME IInv, NEW i \in Instances, EndpointFor(i)
  PROVE  IInv'
<1> DEFINE m == Settled(i)
           p == instance[i].profile
<1>1. p \in Profiles /\ instance[i].address \in Addresses
  BY DEF IInv, TypeOK, Instance
<1>2. Coherent(m)
  BY <1>1, SettledCoherent DEF IInv
<1>3. CASE EndpointRefused(i)
  BY <1>3 DEF IInv, TypeOK, EndpointRefused, Answer, config, Coherent
<1>4. CASE ForwardReused(i)
  BY <1>2, <1>4, EndpointSettledStep DEF ForwardReused
<1>5. CASE ForwardBuilt(i)
  <2> DEFINE f == [connection |-> m.hosts[p], address |-> instance[i].address,
                   alive |-> TRUE, hopFailed |-> FALSE]
             n == [m EXCEPT !.forwards[i] = f, !.owners[i] = p]
  <2> HIDE DEF m
  <2>1. EndpointSettled(i, "ready", n) /\ m.hosts[p] # None
    BY <1>5 DEF ForwardBuilt, m
  <2>2. f \in Forward
    BY <1>1, <1>2, <2>1 DEF Coherent, Manager, Forward
  <2>3. f # None /\ p # None
    BY <1>1, <2>2, TunnelAssumption
  <2> HIDE DEF p
  <2>4. n \in Manager
    <3> HIDE DEF f
    <3> QED  BY <1>1, <1>2, <2>2 DEF Coherent, Manager
  <2>5. /\ n.hosts = m.hosts /\ n.pending = m.pending
        /\ \A j \in Instances :
             /\ n.forwards[j] = IF j = i THEN f ELSE m.forwards[j]
             /\ n.owners[j] = IF j = i THEN p ELSE m.owners[j]
    BY <1>2 DEF Coherent, Manager
  <2>6. f.connection = m.hosts[p]
    OBVIOUS
  <2> HIDE DEF f, n
  <2>7. Coherent(n)
    BY <1>2, <2>3, <2>4, <2>5, <2>6 DEF Coherent, Rides
  <2> QED
    BY <2>1, <2>7, EndpointSettledStep
<1>6. CASE ForwardUnbound(i)
  BY <1>2, <1>6, DropForwardsCoherent, EndpointSettledStep DEF ForwardUnbound
<1>7. CASE ConnectPending(i)
  BY <1>2, <1>7, EndpointSettledStep DEF ConnectPending
<1>8. CASE BackingOff(i)
  BY <1>2, <1>8, EndpointSettledStep DEF BackingOff
<1>9. ASSUME NEW c \in Connections, BeginConnect(i, c) PROVE IInv'
  <2> DEFINE n == [m EXCEPT !.pending[p] = c]
  <2> HIDE DEF m
  <2>1. tunnels' = n /\ m.hosts[p] = None
    BY <1>9 DEF BeginConnect, m
  <2>2. n \in Manager
    BY <1>1, <1>2 DEF Coherent, Manager
  <2>3. /\ n.hosts = m.hosts /\ n.forwards = m.forwards /\ n.owners = m.owners
        /\ \A q \in Profiles :
             n.pending[q] = IF q = p THEN c ELSE m.pending[q]
    BY <1>2 DEF Coherent, Manager
  <2>4. Rides(n)
    BY <1>2, <2>1, <2>3 DEF Coherent, Rides
  <2>5. Close(m, slot)
          \in [Connections -> {"closed", "connecting", "ok", "error", "lost"}]
    BY CloseType DEF IInv, TypeOK
  <2>6. slot' \in [Connections -> {"closed", "connecting", "ok", "error", "lost"}]
    BY <1>9, <2>5 DEF BeginConnect, m
  <2>7. target' \in [Connections -> Signatures \cup {None}]
    BY <1>1, <1>9 DEF BeginConnect, IInv, TypeOK
  <2>8. /\ UNCHANGED config /\ visit' \subseteq visit
        /\ result' = [result EXCEPT ![i] = "pending"]
    BY <1>9 DEF BeginConnect, Answer
  <2> QED
    BY <2>1, <2>2, <2>4, <2>6, <2>7, <2>8 DEF IInv, TypeOK, Coherent, config
<1> QED
  BY <1>3, <1>4, <1>5, <1>6, <1>7, <1>8, <1>9 DEF EndpointFor

\* A forwarder that dies keeps its place until its instance is looked at.
LEMMA ForwarderDiesStep ==
  ASSUME IInv, NEW i \in Instances, NEW hop \in BOOLEAN, ForwarderDies(i, hop)
  PROVE  IInv'
<1> DEFINE f == [tunnels.forwards[i] EXCEPT !.alive = FALSE, !.hopFailed = hop]
<1>1. tunnels.forwards[i] \in Forward
  BY DEF IInv, TypeOK, Manager, ForwarderDies, Alive
<1>2. f \in Forward /\ f.connection = tunnels.forwards[i].connection
  BY <1>1 DEF Forward
<1>3. tunnels' = [tunnels EXCEPT !.forwards[i] = f]
  BY <1>1 DEF ForwarderDies, IInv, TypeOK, Manager, Forward
<1> HIDE DEF f
<1>4. tunnels' \in Manager
  BY <1>2, <1>3 DEF IInv, TypeOK, Manager
<1>5. /\ tunnels'.hosts = tunnels.hosts /\ tunnels'.pending = tunnels.pending
      /\ tunnels'.owners = tunnels.owners
      /\ \A j \in Instances :
           tunnels'.forwards[j] = IF j = i THEN f ELSE tunnels.forwards[j]
  BY <1>3 DEF IInv, TypeOK, Manager
<1>6. f # None /\ tunnels.forwards[i] # None
  BY <1>1, <1>2, TunnelAssumption
<1>7. Rides(tunnels')
  BY <1>2, <1>5, <1>6 DEF IInv, Coherent, Rides
<1> QED
  BY <1>4, <1>7 DEF IInv, TypeOK, ForwarderDies, config, Coherent

\* The clocks touch neither connections nor forwards.
LEMMA ClockStep ==
  ASSUME IInv, NEW p \in Profiles, ConnectOverdue(p) \/ BackoffPasses(p)
  PROVE  IInv'
<1>1. tunnels' \in Manager
  BY DEF IInv, TypeOK, Manager, ConnectOverdue, BackoffPasses
<1>2. /\ tunnels'.hosts = tunnels.hosts /\ tunnels'.pending = tunnels.pending
      /\ tunnels'.owners = tunnels.owners
      /\ tunnels'.forwards = tunnels.forwards
  BY DEF IInv, TypeOK, Manager, ConnectOverdue, BackoffPasses
<1>3. Rides(tunnels')
  BY <1>2 DEF IInv, Coherent, Rides
<1> QED
  BY <1>1, <1>3 DEF IInv, TypeOK, ConnectOverdue, BackoffPasses, config, Coherent

LEMMA Inductive == IInv /\ [Next]_vars => IInv'
<1> SUFFICES ASSUME IInv, [Next]_vars PROVE IInv'
  OBVIOUS
<1>1. CASE Retain
  BY <1>1, RetainStep
<1>2. ASSUME NEW i \in Instances, Skip(i) PROVE IInv'
  BY <1>2 DEF Skip, IInv, TypeOK, config, Coherent
<1>3. ASSUME NEW i \in Instances, EndpointFor(i) PROVE IInv'
  BY <1>3, EndpointStep
<1>4. ASSUME NEW c \in Connections, NEW o \in {"ok", "error", "lost"},
             ConnectDone(c, o)
      PROVE  IInv'
  <2>1. slot' \in [Connections -> {"closed", "connecting", "ok", "error", "lost"}]
    BY <1>4, CloseType DEF ConnectDone, IInv, TypeOK
  <2> QED
    BY <1>4, <2>1 DEF ConnectDone, IInv, TypeOK, config, Coherent
<1>5. ASSUME NEW i \in Instances, NEW hop \in BOOLEAN, ForwarderDies(i, hop)
      PROVE  IInv'
  BY <1>5, ForwarderDiesStep
<1>6. ASSUME NEW p \in Profiles, ConnectOverdue(p) \/ BackoffPasses(p)
      PROVE  IInv'
  BY <1>6, ClockStep
<1>7. CASE ConfigStep
  BY <1>7 DEF ConfigStep, EditProfile, ChangeTrust, EditInstance,
              SwitchInstance, IInv, TypeOK, Coherent
<1>8. CASE UNCHANGED vars
  BY <1>8 DEF vars, config, IInv, TypeOK, Coherent
<1> QED
  BY <1>1, <1>2, <1>3, <1>4, <1>5, <1>6, <1>7, <1>8 DEF Next, Coordinator

\* The manager's maps, the slots and the answers keep their shape; in
\* particular no forward is ever built without a connection.
THEOREM TypeCorrect == Spec => []TypeOK
<1>1. Init => IInv
  BY DEF Init, IInv, TypeOK, Coherent, Rides, Manager
<1>2. IInv => TypeOK
  BY DEF IInv
<1> QED
  BY <1>1, <1>2, Inductive, PTL DEF Spec

\* Whatever is edited, connects late or dies, a forward rides on the connection
\* its owner has now, and no profile has a connection and a connect in flight.
THEOREM ForwardsRideTheirHost == Spec => []ForwardRidesHost
<1>1. Init => IInv
  BY DEF Init, IInv, TypeOK, Coherent, Rides, Manager
<1>2. IInv => ForwardRidesHost
  BY DEF IInv, Coherent, ForwardRidesHost
<1> QED
  BY <1>1, <1>2, Inductive, PTL DEF Spec
-----------------------------------------------------------------------------
(* Where an instance is sent.                                              *)

\* What the manager has for a profile was opened for where it points now.
Current(m, p) ==
  \A c \in {m.hosts[p], m.pending[p]} \ {None} : target[c] = signature[p]

LEMMA DropForgets ==
  ASSUME NEW m, m \in Manager, NEW p \in Profiles
  PROVE  DropProfile(m, p).hosts[p] = None /\ DropProfile(m, p).pending[p] = None
  BY DEF Manager, DropProfile, DropForwards

\* endpoint_for drops what has moved before it folds in what arrived.
LEMMA SettledIsCurrent ==
  ASSUME Coherent(tunnels), NEW i \in Instances, instance[i].profile \in Profiles,
         Settled(i).hosts[instance[i].profile] # None
  PROVE  target[Settled(i).hosts[instance[i].profile]] = signature[instance[i].profile]
<1> DEFINE p  == instance[i].profile
           m1 == IF SignatureChanged(tunnels, p) THEN DropProfile(tunnels, p)
                 ELSE tunnels
           m2 == IF HopFailed(m1, i) THEN DropProfile(m1, p) ELSE m1
<1>1. Coherent(m1) /\ Current(m1, p)
  <2>1. CASE SignatureChanged(tunnels, p)
    BY <2>1, DropForgets, DropProfileCoherent DEF Current, Coherent
  <2>2. CASE ~SignatureChanged(tunnels, p)
    BY <2>2 DEF Current, SignatureChanged
  <2> QED
    BY <2>1, <2>2
<1> HIDE DEF m1
<1>2. Coherent(m2) /\ Current(m2, p)
  <2>1. CASE HopFailed(m1, i)
    BY <1>1, <2>1, DropForgets, DropProfileCoherent DEF Current, Coherent
  <2>2. CASE ~HopFailed(m1, i)
    BY <1>1, <2>2
  <2> QED
    BY <2>1, <2>2
<1> HIDE DEF m2
<1>3. Settled(i) = DrainPending(m2, p)
  BY DEF Settled, m1, m2
<1>4. DrainPending(m2, p).hosts[p] \in {m2.hosts[p], m2.pending[p]}
  BY <1>2 DEF DrainPending, RecordFailure, Coherent, Manager
<1> QED
  BY <1>2, <1>3, <1>4 DEF Current

LEMMA ReadyReaches ==
  ASSUME IInv, NEW i \in Instances, Ready(i),
         tunnels'.owners[i] = instance[i].profile
  PROVE  target[tunnels'.forwards[i].connection] = signature[instance[i].profile]
<1> DEFINE p == instance[i].profile
           m == Settled(i)
<1>1. p \in Profiles /\ Coherent(tunnels)
  BY DEF IInv, TypeOK, Instance
<1>2. Coherent(m)
  BY <1>1, SettledCoherent
<1>3. m.hosts[p] # None /\ target[m.hosts[p]] = signature[p]
  BY <1>1, SettledIsCurrent DEF Ready, ForwardReused, ForwardBuilt
<1> HIDE DEF m
<1>4. tunnels'.forwards[i].connection = m.hosts[p]
  <2>1. CASE ForwardReused(i)
    <3>1. tunnels' = m
      BY <2>1 DEF ForwardReused, EndpointSettled, m
    <3> QED
      BY <1>1, <1>2, <3>1, TunnelAssumption DEF Coherent, Rides
  <2>2. CASE ForwardBuilt(i)
    <3> DEFINE n == [m EXCEPT !.forwards[i] = [connection |-> m.hosts[p],
                                               address |-> instance[i].address,
                                               alive |-> TRUE, hopFailed |-> FALSE],
                              !.owners[i] = p]
    <3>1. tunnels' = n
      BY <2>2 DEF ForwardBuilt, EndpointSettled, m
    <3>2. n.forwards[i].connection = m.hosts[p]
      BY <1>2 DEF Coherent, Manager
    <3> QED
      BY <3>1, <3>2
  <2> QED
    BY <2>1, <2>2 DEF Ready
<1> QED
  BY <1>3, <1>4

\* No instance polls over a connection that was opened for where its profile
\* pointed before, however an edit raced the connect (tunnel.rs:252).
THEOREM NeverSentAstray == Spec => ReadyIsCurrent
<1>1. Init => IInv
  BY DEF Init, IInv, TypeOK, Coherent, Rides, Manager
<1>2. IInv => [\A i \in Instances :
                 Ready(i) /\ tunnels'.owners[i] = instance[i].profile =>
                   target[tunnels'.forwards[i].connection]
                     = signature[instance[i].profile]]_vars
  BY ReadyReaches
<1> QED
  BY <1>1, <1>2, Inductive, PTL DEF Spec, ReadyIsCurrent
=============================================================================
