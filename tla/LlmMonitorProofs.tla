-------------------------- MODULE LlmMonitorProofs --------------------------
(***************************************************************************)
(* Proofs about the LLM coordinator, for any instances, settings and       *)
(* number of probe threads: the state keeps its type, and no instance is   *)
(* silenced by counters that nothing brings home.                          *)
(***************************************************************************)
EXTENDS LlmMonitor, WellFoundedInduction, TLAPS

\* What an outcome is folded into is a type of its own: the newest exists.
LEMMA Greatest ==
  ASSUME NEW n \in Nat, NEW T, T \subseteq 1 .. n, T # {}
  PROVE  \E k \in T : \A other \in T : other <= k
<1> DEFINE R == OpToRel(<, Nat)
           D == {n - k : k \in T}
<1>1. \A k \in T : k \in Nat /\ k <= n /\ n - k \in Nat
  OBVIOUS
<1>2. D \subseteq Nat /\ D # {}
  BY <1>1
<1>3. PICK d \in D : \A e \in D : ~(<<e, d>> \in R)
  <2> HIDE DEF R
  <2>1. IsWellFoundedOn(R, Nat)
    BY NatLessThanWellFounded DEF R
  <2> HIDE DEF D
  <2> QED
    BY <1>2, <2>1, WFMin
<1>4. \A e \in D : ~(e < d)
  BY <1>2, <1>3 DEF OpToRel
<1>5. PICK k \in T : d = n - k
  OBVIOUS
<1>6. ASSUME NEW other \in T PROVE other <= k
  <2>1. ~(n - other < n - k)
    BY <1>4, <1>5
  <2>2. other \in Nat /\ k \in Nat
    BY <1>1
  <2> HIDE DEF R, D
  <2> QED
    BY <2>1, <2>2
<1> QED
  BY <1>5, <1>6

LEMMA NewestIsOne ==
  ASSUME TypeOK, NEW i \in Instances, Outcomes(i) # {}
  PROVE  finished[Newest(i)] \in Probe
<1>1. Len(finished) \in Nat /\ Outcomes(i) \subseteq 1 .. Len(finished)
  BY DEF TypeOK, Outcomes
<1>2. Newest(i) \in Outcomes(i)
  BY <1>1, Greatest DEF Newest
<1> QED
  BY <1>1, <1>2 DEF TypeOK

LEMMA StatesAreStates ==
  ASSUME TypeOK, NEW i \in Instances
  PROVE  /\ StateOf(i) \in InstanceState
         /\ Folded(i) \in InstanceState \cup {None}
         /\ Outcomes(i) # {} => Folded(i).counters
<1>1. StateOf(i) \in InstanceState
  BY DEF TypeOK, StateOf, Default, InstanceState
<1>2. CASE Outcomes(i) = {}
  BY <1>1, <1>2 DEF Folded, TypeOK
<1>3. CASE Outcomes(i) # {}
  <2>1. finished[Newest(i)].settings \in Timeouts
    BY <1>3, NewestIsOne DEF Probe
  <2> QED
    BY <1>1, <1>3, <2>1 DEF Folded, Applied, InstanceState
<1> QED
  BY <1>1, <1>2, <1>3

-----------------------------------------------------------------------------
\* A state that lost its counters without a start time.
Silent(s) == s # None /\ ~s.counters /\ ~s.started

IInv == TypeOK /\ NotSilenced

\* One of the states is replaced and the queue keeps what it had.
LEMMA Replaced ==
  ASSUME IInv, NEW i \in Instances, NEW s \in InstanceState,
         states' = [states EXCEPT ![i] = s],
         \/ finished' = finished
         \/ \E probe \in Probe : finished' = Append(finished, probe),
         Silent(s) => Outcomes(i)' # {}
  PROVE  /\ states' \in [Instances -> InstanceState \cup {None}]
         /\ finished' \in Seq(Probe)
         /\ NotSilenced'
<1>1. states' \in [Instances -> InstanceState \cup {None}] /\ finished' \in Seq(Probe)
  BY DEF IInv, TypeOK
<1>2. ASSUME NEW j \in Instances PROVE Outcomes(j) \subseteq Outcomes(j)'
  BY DEF IInv, TypeOK, Outcomes
<1>3. ASSUME NEW j \in Instances, Silent(states[j])' PROVE Outcomes(j)' # {}
  <2>1. CASE j = i
    BY <1>3, <2>1 DEF IInv, TypeOK
  <2>2. CASE j # i
    BY <1>2, <1>3, <2>2 DEF IInv, TypeOK, NotSilenced, Silent
  <2> QED
    BY <2>1, <2>2
<1> QED
  BY <1>1, <1>3 DEF NotSilenced, Silent

LEMMA InitHolds == Init => IInv
<1> SUFFICES ASSUME Init PROVE IInv
  OBVIOUS
<1>1. tick \in Tick
  BY DEF Init, Tick
<1>2. finished \in Seq(Probe) /\ threads \in [Threads -> Probe \cup {None}]
  BY DEF Init
<1>3. states \in [Instances -> InstanceState \cup {None}] /\ NotSilenced
  BY DEF Init, NotSilenced
<1> QED
  BY <1>1, <1>2, <1>3 DEF Init, IInv, TypeOK

LEMMA FoldKeeps == IInv /\ Fold => IInv'
<1> SUFFICES ASSUME IInv, Fold PROVE IInv'
  OBVIOUS
<1>1. TypeOK'
  <2>1. states' \in [Instances -> InstanceState \cup {None}]
    BY StatesAreStates DEF IInv, Fold
  <2>2. tick' \in Tick
    BY DEF IInv, TypeOK, Fold, Tick
  <2> QED
    BY <2>1, <2>2 DEF IInv, TypeOK, Fold, list
<1>2. ASSUME NEW i \in Instances PROVE ~Silent(states[i])'
  <2>1. CASE i \notin on
    BY <2>1 DEF Fold, Silent
  <2>2. CASE i \in on /\ Outcomes(i) # {}
    BY <2>2, StatesAreStates DEF IInv, Fold, Silent
  <2>3. CASE i \in on /\ Outcomes(i) = {}
    BY <2>3 DEF IInv, NotSilenced, Fold, Folded, Silent
  <2> QED
    BY <2>1, <2>2, <2>3
<1> QED
  BY <1>1, <1>2 DEF IInv, NotSilenced, Silent

LEMMA PollKeeps ==
  ASSUME IInv, NEW i \in Instances,
         Skip(i) \/ PollPending(i) \/ Asked(i)
  PROVE  IInv'
<1>1. StateOf(i) \in InstanceState
  BY StatesAreStates DEF IInv
<1>2. [instance |-> i, settings |-> tick.settings[i]] \in Probe
  BY DEF IInv, TypeOK, Tick, Probe
<1>3. [tick EXCEPT !.todo = @ \ {i}] \in Tick
  BY DEF IInv, TypeOK, Tick
<1>4. CASE Skip(i)
  <2>1. Silent(StateOf(i)) => Outcomes(i)' # {}
    BY <1>4 DEF Skip, StateOf, Default, Silent, IInv, NotSilenced, Outcomes
  <2>2. states' \in [Instances -> InstanceState \cup {None}] /\ NotSilenced'
    BY <1>1, <1>4, <2>1, Replaced DEF Skip, Looked
  <2> QED
    BY <1>3, <1>4, <2>2 DEF Skip, Looked, IInv, TypeOK, list
<1>5. CASE PollPending(i)
  <2> DEFINE s == [StateOf(i) EXCEPT !.counters = TRUE, !.started = FALSE,
                                     !.late = 0, !.due = FALSE]
  <2>1. s \in InstanceState /\ ~Silent(s)
    BY <1>1 DEF InstanceState, Silent
  <2>2. states' = [states EXCEPT ![i] = s] /\ finished' = finished
    BY <1>5 DEF PollPending, Looked
  <2> HIDE DEF s
  <2>3. states' \in [Instances -> InstanceState \cup {None}] /\ NotSilenced'
    BY <2>1, <2>2, Replaced
  <2> QED
    BY <1>3, <1>5, <2>2, <2>3 DEF PollPending, Looked, IInv, TypeOK, list
<1>6. ASSUME NEW t \in Threads, PollReady(i, t) PROVE IInv'
  <2> DEFINE s == [StateOf(i) EXCEPT !.counters = FALSE, !.started = TRUE,
                                     !.late = 0, !.due = FALSE]
  <2>1. s \in InstanceState /\ ~Silent(s)
    BY <1>1 DEF InstanceState, Silent
  <2>2. states' = [states EXCEPT ![i] = s] /\ finished' = finished
    BY <1>6 DEF PollReady, Looked
  <2> HIDE DEF s
  <2>3. states' \in [Instances -> InstanceState \cup {None}] /\ NotSilenced'
    BY <2>1, <2>2, Replaced
  <2> QED
    BY <1>2, <1>3, <1>6, <2>2, <2>3 DEF PollReady, Looked, IInv, TypeOK, list
<1>7. CASE PollFailed(i)
  <2> DEFINE s == [StateOf(i) EXCEPT !.counters = FALSE, !.started = FALSE,
                                     !.late = 0, !.due = FALSE]
             probe == [instance |-> i, settings |-> tick.settings[i]]
  <2>1. s \in InstanceState
    BY <1>1 DEF InstanceState
  <2>2. states' = [states EXCEPT ![i] = s] /\ finished' = Append(finished, probe)
    BY <1>7 DEF PollFailed, Looked
  <2>3. Outcomes(i)' # {}
    BY <1>2, <2>2 DEF Outcomes, IInv, TypeOK, Probe
  <2> HIDE DEF s
  <2>4. /\ states' \in [Instances -> InstanceState \cup {None}]
        /\ finished' \in Seq(Probe) /\ NotSilenced'
    BY <1>2, <2>1, <2>2, <2>3, Replaced
  <2> QED
    BY <1>3, <1>7, <2>4 DEF PollFailed, Looked, IInv, TypeOK, list
<1> QED
  BY <1>4, <1>5, <1>6, <1>7 DEF Asked

LEMMA EnvironmentKeeps == IInv /\ Environment => IInv'
<1> SUFFICES ASSUME IInv, Environment PROVE IInv'
  OBVIOUS
<1>1. ASSUME NEW t \in Threads, ProbeEnds(t) PROVE IInv'
  <2>1. threads[t] \in Probe
    BY <1>1 DEF ProbeEnds, IInv, TypeOK
  <2>2. finished' \in Seq(Probe)
    BY <1>1, <2>1 DEF ProbeEnds, IInv, TypeOK
  <2>3. ASSUME NEW i \in Instances PROVE Outcomes(i) \subseteq Outcomes(i)'
    BY <1>1, <2>1 DEF ProbeEnds, Outcomes, IInv, TypeOK
  <2>4. NotSilenced'
    BY <1>1, <2>3 DEF ProbeEnds, IInv, NotSilenced
  <2> QED
    BY <1>1, <2>2, <2>4 DEF ProbeEnds, IInv, TypeOK, list
<1>2. ASSUME NEW t \in Threads, ProbeLost(t) PROVE IInv'
  BY <1>2 DEF ProbeLost, IInv, TypeOK, NotSilenced, Outcomes, list
<1>3. ASSUME NEW i \in Instances, Due(i) PROVE IInv'
  <2> DEFINE s == [states[i] EXCEPT !.due = TRUE]
  <2>1. s \in InstanceState /\ (Silent(s) => Silent(states[i]))
    BY <1>3 DEF Due, IInv, TypeOK, InstanceState, Silent
  <2>2. states' = [states EXCEPT ![i] = s] /\ finished' = finished
    BY <1>3 DEF Due, IInv, TypeOK
  <2>3. Silent(s) => Outcomes(i)' # {}
    BY <1>3, <2>1 DEF Due, IInv, NotSilenced, Outcomes, Silent
  <2> HIDE DEF s
  <2>4. states' \in [Instances -> InstanceState \cup {None}] /\ NotSilenced'
    BY <2>1, <2>2, <2>3, Replaced
  <2> QED
    BY <1>3, <2>4 DEF Due, IInv, TypeOK, list
<1>4. ASSUME NEW i \in Instances, NEW n \in Timeouts, Late(i, n) PROVE IInv'
  <2> DEFINE s == [states[i] EXCEPT !.late = n]
  <2>1. s \in InstanceState /\ ~Silent(s)
    BY <1>4 DEF Late, IInv, TypeOK, InstanceState, Silent
  <2>2. states' = [states EXCEPT ![i] = s] /\ finished' = finished
    BY <1>4 DEF Late, IInv, TypeOK
  <2> HIDE DEF s
  <2>3. states' \in [Instances -> InstanceState \cup {None}] /\ NotSilenced'
    BY <2>1, <2>2, Replaced
  <2> QED
    BY <1>4, <2>3 DEF Late, IInv, TypeOK, list
<1>5. CASE RequestRefresh \/ RefreshNow
  BY <1>5 DEF RequestRefresh, RefreshNow, IInv, TypeOK, NotSilenced, Outcomes, list
<1> QED
  BY <1>1, <1>2, <1>3, <1>4, <1>5 DEF Environment

LEMMA StepKeeps == IInv /\ [Next]_vars => IInv'
<1> SUFFICES ASSUME IInv, [Next]_vars PROVE IInv'
  OBVIOUS
<1>1. CASE UNCHANGED vars
  BY <1>1 DEF vars, list, IInv, TypeOK, NotSilenced, Outcomes
<1>2. CASE TakeRefresh
  BY <1>2 DEF TakeRefresh, IInv, TypeOK, NotSilenced, Outcomes, Tick, list
<1>3. CASE Sleep
  BY <1>3 DEF Sleep, IInv, TypeOK, NotSilenced, Outcomes, Tick, list
<1>4. ASSUME NEW i \in Instances, NEW n \in Timeouts, NEW enabled \in BOOLEAN,
             SaveInstance(i, n, enabled)
      PROVE  IInv'
  BY <1>4 DEF SaveInstance, Persist, IInv, TypeOK, NotSilenced, Outcomes
<1>5. ASSUME NEW i \in Instances, DeleteInstance(i) \/ SetEnabled(i) PROVE IInv'
  BY <1>5 DEF DeleteInstance, SetEnabled, Persist, IInv, TypeOK, NotSilenced, Outcomes
<1> QED
  BY <1>1, <1>2, <1>3, <1>4, <1>5, FoldKeeps, PollKeeps, EnvironmentKeeps
  DEF Next, Coordinator, ListStep

-----------------------------------------------------------------------------
\* The invariant the properties rest on (IInv) holds, whatever is edited, lost
\* or late.
THEOREM Invariance == Spec => []IInv
  BY InitHolds, StepKeeps, PTL DEF Spec

\* The state keeps its type, whatever the commands and the probe threads do.
THEOREM TypeCorrect == Spec => []TypeOK
<1>1. IInv => TypeOK
  BY DEF IInv
<1> QED
  BY <1>1, Invariance, PTL

\* Counters that are away are with a probe that has a start time, or in the
\* queue: a lost thread, a failed tunnel or an edit of the list while a probe
\* runs never leaves an instance that is not polled again (monitor.rs:897-911).
THEOREM NobodySilenced == Spec => []NotSilenced
<1>1. IInv => NotSilenced
  BY DEF IInv
<1> QED
  BY <1>1, Invariance, PTL
=============================================================================
