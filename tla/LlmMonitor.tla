----------------------------- MODULE LlmMonitor -----------------------------
(***************************************************************************)
(* The coordinator that polls the registered LLM instances                 *)
(* (src-tauri/src/llm/monitor.rs).                                         *)
(*                                                                         *)
(* One thread ticks every 500 ms: it folds in the outcomes that finished,  *)
(* forgets instances that were deleted or switched off, takes a refresh    *)
(* request and starts a probe thread for every instance that is due.  The  *)
(* commands of llm/mod.rs edit the list behind its back, and a probe       *)
(* thread may report late or never.  The answer of the tunnel manager      *)
(* (module TunnelManager) is a choice here.                                *)
(***************************************************************************)
EXTENDS Naturals, FiniteSets, Sequences

CONSTANTS
  Instances,  \* instances that can be registered
  Timeouts,   \* settings of an instance; all the code looks at is the timeout
  Threads,    \* probe threads that can run at one time: a bound
  None

ASSUME MonitorAssumption == Timeouts \subseteq Nat \ {0}

VARIABLES
  settings,    \* MonitorContext.instances: the settings of each instance,
  registered,  \* the registered ones
  on,          \* and those switched on
  persisting,  \* a command swapped the list in, its refresh request is due
  refresh,     \* MonitorHandle.refresh_requested
  tick,        \* what the current tick of the coordinator works on
  states,      \* InstanceState of each instance it knows
  threads,     \* the probe each thread runs
  finished     \* Probes.finished, oldest first

list == <<settings, registered, on>>
vars == <<list, persisting, refresh, tick, states, threads, finished>>

Probe == [instance : Instances, settings : Timeouts]
Tick  == [at : {"fold", "refresh", "poll"}, settings : [Instances -> Timeouts],
          on : SUBSET Instances, forced : BOOLEAN, todo : SUBSET Instances]
InstanceState ==
  [counters : BOOLEAN,           \* here; taken by a probe while it runs
   started  : BOOLEAN,           \* probe_started_at is set
   late     : Timeouts \cup {0}, \* longest stall_limit exceeded since then
   due      : BOOLEAN,           \* now >= next_poll_at
   status   : Timeouts \cup {None}] \* settings the shown status was got with

Default == [counters |-> TRUE, started |-> FALSE, late |-> 0, due |-> TRUE,
            status |-> None]

TypeOK ==
  /\ settings \in [Instances -> Timeouts]
  /\ registered \subseteq Instances /\ on \subseteq registered
  /\ persisting \in BOOLEAN /\ refresh \in BOOLEAN
  /\ tick \in Tick
  /\ states \in [Instances -> InstanceState \cup {None}]
  /\ threads \in [Threads -> Probe \cup {None}]
  /\ finished \in Seq(Probe)

Init ==
  /\ settings \in [Instances -> Timeouts]
  /\ registered \in SUBSET Instances /\ on \in SUBSET registered
  /\ persisting = FALSE /\ refresh = FALSE
  /\ tick = [at |-> "fold", settings |-> settings, on |-> {},
             forced |-> FALSE, todo |-> {}]
  /\ states = [i \in Instances |-> None]
  /\ threads = [t \in Threads |-> None]
  /\ finished = <<>>

Running(i) == {t \in Threads : threads[t] # None /\ threads[t].instance = i}

-----------------------------------------------------------------------------
(* The coordinator.                                                        *)

\* apply_outcome: the counters come home and the next poll is scheduled.
Applied(s, probe) ==
  [s EXCEPT !.counters = TRUE, !.started = FALSE, !.late = 0, !.due = FALSE,
            !.status = probe.settings]

StateOf(i) == IF states[i] = None THEN Default ELSE states[i]

Outcomes(i) == {k \in DOMAIN finished : finished[k].instance = i}

Newest(i) ==
  CHOOSE k \in Outcomes(i) : \A other \in Outcomes(i) : other <= k

\* The newest outcome of an instance is what its state ends up with.
Folded(i) ==
  IF Outcomes(i) = {} THEN states[i]
  ELSE Applied(StateOf(i), finished[Newest(i)])

\* A queue that is copied instead of drained.
Fold_KeepsQueue ==
  /\ tick.at = "fold"
  /\ states' = [i \in Instances |-> IF i \in on THEN Folded(i) ELSE None]
  /\ tick' = [tick EXCEPT !.at = "refresh", !.settings = settings, !.on = on]
  /\ UNCHANGED <<list, persisting, refresh, threads, finished>>

\* States that outlive a deleted or switched-off instance.
Fold_ForgetsNothing ==
  /\ tick.at = "fold"
  /\ states' = [i \in Instances |->
                  IF i \in registered THEN Folded(i) ELSE states[i]]
  /\ finished' = <<>>
  /\ tick' = [tick EXCEPT !.at = "refresh", !.settings = settings, !.on = on]
  /\ UNCHANGED <<list, persisting, refresh, threads>>

\* A list that is copied again only when a refresh was asked for.
Fold_CopiesOnRefresh ==
  /\ tick.at = "fold"
  /\ states' = [i \in Instances |-> IF i \in on THEN Folded(i) ELSE None]
  /\ finished' = <<>>
  /\ tick' = [tick EXCEPT !.at = "refresh", !.on = on,
                          !.settings = IF refresh THEN settings ELSE @]
  /\ UNCHANGED <<list, persisting, refresh, threads>>

\* Steps 1 and 2: drain the queue, copy the list, apply what was drained to
\* instances still registered, forget those deleted or switched off.
Fold ==
  /\ tick.at = "fold"
  /\ states' = [i \in Instances |-> IF i \in on THEN Folded(i) ELSE None]
  /\ finished' = <<>>
  /\ tick' = [tick EXCEPT !.at = "refresh", !.settings = settings, !.on = on]
  /\ UNCHANGED <<list, persisting, refresh, threads>>

\* Step 3 begins with take_refresh, after the list was copied.
TakeRefresh ==
  /\ tick.at = "refresh"
  /\ refresh' = FALSE
  /\ tick' = [tick EXCEPT !.at = "poll", !.forced = refresh, !.todo = tick.on]
  /\ UNCHANGED <<list, persisting, states, threads, finished>>

Stalled(i) ==
  StateOf(i).started /\ StateOf(i).late >= tick.settings[i]

\* A coordinator that never gives up on a probe thread.
MayAsk_NoRecovery(i) == StateOf(i).counters

\* A coordinator that does not look for the counters.
MayAsk_Unguarded(i) == TRUE

\* No probe owns the counters, or the one that does never reported back.
MayAsk(i) == StateOf(i).counters \/ Stalled(i)

\* One instance of the loop of step 3 is done with.
Looked(i, s) ==
  /\ states' = [states EXCEPT ![i] = s]
  /\ tick' = [tick EXCEPT !.todo = @ \ {i}]
  /\ UNCHANGED <<list, persisting, refresh>>

Asking(i) ==
  /\ tick.at = "poll" /\ i \in tick.todo
  /\ tick.forced \/ StateOf(i).due
  /\ MayAsk(i)

\* Not due, or its probe is in flight.
Skip(i) ==
  /\ tick.at = "poll" /\ i \in tick.todo
  /\ ~(tick.forced \/ StateOf(i).due) \/ ~MayAsk(i)
  /\ Looked(i, StateOf(i))
  /\ UNCHANGED <<threads, finished>>

\* Endpoint::Ready: spawn_probe takes the counters along.
PollReady(i, t) ==
  /\ Asking(i) /\ threads[t] = None
  /\ threads' = [threads EXCEPT
                   ![t] = [instance |-> i, settings |-> tick.settings[i]]]
  /\ Looked(i, [StateOf(i) EXCEPT !.counters = FALSE, !.started = TRUE,
                                  !.late = 0, !.due = FALSE])
  /\ UNCHANGED finished

\* Endpoint::Pending: nothing happened, ask again in a second.
PollPending(i) ==
  /\ Asking(i)
  /\ Looked(i, [StateOf(i) EXCEPT !.counters = TRUE, !.started = FALSE,
                                  !.late = 0, !.due = FALSE])
  /\ UNCHANGED <<threads, finished>>

\* Endpoint::Failed: the failure takes the path of an outcome, counters and all.
PollFailed(i) ==
  /\ Asking(i)
  /\ finished' = Append(finished,
                        [instance |-> i, settings |-> tick.settings[i]])
  /\ Looked(i, [StateOf(i) EXCEPT !.counters = FALSE, !.started = FALSE,
                                  !.late = 0, !.due = FALSE])
  /\ UNCHANGED threads

Asked(i) == PollFailed(i) \/ \E t \in Threads : PollReady(i, t)

Sleep ==
  /\ tick.at = "poll" /\ tick.todo = {}
  /\ tick' = [tick EXCEPT !.at = "fold", !.forced = FALSE]
  /\ UNCHANGED <<list, persisting, refresh, states, threads, finished>>

Coordinator ==
  \/ Fold \/ TakeRefresh \/ Sleep
  \/ \E i \in Instances : Skip(i) \/ PollPending(i) \/ Asked(i)

-----------------------------------------------------------------------------
(* Probe threads and time.                                                 *)

ProbeEnds(t) ==
  /\ threads[t] # None
  /\ finished' = Append(finished, threads[t])
  /\ threads' = [threads EXCEPT ![t] = None]
  /\ UNCHANGED <<list, persisting, refresh, tick, states>>

\* A thread that never reports back.
ProbeLost(t) ==
  /\ threads[t] # None
  /\ threads' = [threads EXCEPT ![t] = None]
  /\ UNCHANGED <<list, persisting, refresh, tick, states, finished>>

\* `now` is read once, when a tick begins: time passes between two ticks.
Due(i) ==
  /\ tick.at = "fold"
  /\ states[i] # None /\ ~states[i].due
  /\ states' = [states EXCEPT ![i].due = TRUE]
  /\ UNCHANGED <<list, persisting, refresh, tick, threads, finished>>

\* The stall limit of timeout n passes.  It is four times the timeout and 30 s
\* more, and a probe makes three requests: one started with a timeout up to n
\* has ended by then.
Late(i, n) ==
  /\ tick.at = "fold"
  /\ states[i] # None /\ states[i].started /\ states[i].late < n
  /\ \A t \in Running(i) : threads[t].settings > n
  /\ states' = [states EXCEPT ![i].late = n]
  /\ UNCHANGED <<list, persisting, refresh, tick, threads, finished>>

-----------------------------------------------------------------------------
(* The commands.  persist swaps the list in, then asks for a refresh.      *)

Persist ==
  /\ ~persisting /\ persisting' = TRUE
  /\ UNCHANGED <<refresh, tick, states, threads, finished>>

SaveInstance(i, n, enabled) ==
  /\ Persist
  /\ settings' = [settings EXCEPT ![i] = n]
  /\ registered' = registered \cup {i}
  /\ on' = IF enabled THEN on \cup {i} ELSE on \ {i}

DeleteInstance(i) ==
  /\ i \in registered /\ Persist
  /\ registered' = registered \ {i} /\ on' = on \ {i}
  /\ UNCHANGED settings

SetEnabled(i) ==
  /\ i \in registered /\ Persist
  /\ on' = IF i \in on THEN on \ {i} ELSE on \cup {i}
  /\ UNCHANGED <<settings, registered>>

RequestRefresh ==
  /\ persisting /\ persisting' = FALSE
  /\ refresh' = TRUE
  /\ UNCHANGED <<list, tick, states, threads, finished>>

\* refresh_llm_telemetry.
RefreshNow ==
  /\ refresh' = TRUE
  /\ UNCHANGED <<list, persisting, tick, states, threads, finished>>

ListStep ==
  \E i \in Instances :
    \/ \E n \in Timeouts, enabled \in BOOLEAN : SaveInstance(i, n, enabled)
    \/ DeleteInstance(i) \/ SetEnabled(i)

Environment ==
  \/ \E t \in Threads : ProbeEnds(t) \/ ProbeLost(t)
  \/ \E i \in Instances : Due(i) \/ \E n \in Timeouts : Late(i, n)
  \/ RequestRefresh \/ RefreshNow

Next == Coordinator \/ Environment \/ ListStep

Spec == Init /\ [][Next]_vars

\* The same without edits: what holds as long as nobody touches the list.
SteadySpec == Init /\ [][Coordinator \/ Environment]_vars

\* The coordinator ticks, time passes and every probe ends, for its requests
\* time out, but any single one may be lost.  An instance due again and again
\* is not put off by its tunnel for ever (NotPendingForever, TunnelManager).
Fairness ==
  /\ WF_vars(Coordinator)
  /\ WF_vars(RequestRefresh)
  /\ \A t \in Threads : WF_vars(ProbeEnds(t) \/ ProbeLost(t))
  /\ \A i \in Instances :
       /\ SF_vars(Asked(i))
       /\ SF_vars(Due(i))
       /\ \A n \in Timeouts : SF_vars(Late(i, n))

\* Not every probe of an instance is lost: what SettlesOnSettings presumes.
Reporting ==
  \A i \in Instances : SF_vars(\E t \in Running(i) : ProbeEnds(t))

FairSpec == Spec /\ Fairness

-----------------------------------------------------------------------------
(* Properties.                                                             *)

\* Counters that are away without a start time are in an outcome that is
\* queued.  Otherwise nothing would bring them back: the stall check looks at
\* probe_started_at, and the instance would be silent until it is switched off
\* and on again (monitor.rs:897-911, 925-934).
NotSilenced ==
  \A i \in Instances :
    states[i] # None /\ ~states[i].counters /\ ~states[i].started =>
      Outcomes(i) # {}

\* "One is in flight and this instance must not be asked twice" (monitor.rs:900).
AskedOnce == \A i \in Instances : Cardinality(Running(i)) <= 1

\* "A thread that never reports back cannot silence an instance forever"
\* (monitor.rs:519): an instance that stays on is asked again and again.
KeepsPolling ==
  \A i \in Instances : <>[](i \in on) => []<><<Asked(i)>>_vars

\* Once the list stops changing, and if not every probe is lost, what is shown
\* of an instance comes from its present settings, although outcomes of probes that were started before an
\* edit are still applied when they arrive (monitor.rs:851-868).
SettlesOnSettings ==
  Reporting /\ <>[][list' = list]_list =>
    \A i \in Instances :
      <>[](i \in on => states[i] # None /\ states[i].status = settings[i])

\* A stall limit "cannot fire against a merely slow server" (monitor.rs:499).
\* It is computed from the settings of now, not from those the probe runs with:
\* after the timeout was shortened it fires against a probe that is still
\* within its own.
StallMeansLost ==
  [][\A i \in Instances : Asked(i) /\ ~StateOf(i).counters =>
       Running(i) = {}]_vars

\* "Asks the coordinator to poll every enabled instance on its next tick"
\* (monitor.rs:251): a request taken covers what was saved before it was made.
\* The list was copied earlier in the tick, so an edit in between is missed.
RefreshPollsEverything ==
  [][TakeRefresh /\ refresh /\ ~persisting =>
       \A i \in on : i \in tick'.todo /\ tick'.settings[i] = settings[i]]_vars
=============================================================================
