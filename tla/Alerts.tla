------------------------------- MODULE Alerts -------------------------------
(***************************************************************************)
(* The alert engine (alerts.rs): rules judge every reading, a breach has   *)
(* to last before it fires, an alert stays up until its reading is well    *)
(* below the line, and a notification is not repeated within a cooldown.   *)
(* The engine is four mutexes that an evaluation takes one after the       *)
(* other, while another evaluates, the settings change and the session     *)
(* ends.                                                                   *)
(***************************************************************************)
EXTENDS Naturals, FiniteSets

CONSTANTS
  Threads,    \* who evaluates: a monitor of the session and one that was just
              \* stopped and has a last reading; the coordinator of the LLM polls
  Rules,      \* the alert keys: a kind with its subject
  LlmRules,   \* those of LLM instances, the others are of one session
  Readings,   \* what a reading can be, as a number
  Settings,   \* records [enabled, on, line, clear, sustain, cooldown]
  MaxTime,    \* bound on the wall clock
  MaxCalls,   \* calls of set_settings, and of forget_scope, that overlap: a bound
  None

Event == [rule : Rules, state : {"fired", "resolved"}, notify : BOOLEAN]
Evaluation(times) ==
  [at : times, settings : Settings \cup {None}, left : SUBSET Rules,
   fired : SUBSET Rules, made : SUBSET Event]

AlertAssumption ==
  /\ LlmRules \subseteq Rules
  /\ Readings \subseteq Nat /\ MaxTime \in Nat /\ MaxCalls \in Nat /\ None \notin Nat
  /\ None \notin Settings /\ None \notin Evaluation(Nat)
  /\ Settings # {}
  /\ \A s \in Settings :
       /\ s.enabled \in BOOLEAN /\ s.on \subseteq Rules
       /\ s.line \in Nat /\ s.clear <= s.line
       /\ s.clear \in Nat /\ s.sustain \in Nat /\ s.cooldown \in Nat

VARIABLES
  now,      \* now_epoch_seconds
  scope,    \* whether the session is connected
  settings, phases, lastNotified, active,  \* the fields of AlertEngine
  clears,   \* calls of set_settings that have yet to clear the phases
  forgets,  \* calls of forget_scope that have yet to forget what is listed
  eval,     \* what each thread evaluates: the time it took, its copy of the
            \* settings, the rules still to apply, the one that fired and has yet
            \* to look when it last notified, and the events made
  level,    \* the severity of each LLM instance
  over,     \* since when every reading of a rule that was judged was over the line
            \* it was judged by; not in the code
  noticed   \* when a rule last notified; not in the code

vars == <<now, scope, settings, phases, lastNotified, active, clears, forgets, eval,
          level, over, noticed>>

Times == 0 .. MaxTime
Normal == [at |-> "normal", since |-> 0]
Firing == [at |-> "firing", since |-> 0]
Phase == {Normal, Firing} \cup [at : {"pending"}, since : Times]

TypeOK ==
  /\ now \in Times /\ scope \in BOOLEAN /\ settings \in Settings
  /\ phases \in [Rules -> Phase]
  /\ lastNotified \in [Rules -> Times \cup {None}]
  /\ active \subseteq Rules
  /\ clears \in 0 .. MaxCalls /\ forgets \in 0 .. MaxCalls
  /\ eval \in [Threads -> Evaluation(Times) \cup {None}]
  /\ level \in [LlmRules -> {"unknown", "fine", "critical"}]
  /\ over \in [Rules -> Times \cup {None}]
  /\ noticed \in [Rules -> Times \cup {None}]

Init ==
  /\ now = 0 /\ scope = TRUE /\ settings \in Settings
  /\ phases = [r \in Rules |-> Normal]
  /\ lastNotified = [r \in Rules |-> None]
  /\ active = {} /\ clears = 0 /\ forgets = 0
  /\ eval = [t \in Threads |-> None]
  /\ level = [r \in LlmRules |-> "unknown"]
  /\ over = [r \in Rules |-> None] /\ noticed = [r \in Rules |-> None]

-----------------------------------------------------------------------------
(* One rule, one reading: step.                                            *)

\* saturating_sub
Minus(t, u) == IF t >= u THEN t - u ELSE 0

\* A rule that forgets when its breach began.
Stepped_Restarts(phase, breach, clear, sustain, at) ==
  IF phase = Firing THEN IF clear THEN Normal ELSE Firing
  ELSE IF ~breach THEN Normal
  ELSE IF sustain = 0 \/ phase.at = "pending" THEN Firing
  ELSE [at |-> "pending", since |-> at]

\* A rule fires when its breach has lasted long enough, and stays until the
\* reading is clear of the line.
Stepped(phase, breach, clear, sustain, at) ==
  LET began == IF phase.at = "pending" THEN phase.since ELSE at
  IN IF phase = Firing THEN IF clear THEN Normal ELSE Firing
     ELSE IF ~breach THEN Normal
     ELSE IF Minus(at, began) >= sustain THEN Firing
     ELSE [at |-> "pending", since |-> began]

\* threshold_check; for an LLM instance, llm_transition: a move into critical
\* fires at once, any move out of it resolves.
Breach(r, reading, s) ==
  IF r \in LlmRules THEN level[r] = "critical" ELSE reading >= s.line
Clear(r, reading, s) ==
  IF r \in LlmRules THEN level[r] # "critical" ELSE reading < s.clear
Sustain(r, s) == IF r \in LlmRules THEN 0 ELSE s.sustain

Fires(r, next) == next = Firing /\ phases[r] # Firing
Resolves(r, next) == next = Normal /\ phases[r] = Firing

Fired(r, notify) == [rule |-> r, state |-> "fired", notify |-> notify]
Resolved(r) == [rule |-> r, state |-> "resolved", notify |-> FALSE]

-----------------------------------------------------------------------------
(* A reading, evaluated rule by rule.                                      *)

Begun(rules) ==
  [at |-> now, settings |-> None, left |-> rules, fired |-> {}, made |-> {}]

\* observe: nothing is evaluated for a session that is not connected; one that
\* ends from here on is evaluated all the same.
Observe(t) ==
  /\ eval[t] = None /\ scope
  /\ eval' = [eval EXCEPT ![t] = Begun(Rules \ LlmRules)]
  /\ UNCHANGED <<now, scope, settings, phases, lastNotified, active, clears, forgets,
                 level, over, noticed>>

\* An outcome that the coordinator folds in moves the severity of an instance: out
\* of critical, or into it from a level that was known.
Folds(t, r, to) ==
  /\ eval[t] = None /\ to # level[r] /\ level' = [level EXCEPT ![r] = to]
  /\ eval' = IF level[r] = "critical" \/ (level[r] = "fine" /\ to = "critical")
             THEN [eval EXCEPT ![t] = Begun({r})] ELSE eval
  /\ UNCHANGED <<now, scope, settings, phases, lastNotified, active, clears, forgets,
                 over, noticed>>

\* The clock is read, and then the settings are copied: evaluate_telemetry.
Copies(t, at) ==
  /\ eval[t] # None /\ eval[t].settings = None /\ at \in eval[t].at .. now
  /\ eval' = [eval EXCEPT ![t] =
       IF settings.enabled
       THEN [eval[t] EXCEPT !.at = at, !.settings = settings, !.left = @ \cap settings.on]
       ELSE None]
  /\ UNCHANGED <<now, scope, settings, phases, lastNotified, active, clears, forgets,
                 level, over, noticed>>

\* Since when the readings of r are over the line.
NowOver(r, breach, at) ==
  IF ~breach THEN None
  ELSE IF over[r] = None \/ over[r] > at THEN at ELSE over[r]

\* t is at work on its rules, and ready for the next.
Judges(t) == eval[t] # None /\ eval[t].settings # None
Ready(t) == Judges(t) /\ eval[t].fired = {}

\* A rule that is switched on has no reading: its phase stays as it is.
ReadsNothing(t, r) ==
  /\ Ready(t) /\ r \in eval[t].left \ LlmRules
  /\ eval' = [eval EXCEPT ![t].left = @ \ {r}]
  /\ UNCHANGED <<now, scope, settings, phases, lastNotified, active, clears, forgets,
                 level, over, noticed>>

\* apply: the phase, under its lock.  The rules come in a fixed order, which nothing
\* depends on.
Apply(t, r, reading) ==
  /\ Ready(t) /\ r \in eval[t].left
  /\ LET e == eval[t]
         breach == Breach(r, reading, e.settings)
         next == Stepped(phases[r], breach, Clear(r, reading, e.settings),
                         Sustain(r, e.settings), e.at)
     IN /\ phases' = [phases EXCEPT ![r] = next]
        /\ over' = [over EXCEPT ![r] = NowOver(r, breach, e.at)]
        /\ eval' = [eval EXCEPT ![t] =
             [e EXCEPT !.left = @ \ {r},
                       !.fired = IF Fires(r, next) THEN {r} ELSE {},
                       !.made = IF Resolves(r, next) THEN @ \cup {Resolved(r)} ELSE @]]
  /\ UNCHANGED <<now, scope, settings, lastNotified, active, clears, forgets, level,
                 noticed>>

\* Every rule that fires notifies.
Notice_Always(t, r) ==
  /\ Judges(t) /\ r \in eval[t].fired
  /\ lastNotified' = [lastNotified EXCEPT ![r] = eval[t].at]
  /\ noticed' = [noticed EXCEPT ![r] = eval[t].at]
  /\ eval' = [eval EXCEPT ![t] =
       [@ EXCEPT !.fired = {}, !.made = @ \cup {Fired(r, TRUE)}]]
  /\ UNCHANGED <<now, scope, settings, phases, active, clears, forgets, level, over>>

\* The rest of apply: a rule that fired notifies if it is due, under another lock.
Notice(t, r) ==
  /\ Judges(t) /\ r \in eval[t].fired
  /\ LET e == eval[t]
         due == \/ lastNotified[r] = None
                \/ Minus(e.at, lastNotified[r]) >= e.settings.cooldown
     IN /\ lastNotified' = IF due THEN [lastNotified EXCEPT ![r] = e.at]
                           ELSE lastNotified
        /\ noticed' = IF due THEN [noticed EXCEPT ![r] = e.at] ELSE noticed
        /\ eval' = [eval EXCEPT ![t] =
             [e EXCEPT !.fired = {}, !.made = @ \cup {Fired(r, due)}]]
  /\ UNCHANGED <<now, scope, settings, phases, active, clears, forgets, level, over>>

About(events, state) == {e.rule : e \in {f \in events : f.state = state}}

\* track: what is listed after the events of an evaluation, which are then delivered.
Track(t) ==
  /\ Ready(t) /\ eval[t].left = {}
  /\ active' = (active \cup About(eval[t].made, "fired"))
                \ About(eval[t].made, "resolved")
  /\ eval' = [eval EXCEPT ![t] = None]
  /\ UNCHANGED <<now, scope, settings, phases, lastNotified, clears, forgets, level,
                 over, noticed>>

-----------------------------------------------------------------------------
(* The settings, the session and the time.                                 *)

\* set_settings: new settings, under one lock.
SetSettings(s) ==
  /\ clears < MaxCalls /\ settings' = s /\ clears' = clears + 1
  /\ UNCHANGED <<now, scope, phases, lastNotified, active, forgets, eval, level, over,
                 noticed>>

\* Then, under another, every rule starts afresh; what is listed stays listed.
ClearPhases ==
  /\ clears > 0 /\ clears' = clears - 1
  /\ phases' = [r \in Rules |-> Normal]
  /\ over' = [r \in Rules |-> None]
  /\ UNCHANGED <<now, scope, settings, lastNotified, active, forgets, eval, level,
                 noticed>>

\* What the end of a session leaves of a map of rules.
Forgotten(map, none) == [r \in Rules |-> IF r \in LlmRules THEN map[r] ELSE none]

\* A session that takes the memory of its notifications with it.
ForgetPhases_Notices ==
  /\ forgets < MaxCalls /\ forgets' = forgets + 1
  /\ phases' = Forgotten(phases, Normal) /\ over' = Forgotten(over, None)
  /\ lastNotified' = Forgotten(lastNotified, None)
  /\ UNCHANGED <<now, scope, settings, active, clears, eval, level, noticed>>

\* forget_scope, when the session ends or is connected anew: the phases under one
\* lock,
ForgetPhases ==
  /\ forgets < MaxCalls /\ forgets' = forgets + 1
  /\ phases' = Forgotten(phases, Normal) /\ over' = Forgotten(over, None)
  /\ UNCHANGED <<now, scope, settings, lastNotified, active, clears, eval, level,
                 noticed>>

\* and what is listed under another.
ForgetListed ==
  /\ forgets > 0 /\ forgets' = forgets - 1
  /\ active' = active \cap LlmRules
  /\ UNCHANGED <<now, scope, settings, phases, lastNotified, clears, eval, level, over,
                 noticed>>

\* active_connections gains and loses the session.
Connection ==
  /\ scope' = ~scope
  /\ UNCHANGED <<now, settings, phases, lastNotified, active, clears, forgets, eval,
                 level, over, noticed>>

TimePasses ==
  /\ now < MaxTime /\ now' = now + 1
  /\ UNCHANGED <<scope, settings, phases, lastNotified, active, clears, forgets, eval,
                 level, over, noticed>>

-----------------------------------------------------------------------------
Evaluates(t) ==
  \/ Observe(t)
  \/ \E r \in LlmRules, to \in {"unknown", "fine", "critical"} : Folds(t, r, to)
  \/ \E at \in Times : Copies(t, at)
  \/ \E r \in Rules : ReadsNothing(t, r) \/ Notice(t, r)
  \/ \E r \in Rules, reading \in Readings : Apply(t, r, reading)
  \/ Track(t)

Next ==
  \/ \E t \in Threads : Evaluates(t)
  \/ \E s \in Settings : SetSettings(s)
  \/ ClearPhases \/ ForgetPhases \/ ForgetListed \/ Connection \/ TimePasses

Spec == Init /\ [][Next]_vars

-----------------------------------------------------------------------------
(* Properties.                                                             *)

\* "A reading must stay over its threshold for a chosen time" (README.md:98): however
\* readings fail, settings and sessions change and a stopped monitor is late, a rule
\* that fires was read over the line for the time to last that fires it.  Each
\* reading is held to the line of its own evaluation, and none counts that was judged
\* before the phases were last cleared.
SustainedStep ==
  \A r \in Rules \ LlmRules :
    phases'[r] = Firing /\ phases[r] # Firing =>
      \E t \in Threads :
        /\ eval[t] # None /\ r \in eval[t].left /\ eval'[t] # eval[t]
        /\ eval[t].at >= over'[r] + eval[t].settings.sustain
FiresOnlySustained == [][SustainedStep]_phases

\* A rule that fires again, also after its session was connected anew, notifies the
\* user at most once in a cooldown ("re-fires within the cooldown").
Notices(t) == {e \in eval'[t].made \ eval[t].made : e.notify}
NotifiesOnceStep ==
  \A t \in Threads :
    eval[t] # None /\ eval'[t] # None =>
      \A e \in Notices(t) :
        \/ noticed[e.rule] = None \/ eval[t].settings.cooldown = 0
        \/ eval[t].at >= noticed[e.rule] + eval[t].settings.cooldown
NotifiesOnce == [][NotifiesOnceStep]_eval

(* Some that do not hold. *)

\* "Start every rule fresh rather than keep judging against the old line"
\* (alerts.rs:349).  Between its two locks a new line meets a breach of the old one
\* and fires at once, and an evaluation under way goes on with the old line after.
StartsFresh ==
  [][\A r \in Rules : Fires(r, phases'[r]) =>
       /\ clears = 0
       /\ \E t \in Threads : eval'[t] # eval[t] /\ eval[t].settings = settings]_phases

\* What fires is listed as soon as its reading has been evaluated.  An evaluation
\* between the two locks of forget_scope fires and is taken off the list, and of two
\* evaluations that overlap the first to fire may be the last to list.
FiringIsListed ==
  \A r \in Rules : phases[r] = Firing =>
    \/ r \in active
    \/ \E t \in Threads :
         eval[t] # None /\ r \in eval[t].fired \cup About(eval[t].made, "fired")

\* "Alerts that are currently firing" (README.md:415).  A change of the settings
\* starts every rule afresh and leaves the list, and a rule that starts afresh
\* below its line never resolves.
ListedIsFiring ==
  (\A t \in Threads : eval[t] = None) => \A r \in active : phases[r] = Firing
=============================================================================
