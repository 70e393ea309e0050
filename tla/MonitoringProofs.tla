-------------------------- MODULE MonitoringProofs --------------------------
(***************************************************************************)
(* Proofs about Monitoring, with sets of rules, settings, readings, limits *)
(* and probes of any size, and with clocks, buckets, windows and bounds of *)
(* the histories of any size.  A part that does not run keeps its          *)
(* variables, so each part has an invariant of its own.                    *)
(***************************************************************************)
EXTENDS Monitoring, FiniteSetTheorems, SequenceTheorems, WellFoundedInduction, TLAPS

-----------------------------------------------------------------------------
(* Alerts of a session.                                                    *)

\* A rule that waits to fire has been over its line at least since its breach
\* began, as far as its readings were judged.
Waits ==
  \A r \in SessionRules :
    phases[r].at = "pending" => over[r] # none /\ over[r] <= phases[r].since

\* The engine remembers every notification.
Remembers == lastNotified = noticed

SessionAlertsInv == A!TypeOK /\ Waits /\ Remembers

\* Alerts of a session start in their invariant.
LEMMA SessionAlertsInit == A!Init => SessionAlertsInv
<1> SUFFICES ASSUME A!Init PROVE SessionAlertsInv
  OBVIOUS
<1> USE MonitoringAssumption DEF A!AlertAssumption, A!Init
<1>1. A!TypeOK
  BY DEF A!TypeOK, A!Times, A!Phase, A!Normal
<1>2. Waits /\ Remembers
  BY DEF Waits, Remembers, A!Normal
<1> QED
  BY <1>1, <1>2 DEF SessionAlertsInv

\* What an evaluation under way is made of.
LEMMA SessionEvaluation ==
  ASSUME A!TypeOK, NEW t \in Monitors, eval[t] # none
  PROVE  /\ eval[t] \in A!Evaluation(A!Times)
         /\ eval[t].at \in Nat /\ eval[t].at \in A!Times /\ now \in Nat /\ now \in A!Times
         /\ none \notin Nat /\ Readings \subseteq Nat
         /\ eval[t].settings # none =>
              /\ eval[t].settings.line \in Nat /\ eval[t].settings.clear \in Nat
              /\ eval[t].settings.clear <= eval[t].settings.line
              /\ eval[t].settings.sustain \in Nat /\ eval[t].settings.cooldown \in Nat
         /\ \A e \in A!Evaluation(A!Times) : e # none
<1>1. eval[t] \in A!Evaluation(A!Times) /\ now \in A!Times
  BY DEF A!TypeOK
<1>2. A!Times \subseteq Nat
  BY MonitoringAssumption DEF A!Times, A!AlertAssumption
<1>3. eval[t].at \in A!Times /\ eval[t].settings \in SessionSettings \cup {none}
  BY <1>1 DEF A!Evaluation
<1>4. A!Evaluation(A!Times) \subseteq A!Evaluation(Nat)
  BY <1>2 DEF A!Evaluation
<1> QED
  BY <1>1, <1>2, <1>3, <1>4, MonitoringAssumption DEF A!AlertAssumption

\* One rule, one reading: what apply keeps.
LEMMA ApplyStep ==
  ASSUME SessionAlertsInv, NEW t \in Monitors, NEW r \in SessionRules, NEW value \in Readings,
         A!Apply(t, r, value)
  PROVE  SessionAlertsInv' /\ A!SustainedStep /\ A!NotifiesOnceStep
<1> DEFINE e == eval[t]
           s == e.settings
           next == A!Stepped(phases[r], value >= s.line, value < s.clear, s.sustain, e.at)
           since == A!NowOver(r, value >= s.line, e.at)
           new == [e EXCEPT !.left = @ \ {r},
                            !.fired = IF A!Fires(r, next) THEN {r} ELSE {},
                            !.made = IF A!Resolves(r, next) THEN @ \cup {A!Resolved(r)} ELSE @]
<1> USE DEF SessionAlertsInv
<1>1. e # none /\ s # none /\ r \in e.left
  BY DEF A!Apply, A!Ready, A!Judges
<1>2. /\ e \in A!Evaluation(A!Times) /\ e.at \in Nat /\ e.at \in A!Times
      /\ none \notin Nat /\ value \in Nat
      /\ s.line \in Nat /\ s.clear \in Nat /\ s.clear <= s.line /\ s.sustain \in Nat
  BY <1>1, SessionEvaluation
<1>3. /\ phases' = [phases EXCEPT ![r] = next]
      /\ over' = [over EXCEPT ![r] = since]
      /\ eval' = [eval EXCEPT ![t] = new]
      /\ UNCHANGED <<now, scope, settings, lastNotified, active, clears, forgets, level,
                     noticed>>
  BY DEF A!Apply, A!Breach, A!Clear, A!Sustain
<1>4. /\ phases \in [SessionRules -> A!Phase] /\ eval \in [Monitors -> A!Evaluation(A!Times) \cup {none}]
      /\ over \in [SessionRules -> A!Times \cup {none}]
      /\ over[r] \in Nat \cup {none} /\ phases[r] \in A!Phase
  BY MonitoringAssumption DEF A!TypeOK, A!Times, A!AlertAssumption
<1>5. \/ phases[r] = A!Normal
      \/ phases[r] = A!Firing
      \/ phases[r].at = "pending" /\ phases[r].since \in Nat /\ phases[r].since \in A!Times
  BY <1>4, MonitoringAssumption DEF A!Phase, A!Times, A!AlertAssumption
<1>6. /\ since \in A!Times \cup {none}
      /\ next \in A!Phase
      /\ next.at = "pending" => since # none /\ since <= next.since
      /\ next = A!Firing /\ phases[r] # A!Firing => e.at >= since + s.sustain
  <2>1. phases[r].at = "pending" => over[r] # none /\ over[r] <= phases[r].since
    BY DEF Waits
  <2>2. since \in A!Times \cup {none}
    BY <1>2, <1>4 DEF A!NowOver, A!TypeOK
  <2> USE DEF A!Stepped, A!NowOver, A!Normal, A!Firing, A!Minus
  <2>3. CASE phases[r] = A!Firing
    BY <1>2, <2>2, <2>3 DEF A!Phase
  <2>4. CASE phases[r] = A!Normal
    BY <1>2, <1>4, <2>2, <2>4 DEF A!Phase
  <2>5. CASE phases[r].at = "pending" /\ phases[r].since \in Nat /\ phases[r].since \in A!Times
    BY <1>2, <1>4, <2>1, <2>2, <2>5 DEF A!Phase
  <2> QED
    BY <1>5, <2>3, <2>4, <2>5
<1>7. new \in A!Evaluation(A!Times) /\ new.left = e.left \ {r} /\ new.at = e.at
  <2>1. A!Resolved(r) \in A!Event
    BY DEF A!Event, A!Resolved
  <2> QED
    BY <1>1, <1>2, <2>1 DEF A!Evaluation
<1>8. A!TypeOK'
  <2>1. phases' \in [SessionRules -> A!Phase] /\ over' \in [SessionRules -> A!Times \cup {none}]
    BY <1>3, <1>4, <1>6
  <2>2. eval' \in [Monitors -> A!Evaluation(A!Times) \cup {none}]
    BY <1>3, <1>4, <1>7
  <2> QED
    BY <1>3, <2>1, <2>2 DEF A!TypeOK
<1>9. Waits'
  <2> SUFFICES ASSUME NEW q \in SessionRules, phases'[q].at = "pending"
               PROVE  over'[q] # none /\ over'[q] <= phases'[q].since
    BY DEF Waits
  <2>1. CASE q = r
    BY <1>3, <1>4, <1>6, <2>1
  <2>2. CASE q # r
    BY <1>3, <1>4, <2>2 DEF Waits
  <2> QED
    BY <2>1, <2>2
<1>10. Remembers'
  BY <1>3 DEF Remembers
<1>11. A!SustainedStep
  <2> SUFFICES ASSUME NEW q \in SessionRules, phases'[q] = A!Firing, phases[q] # A!Firing
               PROVE  \E u \in Monitors :
                        /\ eval[u] # none /\ q \in eval[u].left /\ eval'[u] # eval[u]
                        /\ eval[u].at >= over'[q] + eval[u].settings.sustain
    BY DEF A!SustainedStep
  <2>1. q = r /\ next = A!Firing
    BY <1>3, <1>4
  <2>2. over'[r] = since /\ eval'[t] = new
    BY <1>3, <1>4
  <2>3. new # e
    BY <1>1, <1>7
  <2> QED
    BY <1>1, <1>6, <2>1, <2>2, <2>3
<1>12. A!NotifiesOnceStep
  <2>1. \A u \in Monitors : u # t => eval'[u] = eval[u]
    BY <1>3, <1>4
  <2>2. eval'[t].made \subseteq e.made \cup {A!Resolved(r)}
    BY <1>2, <1>3, <1>4 DEF A!Evaluation
  <2>3. ~A!Resolved(r).notify
    BY DEF A!Resolved
  <2>4. \A u \in Monitors : A!Notices(u) = {}
    BY <2>1, <2>2, <2>3 DEF A!Notices
  <2> QED
    BY <2>4 DEF A!NotifiesOnceStep
<1> QED
  BY <1>8, <1>9, <1>10, <1>11, <1>12

\* A rule that fired notifies if it is due.
LEMMA NoticeStep ==
  ASSUME SessionAlertsInv, NEW t \in Monitors, NEW r \in SessionRules, A!Notice(t, r)
  PROVE  SessionAlertsInv' /\ phases' = phases /\ A!NotifiesOnceStep
<1> DEFINE e == eval[t]
           timely == \/ lastNotified[r] = none
                     \/ A!Minus(e.at, lastNotified[r]) >= e.settings.cooldown
           new == [e EXCEPT !.fired = {}, !.made = @ \cup {A!Fired(r, timely)}]
<1> USE DEF SessionAlertsInv
<1>1. /\ e # none /\ e.settings # none
      /\ UNCHANGED <<now, scope, settings, phases, active, clears, forgets, level, over>>
      /\ lastNotified' = IF timely THEN [lastNotified EXCEPT ![r] = e.at] ELSE lastNotified
      /\ noticed' = IF timely THEN [noticed EXCEPT ![r] = e.at] ELSE noticed
      /\ eval' = [eval EXCEPT ![t] = new]
  BY DEF A!Notice, A!Judges
<1>2. /\ e \in A!Evaluation(A!Times) /\ e.at \in Nat /\ e.at \in A!Times
      /\ none \notin Nat
      /\ e.settings.cooldown \in Nat
  BY <1>1, SessionEvaluation
<1>3. timely \in BOOLEAN
  OBVIOUS
<1>4. new \in A!Evaluation(A!Times) /\ new.made = e.made \cup {A!Fired(r, timely)}
  <2>1. A!Fired(r, timely) \in A!Event
    BY <1>3 DEF A!Event, A!Fired
  <2> QED
    BY <1>2, <2>1 DEF A!Evaluation
<1> HIDE DEF timely
<1>5. A!TypeOK'
  <2>1. lastNotified' \in [SessionRules -> A!Times \cup {none}] /\ noticed' \in [SessionRules -> A!Times \cup {none}]
    BY <1>1, <1>2 DEF A!TypeOK
  <2>2. eval' \in [Monitors -> A!Evaluation(A!Times) \cup {none}]
    BY <1>1, <1>4 DEF A!TypeOK
  <2> QED
    BY <1>1, <2>1, <2>2 DEF A!TypeOK
<1>6. Waits' /\ Remembers'
  BY <1>1 DEF Waits, Remembers
<1>7. A!NotifiesOnceStep
  <2> SUFFICES ASSUME NEW u \in Monitors, eval[u] # none, eval'[u] # none, NEW n \in A!Notices(u)
               PROVE  \/ noticed[n.rule] = none \/ eval[u].settings.cooldown = 0
                      \/ eval[u].at >= noticed[n.rule] + eval[u].settings.cooldown
    BY DEF A!NotifiesOnceStep
  <2>1. u = t
    BY <1>1 DEF A!Notices, A!TypeOK
  <2>2. eval'[t] = new
    BY <1>1 DEF A!TypeOK
  <2>3. n = A!Fired(r, timely) /\ n.notify
    BY <1>4, <2>1, <2>2 DEF A!Notices
  <2>4. n.rule = r /\ timely
    BY <2>3 DEF A!Fired
  <2>5. noticed[r] = none \/ A!Minus(e.at, noticed[r]) >= e.settings.cooldown
    BY <2>4 DEF Remembers, timely
  <2>6. noticed[r] \in Nat \cup {none}
    BY MonitoringAssumption DEF A!TypeOK, A!Times, A!AlertAssumption
  <2> QED
    BY <1>2, <2>1, <2>4, <2>5, <2>6 DEF A!Minus
<1> QED
  BY <1>1, <1>5, <1>6, <1>7

\* Every step of the engine of a session keeps its invariant, fires only what
\* lasted and notifies once in a cooldown.
LEMMA SessionAlertsStep ==
  ASSUME SessionAlertsInv, [A!Next]_alertVars
  PROVE  /\ SessionAlertsInv'
         /\ [A!SustainedStep]_phases
         /\ [A!NotifiesOnceStep]_eval
<1> USE DEF SessionAlertsInv
<1>1. CASE UNCHANGED alertVars
  BY <1>1 DEF alertVars, A!TypeOK, Waits, Remembers
<1>2. ASSUME NEW t \in Monitors, NEW r \in SessionRules, NEW value \in Readings, A!Apply(t, r, value)
      PROVE  SessionAlertsInv' /\ A!SustainedStep /\ A!NotifiesOnceStep
  BY <1>2, ApplyStep
<1>3. ASSUME NEW t \in Monitors, NEW r \in SessionRules, A!Notice(t, r)
      PROVE  SessionAlertsInv' /\ phases' = phases /\ A!NotifiesOnceStep
  BY <1>3, NoticeStep
<1>4. ASSUME NEW t \in Monitors, NEW new \in A!Evaluation(A!Times) \cup {none},
             eval' = [eval EXCEPT ![t] = new], new # none /\ eval[t] # none => new.made = eval[t].made,
             UNCHANGED <<now, scope, settings, phases, lastNotified, clears, forgets, level,
                         over, noticed>>,
             active' \subseteq SessionRules
      PROVE  SessionAlertsInv' /\ A!NotifiesOnceStep
  <2>1. \A u \in Monitors : eval'[u] = IF u = t THEN new ELSE eval[u]
    BY <1>4 DEF A!TypeOK
  <2>2. A!TypeOK'
    BY <1>4 DEF A!TypeOK
  <2>3. Waits' /\ Remembers'
    BY <1>4 DEF Waits, Remembers
  <2>4. A!NotifiesOnceStep
    BY <1>4, <2>1 DEF A!NotifiesOnceStep, A!Notices
  <2> QED
    BY <2>2, <2>3, <2>4
<1>5. ASSUME NEW t \in Monitors, A!Observe(t)
      PROVE  SessionAlertsInv' /\ phases' = phases /\ A!NotifiesOnceStep
  <2>1. A!Begun(SessionRules \ {}) \in A!Evaluation(A!Times)
    BY DEF A!Begun, A!Evaluation, A!TypeOK
  <2> QED
    BY <1>4, <1>5, <2>1 DEF A!Observe, A!TypeOK
<1>6. ASSUME NEW t \in Monitors, NEW when \in A!Times, A!Copies(t, when)
      PROVE  SessionAlertsInv' /\ phases' = phases /\ A!NotifiesOnceStep
  <2> DEFINE new == IF settings.enabled
                    THEN [eval[t] EXCEPT !.at = when, !.settings = settings, !.left = @ \cap settings.on]
                    ELSE none
  <2>1. eval[t] # none /\ eval' = [eval EXCEPT ![t] = new]
    BY <1>6 DEF A!Copies
  <2>2. eval[t] \in A!Evaluation(A!Times) /\ settings \in SessionSettings
    BY <2>1 DEF A!TypeOK
  <2>3. new \in A!Evaluation(A!Times) \cup {none} /\ (new # none => new.made = eval[t].made)
    BY <1>6, <2>2 DEF A!Evaluation
  <2> QED
    BY <1>4, <1>6, <2>1, <2>3 DEF A!Copies, A!TypeOK
<1>7. ASSUME NEW t \in Monitors, NEW r \in SessionRules, A!ReadsNothing(t, r)
      PROVE  SessionAlertsInv' /\ phases' = phases /\ A!NotifiesOnceStep
  <2> DEFINE new == [eval[t] EXCEPT !.left = @ \ {r}]
  <2>1. eval[t] # none
    BY <1>7 DEF A!ReadsNothing, A!Ready, A!Judges
  <2>2. eval[t] \in A!Evaluation(A!Times)
    BY <2>1 DEF A!TypeOK
  <2>3. new \in A!Evaluation(A!Times) /\ new.made = eval[t].made
    BY <2>2 DEF A!Evaluation
  <2>4. eval' = [eval EXCEPT ![t] = new]
    BY <1>7 DEF A!ReadsNothing
  <2> QED
    BY <1>4, <1>7, <2>3, <2>4 DEF A!ReadsNothing, A!TypeOK
<1>8. ASSUME NEW t \in Monitors, A!Track(t)
      PROVE  SessionAlertsInv' /\ phases' = phases /\ A!NotifiesOnceStep
  <2>1. eval[t] \in A!Evaluation(A!Times)
    BY <1>8 DEF A!Track, A!Ready, A!Judges, A!TypeOK
  <2>2. A!About(eval[t].made, "fired") \subseteq SessionRules
    BY <2>1 DEF A!About, A!Evaluation, A!Event
  <2>3. active' \subseteq SessionRules
    BY <1>8, <2>2 DEF A!Track, A!TypeOK
  <2> QED
    BY <1>4, <1>8, <2>3 DEF A!Track
<1> DEFINE Quiet == UNCHANGED <<eval, noticed, lastNotified>>
<1>9. ASSUME NEW s \in SessionSettings, A!SetSettings(s)
      PROVE  SessionAlertsInv' /\ phases' = phases /\ Quiet
  <2>1. A!TypeOK'
    BY <1>9, MonitoringAssumption DEF A!SetSettings, A!TypeOK, A!AlertAssumption
  <2> QED
    BY <1>9, <2>1 DEF A!SetSettings, Waits, Remembers
<1>10. ASSUME A!ClearPhases \/ A!ForgetPhases
       PROVE  SessionAlertsInv' /\ A!SustainedStep /\ Quiet
  <2>1. /\ phases' = [r \in SessionRules |-> A!Normal] /\ over' = [r \in SessionRules |-> none]
        /\ UNCHANGED <<now, scope, settings, lastNotified, active, eval, level, noticed>>
        /\ clears' \in 0 .. MaxCalls /\ forgets' \in 0 .. MaxCalls
    BY <1>10, MonitoringAssumption
    DEF A!ClearPhases, A!ForgetPhases, A!Forgotten, A!TypeOK, A!AlertAssumption
  <2>2. A!TypeOK'
    BY <2>1 DEF A!TypeOK, A!Phase
  <2>3. Waits' /\ Remembers' /\ A!SustainedStep
    BY <2>1 DEF Waits, Remembers, A!SustainedStep, A!Normal, A!Firing
  <2> QED
    BY <2>1, <2>2, <2>3
<1>11. ASSUME A!ForgetListed PROVE SessionAlertsInv' /\ phases' = phases /\ Quiet
  <2>1. A!TypeOK'
    BY <1>11, MonitoringAssumption DEF A!ForgetListed, A!TypeOK, A!AlertAssumption
  <2> QED
    BY <1>11, <2>1 DEF A!ForgetListed, Waits, Remembers
<1>12. ASSUME A!Connection \/ A!TimePasses PROVE SessionAlertsInv' /\ phases' = phases /\ Quiet
  <2>1. A!TypeOK'
    <3>1. CASE A!Connection
      BY <3>1, Zenon DEF A!Connection, A!TypeOK
    <3>2. CASE A!TimePasses
      <4>1. now' \in A!Times
        BY <3>2, MonitoringAssumption DEF A!TimePasses, A!TypeOK, A!Times, A!AlertAssumption
      <4> QED
        BY <3>2, <4>1 DEF A!TimePasses, A!TypeOK
    <3> QED
      BY <1>12, <3>1, <3>2
  <2> QED
    BY <1>12, <2>1 DEF A!Connection, A!TimePasses, Waits, Remembers
<1>13. CASE A!Next
  <2>1. CASE \E t \in Monitors : A!Evaluates(t)
    BY <1>2, <1>3, <1>5, <1>6, <1>7, <1>8, <2>1 DEF A!Evaluates
  <2> QED
    BY <1>9, <1>10, <1>11, <1>12, <1>13, <2>1 DEF A!Next
<1> QED
  BY <1>1, <1>13

-----------------------------------------------------------------------------
(* Alerts of LLM instances.                                                *)

InstanceAlertsInv == M!TypeOK /\ Remembers

\* Alerts of instances start in their invariant.
LEMMA InstanceAlertsInit == M!Init => InstanceAlertsInv
<1> SUFFICES ASSUME M!Init PROVE InstanceAlertsInv
  OBVIOUS
<1> USE MonitoringAssumption DEF M!AlertAssumption, M!Init
<1>1. M!TypeOK
  BY DEF M!TypeOK, M!Times, M!Phase, M!Normal
<1> QED
  BY <1>1 DEF InstanceAlertsInv, Remembers

\* What an evaluation under way is made of.
LEMMA InstanceEvaluation ==
  ASSUME M!TypeOK, NEW t \in Coordinator, eval[t] # none
  PROVE  /\ eval[t] \in M!Evaluation(M!Times)
         /\ eval[t].at \in Nat /\ eval[t].at \in M!Times /\ now \in Nat /\ now \in M!Times
         /\ none \notin Nat /\ Readings \subseteq Nat
         /\ eval[t].settings # none =>
              /\ eval[t].settings.line \in Nat /\ eval[t].settings.clear \in Nat
              /\ eval[t].settings.clear <= eval[t].settings.line
              /\ eval[t].settings.sustain \in Nat /\ eval[t].settings.cooldown \in Nat
         /\ \A e \in M!Evaluation(M!Times) : e # none
<1>1. eval[t] \in M!Evaluation(M!Times) /\ now \in M!Times
  BY DEF M!TypeOK
<1>2. M!Times \subseteq Nat
  BY MonitoringAssumption DEF M!Times, M!AlertAssumption
<1>3. eval[t].at \in M!Times /\ eval[t].settings \in LlmSettings \cup {none}
  BY <1>1 DEF M!Evaluation
<1>4. M!Evaluation(M!Times) \subseteq M!Evaluation(Nat)
  BY <1>2 DEF M!Evaluation
<1> QED
  BY <1>1, <1>2, <1>3, <1>4, MonitoringAssumption DEF M!AlertAssumption

\* What apply keeps: the severity of the instance is its reading.
LEMMA InstanceApplyStep ==
  ASSUME InstanceAlertsInv, NEW t \in Coordinator, NEW r \in LlmRules, NEW value \in Readings,
         M!Apply(t, r, value)
  PROVE  InstanceAlertsInv' /\ M!NotifiesOnceStep
<1> DEFINE e == eval[t]
           next == M!Stepped(phases[r], level[r] = "critical", level[r] # "critical", 0, e.at)
           since == M!NowOver(r, level[r] = "critical", e.at)
           new == [e EXCEPT !.left = @ \ {r},
                            !.fired = IF M!Fires(r, next) THEN {r} ELSE {},
                            !.made = IF M!Resolves(r, next) THEN @ \cup {M!Resolved(r)} ELSE @]
<1> USE DEF InstanceAlertsInv
<1>1. e # none /\ r \in e.left
  BY DEF M!Apply, M!Ready, M!Judges
<1>2. e \in M!Evaluation(M!Times) /\ e.at \in Nat /\ e.at \in M!Times
  BY <1>1, InstanceEvaluation
<1>3. /\ phases' = [phases EXCEPT ![r] = next]
      /\ over' = [over EXCEPT ![r] = since]
      /\ eval' = [eval EXCEPT ![t] = new]
      /\ UNCHANGED <<now, scope, settings, lastNotified, active, clears, forgets, level,
                     noticed>>
  BY DEF M!Apply, M!Breach, M!Clear, M!Sustain
<1>4. phases[r] \in M!Phase /\ since \in M!Times \cup {none}
  BY <1>2 DEF M!TypeOK, M!NowOver
<1>5. next \in M!Phase
  BY <1>2, <1>4 DEF M!Stepped, M!Phase, M!Normal, M!Firing
<1>6. new \in M!Evaluation(M!Times)
  <2>1. M!Resolved(r) \in M!Event
    BY DEF M!Event, M!Resolved
  <2> QED
    BY <1>1, <1>2, <2>1 DEF M!Evaluation
<1>7. M!TypeOK'
  <2>1. phases' \in [LlmRules -> M!Phase] /\ over' \in [LlmRules -> M!Times \cup {none}]
    BY <1>3, <1>4, <1>5 DEF M!TypeOK
  <2>2. eval' \in [Coordinator -> M!Evaluation(M!Times) \cup {none}]
    BY <1>3, <1>6 DEF M!TypeOK
  <2> QED
    BY <1>3, <2>1, <2>2 DEF M!TypeOK
<1>8. Remembers'
  BY <1>3 DEF Remembers
<1>9. M!NotifiesOnceStep
  <2>1. \A u \in Coordinator : eval'[u] = IF u = t THEN new ELSE eval[u]
    BY <1>3 DEF M!TypeOK
  <2>2. new.made \subseteq e.made \cup {M!Resolved(r)}
    BY <1>2 DEF M!Evaluation
  <2>3. ~M!Resolved(r).notify
    BY DEF M!Resolved
  <2> HIDE DEF new
  <2>4. \A u \in Coordinator : M!Notices(u) = {}
    BY <2>1, <2>2, <2>3 DEF M!Notices
  <2> QED
    BY <2>4 DEF M!NotifiesOnceStep
<1> QED
  BY <1>7, <1>8, <1>9

\* A rule that fired notifies if it is due.
LEMMA InstanceNoticeStep ==
  ASSUME InstanceAlertsInv, NEW t \in Coordinator, NEW r \in LlmRules, M!Notice(t, r)
  PROVE  InstanceAlertsInv' /\ phases' = phases /\ M!NotifiesOnceStep
<1> DEFINE e == eval[t]
           timely == \/ lastNotified[r] = none
                     \/ M!Minus(e.at, lastNotified[r]) >= e.settings.cooldown
           new == [e EXCEPT !.fired = {}, !.made = @ \cup {M!Fired(r, timely)}]
<1> USE DEF InstanceAlertsInv
<1>1. /\ e # none /\ e.settings # none
      /\ UNCHANGED <<now, scope, settings, phases, active, clears, forgets, level, over>>
      /\ lastNotified' = IF timely THEN [lastNotified EXCEPT ![r] = e.at] ELSE lastNotified
      /\ noticed' = IF timely THEN [noticed EXCEPT ![r] = e.at] ELSE noticed
      /\ eval' = [eval EXCEPT ![t] = new]
  BY DEF M!Notice, M!Judges
<1>2. /\ e \in M!Evaluation(M!Times) /\ e.at \in Nat /\ e.at \in M!Times
      /\ none \notin Nat
      /\ e.settings.cooldown \in Nat
  BY <1>1, InstanceEvaluation
<1>3. timely \in BOOLEAN
  OBVIOUS
<1>4. new \in M!Evaluation(M!Times) /\ new.made = e.made \cup {M!Fired(r, timely)}
  <2>1. M!Fired(r, timely) \in M!Event
    BY <1>3 DEF M!Event, M!Fired
  <2> QED
    BY <1>2, <2>1 DEF M!Evaluation
<1> HIDE DEF timely
<1>5. M!TypeOK'
  <2>1. lastNotified' \in [LlmRules -> M!Times \cup {none}] /\ noticed' \in [LlmRules -> M!Times \cup {none}]
    BY <1>1, <1>2 DEF M!TypeOK
  <2>2. eval' \in [Coordinator -> M!Evaluation(M!Times) \cup {none}]
    BY <1>1, <1>4 DEF M!TypeOK
  <2> QED
    BY <1>1, <2>1, <2>2 DEF M!TypeOK
<1>6. Remembers'
  BY <1>1 DEF Remembers
<1>7. M!NotifiesOnceStep
  <2> SUFFICES ASSUME NEW u \in Coordinator, eval[u] # none, eval'[u] # none, NEW n \in M!Notices(u)
               PROVE  \/ noticed[n.rule] = none \/ eval[u].settings.cooldown = 0
                      \/ eval[u].at >= noticed[n.rule] + eval[u].settings.cooldown
    BY DEF M!NotifiesOnceStep
  <2>1. u = t
    BY <1>1 DEF M!Notices, M!TypeOK
  <2>2. eval'[t] = new
    BY <1>1 DEF M!TypeOK
  <2>3. n = M!Fired(r, timely) /\ n.notify
    BY <1>4, <2>1, <2>2 DEF M!Notices
  <2>4. n.rule = r /\ timely
    BY <2>3 DEF M!Fired
  <2>5. noticed[r] = none \/ M!Minus(e.at, noticed[r]) >= e.settings.cooldown
    BY <2>4 DEF Remembers, timely
  <2>6. noticed[r] \in Nat \cup {none}
    BY MonitoringAssumption DEF M!TypeOK, M!Times, M!AlertAssumption
  <2> QED
    BY <1>2, <2>1, <2>4, <2>5, <2>6 DEF M!Minus
<1> QED
  BY <1>1, <1>5, <1>6, <1>7

\* Every step of the engine of the instances keeps its invariant and notifies
\* once in a cooldown.
LEMMA InstanceAlertsStep ==
  ASSUME InstanceAlertsInv, [M!Next]_alertVars
  PROVE  /\ InstanceAlertsInv'
         /\ [M!NotifiesOnceStep]_eval
<1> USE DEF InstanceAlertsInv
<1>1. CASE UNCHANGED alertVars
  BY <1>1 DEF alertVars, M!TypeOK, Remembers
<1>2. ASSUME NEW t \in Coordinator, NEW r \in LlmRules, NEW value \in Readings, M!Apply(t, r, value)
      PROVE  InstanceAlertsInv' /\ M!NotifiesOnceStep
  BY <1>2, InstanceApplyStep
<1>3. ASSUME NEW t \in Coordinator, NEW r \in LlmRules, M!Notice(t, r)
      PROVE  InstanceAlertsInv' /\ M!NotifiesOnceStep
  BY <1>3, InstanceNoticeStep
<1>4. ASSUME NEW t \in Coordinator, NEW new \in M!Evaluation(M!Times) \cup {none},
             eval' = [eval EXCEPT ![t] = new], new # none /\ eval[t] # none => new.made = eval[t].made,
             UNCHANGED <<now, scope, settings, phases, lastNotified, clears, forgets, level,
                         over, noticed>>,
             active' \subseteq LlmRules
      PROVE  InstanceAlertsInv' /\ M!NotifiesOnceStep
  <2>1. \A u \in Coordinator : eval'[u] = IF u = t THEN new ELSE eval[u]
    BY <1>4 DEF M!TypeOK
  <2>2. M!TypeOK'
    BY <1>4 DEF M!TypeOK
  <2>3. Remembers'
    BY <1>4 DEF Remembers
  <2>4. M!NotifiesOnceStep
    BY <1>4, <2>1 DEF M!NotifiesOnceStep, M!Notices
  <2> QED
    BY <2>2, <2>3, <2>4
<1>5. ASSUME NEW t \in Coordinator, M!Observe(t)
      PROVE  InstanceAlertsInv' /\ M!NotifiesOnceStep
  <2>1. M!Begun(LlmRules \ LlmRules) \in M!Evaluation(M!Times)
    BY DEF M!Begun, M!Evaluation, M!TypeOK
  <2> QED
    BY <1>4, <1>5, <2>1 DEF M!Observe, M!TypeOK
<1>14. ASSUME NEW t \in Coordinator, NEW r \in LlmRules,
              NEW to \in {"unknown", "fine", "critical"}, M!Folds(t, r, to)
       PROVE  InstanceAlertsInv' /\ M!NotifiesOnceStep
  <2>1. M!Begun({r}) \in M!Evaluation(M!Times)
    BY DEF M!Begun, M!Evaluation, M!TypeOK
  <2>2. /\ eval[t] = none
        /\ eval' = [eval EXCEPT ![t] = M!Begun({r})] \/ eval' = eval
        /\ level' \in [LlmRules -> {"unknown", "fine", "critical"}]
        /\ UNCHANGED <<now, scope, settings, phases, lastNotified, active, clears, forgets,
                       over, noticed>>
    BY <1>14 DEF M!Folds, M!TypeOK
  <2>3. eval' \in [Coordinator -> M!Evaluation(M!Times) \cup {none}]
    BY <2>1, <2>2 DEF M!TypeOK
  <2>4. M!TypeOK' /\ Remembers'
    BY <2>2, <2>3 DEF M!TypeOK, Remembers
  <2>5. \A u \in Coordinator : eval[u] # none => eval'[u] = eval[u]
    BY <2>2 DEF M!TypeOK
  <2> QED
    BY <2>4, <2>5 DEF M!NotifiesOnceStep, M!Notices
<1>6. ASSUME NEW t \in Coordinator, NEW when \in M!Times, M!Copies(t, when)
      PROVE  InstanceAlertsInv' /\ M!NotifiesOnceStep
  <2> DEFINE new == IF settings.enabled
                    THEN [eval[t] EXCEPT !.at = when, !.settings = settings, !.left = @ \cap settings.on]
                    ELSE none
  <2>1. eval[t] # none /\ eval' = [eval EXCEPT ![t] = new]
    BY <1>6 DEF M!Copies
  <2>2. eval[t] \in M!Evaluation(M!Times) /\ settings \in LlmSettings
    BY <2>1 DEF M!TypeOK
  <2>3. new \in M!Evaluation(M!Times) \cup {none} /\ (new # none => new.made = eval[t].made)
    BY <1>6, <2>2 DEF M!Evaluation
  <2> QED
    BY <1>4, <1>6, <2>1, <2>3 DEF M!Copies, M!TypeOK
<1>7. ASSUME NEW t \in Coordinator, NEW r \in LlmRules, M!ReadsNothing(t, r)
      PROVE  InstanceAlertsInv' /\ M!NotifiesOnceStep
  <2> DEFINE new == [eval[t] EXCEPT !.left = @ \ {r}]
  <2>1. eval[t] # none
    BY <1>7 DEF M!ReadsNothing, M!Ready, M!Judges
  <2>2. eval[t] \in M!Evaluation(M!Times)
    BY <2>1 DEF M!TypeOK
  <2>3. new \in M!Evaluation(M!Times) /\ new.made = eval[t].made
    BY <2>2 DEF M!Evaluation
  <2>4. eval' = [eval EXCEPT ![t] = new]
    BY <1>7 DEF M!ReadsNothing
  <2> QED
    BY <1>4, <1>7, <2>3, <2>4 DEF M!ReadsNothing, M!TypeOK
<1>8. ASSUME NEW t \in Coordinator, M!Track(t)
      PROVE  InstanceAlertsInv' /\ M!NotifiesOnceStep
  <2>1. eval[t] \in M!Evaluation(M!Times)
    BY <1>8 DEF M!Track, M!Ready, M!Judges, M!TypeOK
  <2>2. M!About(eval[t].made, "fired") \subseteq LlmRules
    BY <2>1 DEF M!About, M!Evaluation, M!Event
  <2>3. active' \subseteq LlmRules
    BY <1>8, <2>2 DEF M!Track, M!TypeOK
  <2> QED
    BY <1>4, <1>8, <2>3 DEF M!Track
<1> DEFINE Quiet == UNCHANGED <<eval, noticed, lastNotified>>
<1>9. ASSUME NEW s \in LlmSettings, M!SetSettings(s)
      PROVE  InstanceAlertsInv' /\ Quiet
  <2>1. M!TypeOK'
    BY <1>9, MonitoringAssumption DEF M!SetSettings, M!TypeOK, M!AlertAssumption
  <2> QED
    BY <1>9, <2>1 DEF M!SetSettings, Remembers
<1>10. ASSUME M!ClearPhases \/ M!ForgetPhases
       PROVE  InstanceAlertsInv' /\ Quiet
  <2>1. /\ \/ phases' = [r \in LlmRules |-> M!Normal] /\ over' = [r \in LlmRules |-> none]
           \/ phases' = phases /\ over' = over
        /\ UNCHANGED <<now, scope, settings, lastNotified, active, eval, level, noticed>>
        /\ clears' \in 0 .. MaxCalls /\ forgets' \in 0 .. MaxCalls
    BY <1>10, MonitoringAssumption
    DEF M!ClearPhases, M!ForgetPhases, M!Forgotten, M!TypeOK, M!AlertAssumption
  <2>2. M!TypeOK'
    BY <2>1 DEF M!TypeOK, M!Phase
  <2>3. Remembers'
    BY <2>1 DEF Remembers, M!Normal, M!Firing
  <2> QED
    BY <2>1, <2>2, <2>3
<1>11. ASSUME M!ForgetListed PROVE InstanceAlertsInv' /\ Quiet
  <2>1. M!TypeOK'
    BY <1>11, MonitoringAssumption DEF M!ForgetListed, M!TypeOK, M!AlertAssumption
  <2> QED
    BY <1>11, <2>1 DEF M!ForgetListed, Remembers
<1>12. ASSUME M!Connection \/ M!TimePasses PROVE InstanceAlertsInv' /\ Quiet
  <2>1. M!TypeOK'
    <3>1. CASE M!Connection
      BY <3>1, Zenon DEF M!Connection, M!TypeOK
    <3>2. CASE M!TimePasses
      <4>1. now' \in M!Times
        BY <3>2, MonitoringAssumption DEF M!TimePasses, M!TypeOK, M!Times, M!AlertAssumption
      <4> QED
        BY <3>2, <4>1 DEF M!TimePasses, M!TypeOK
    <3> QED
      BY <1>12, <3>1, <3>2
  <2> QED
    BY <1>12, <2>1 DEF M!Connection, M!TimePasses, Remembers
<1>13. CASE M!Next
  <2>1. CASE \E t \in Coordinator : M!Evaluates(t)
    BY <1>2, <1>3, <1>5, <1>6, <1>7, <1>8, <1>14, <2>1 DEF M!Evaluates
  <2> QED
    BY <1>9, <1>10, <1>11, <1>12, <1>13, <2>1 DEF M!Next
<1> QED
  BY <1>1, <1>13

-----------------------------------------------------------------------------
(* The alerts as part of the monitor.                                      *)

\* The engine of the part that runs, or the one at rest, is in its invariant.
AlertsInv == IF part = "llm" THEN InstanceAlertsInv ELSE SessionAlertsInv

\* A step of the monitor is one of the alerts of a session or of instances, or
\* leaves them alone.
LEMMA AlertsAct ==
  [Next]_vars => /\ part' = part
                 /\ IF part = "llm" THEN [M!Next]_alertVars ELSE [A!Next]_alertVars
                 /\ part \notin {"alerts", "llm"} => UNCHANGED alertVars
BY Zenon DEF Next, vars, Rest

LEMMA AlertsInit == Init => AlertsInv
BY SessionAlertsInit, InstanceAlertsInit DEF Init, AlertsInv

LEMMA AlertsStep ==
  AlertsInv /\ [Next]_vars =>
    /\ AlertsInv'
    /\ [part = "alerts" => A!SustainedStep]_phases
    /\ [IF part = "llm" THEN M!NotifiesOnceStep ELSE A!NotifiesOnceStep]_eval
<1> SUFFICES ASSUME AlertsInv, [Next]_vars
             PROVE  /\ AlertsInv'
                    /\ [part = "alerts" => A!SustainedStep]_phases
                    /\ [IF part = "llm" THEN M!NotifiesOnceStep
                        ELSE A!NotifiesOnceStep]_eval
  OBVIOUS
<1>1. CASE part = "llm"
  BY <1>1, AlertsAct, InstanceAlertsStep DEF AlertsInv
<1>2. CASE part # "llm"
  BY <1>2, AlertsAct, SessionAlertsStep DEF AlertsInv
<1> QED
  BY <1>1, <1>2

\* A rule that fires was read over its line for the time it is set to last, whatever
\* fails, changes or overlaps in between.
THEOREM FiresOnlySustainedAlways == Spec => FiresOnlySustained
<1>1. Init => AlertsInv
  BY AlertsInit
<1>2. AlertsInv /\ [Next]_vars => AlertsInv' /\ [part = "alerts" => A!SustainedStep]_phases
  BY AlertsStep
<1> QED
  BY <1>1, <1>2, PTL DEF Spec, FiresOnlySustained

\* A rule notifies at most once in a cooldown.
THEOREM NotifiesOnceAlways == Spec => NotifiesOnce
<1>1. Init => AlertsInv
  BY AlertsInit
<1>2. AlertsInv /\ [Next]_vars =>
        /\ AlertsInv'
        /\ [IF part = "llm" THEN M!NotifiesOnceStep ELSE A!NotifiesOnceStep]_eval
  BY AlertsStep
<1> QED
  BY <1>1, <1>2, PTL DEF Spec, NotifiesOnce

-----------------------------------------------------------------------------
(* Quotas of agents whose CLI is probed.                                   *)

\* A probe that is out is the newest of its provider, which is marked.
OutIsNewest ==
  \A t \in probeThreads :
    /\ t.provider \in inFlight /\ t.gen = begun[t.provider]
    /\ \A u \in probeThreads : u.provider = t.provider => u = t

\* Answers wait in the order of their questions, none older than the last that
\* was folded in.
AnswersSorted ==
  /\ \A p \in Clis : latest[p].gen <= begun[p]
  /\ \A i \in 1 .. Len(finished) :
       /\ latest[finished[i].provider].gen <= finished[i].gen
       /\ finished[i].gen <= begun[finished[i].provider]
       /\ \A j \in 1 .. i : finished[j].provider = finished[i].provider =>
                              finished[j].gen <= finished[i].gen

ProbesInv ==
  /\ Q!TypeOK /\ OutIsNewest /\ AnswersSorted /\ Q!LiveMeansLastReadWorked

\* A probe is of a CLI, and a record of four fields of known kinds.
LEMMA CliIsProbed == Q!Probed = Clis
BY MonitoringAssumption DEF Q!Probed

\* The quotas of probed agents start in their invariant.
LEMMA ProbesInit == Q!Init => ProbesInv
<1> SUFFICES ASSUME Q!Init PROVE ProbesInv
  OBVIOUS
<1> USE MonitoringAssumption, CliIsProbed DEF Q!QuotaAssumption, Q!Init
<1>1. Q!TypeOK
  BY DEF Q!TypeOK, Q!Logs, Q!Absent, Q!Log, Q!Snapshot, Q!Nothing, Q!Answer
<1>2. OutIsNewest /\ AnswersSorted /\ Q!LiveMeansLastReadWorked
  BY DEF OutIsNewest, AnswersSorted, Q!LiveMeansLastReadWorked, Q!Nothing
<1> QED
  BY <1>1, <1>2 DEF ProbesInv

\* What one agent shows after a look at its log is live only if it was before.
LEMMA FallbackIsNotLive ==
  ASSUME NEW p \in Clis, NEW meta \in [Clis -> Q!Logs], NEW shown \in Q!Snapshot
  PROVE  /\ Q!Fallback(p, meta, shown) \in Q!Snapshot
         /\ Q!Fallback(p, meta, shown).source = "live" => shown.source = "live"
<1> USE DEF Q!Nothing, Q!Unavailable, Q!Live
<1>1. CASE p = "agy" \/ meta[p] = Q!Absent \/ meta[p] = Q!Bare
  BY <1>1 DEF Q!Fallback, Q!Snapshot
<1>2. CASE ~(p = "agy" \/ meta[p] = Q!Absent \/ meta[p] = Q!Bare)
  <2>1. Q!Fallback(p, meta, shown) = Q!FromLog(p, meta, shown)
    BY <1>2 DEF Q!Fallback
  <2>2. meta[p].at \in Captures
    BY <1>2 DEF Q!Logs, Q!Log
  <2>3. p # "claude"
    BY MonitoringAssumption
  <2> QED
    BY <2>1, <2>2, <2>3 DEF Q!FromLog, Q!Snapshot
<1> QED
  BY <1>1, <1>2

\* The same of all agents at once.
LEMMA MergedIsNotLive ==
  ASSUME NEW seen, NEW meta \in [Clis -> Q!Logs],
         NEW shown \in [Clis -> Q!Snapshot]
  PROVE  /\ Q!Merged(seen, meta, shown) \in [Clis -> Q!Snapshot]
         /\ \A p \in Clis : Q!Merged(seen, meta, shown)[p].source = "live" =>
                              shown[p].source = "live"
<1>1. \A p \in Clis :
        /\ Q!Fallback(p, meta, shown[p]) \in Q!Snapshot
        /\ Q!Fallback(p, meta, shown[p]).source = "live" => shown[p].source = "live"
  BY FallbackIsNotLive
<1>2. Q!Merged(seen, meta, shown) =
        [p \in Clis |-> IF p \in seen THEN Q!Fallback(p, meta, shown[p]) ELSE shown[p]]
  BY DEF Q!Merged
<1> QED
  BY <1>1, <1>2

\* An answer that failed leaves its provider without a live value, and one that
\* worked touches no other.
LEMMA FoldedIsHonest ==
  ASSUME NEW seen, NEW meta \in [Clis -> Q!Logs],
         NEW shown \in [Clis -> Q!Snapshot], NEW a \in Q!Answer
  PROVE  /\ Q!Folded(seen, meta, shown, a) \in [Clis -> Q!Snapshot]
         /\ \A p \in Clis : Q!Folded(seen, meta, shown, a)[p].source = "live" =>
              IF p = a.provider THEN a.ok ELSE shown[p].source = "live"
<1> USE CliIsProbed, MonitoringAssumption
<1>1. a.provider \in Clis /\ a.ok \in BOOLEAN
  BY DEF Q!Answer
<1>2. CASE a.ok
  BY <1>1, <1>2 DEF Q!Folded, Q!Snapshot, Q!Live
<1>3. CASE ~a.ok /\ a.provider = "agy"
  BY <1>1, <1>3 DEF Q!Folded, Q!Snapshot, Q!Unavailable
<1>4. CASE ~a.ok /\ a.provider # "agy"
  <2> DEFINE before == [shown EXCEPT !.codex = Q!Nothing]
             fallen == Q!Merged(seen, meta, before)
  <2>1. a.provider = "codex"
    BY <1>1, <1>4
  <2>2. before \in [Clis -> Q!Snapshot] /\ before["codex"] = Q!Nothing
    BY <1>1, <2>1 DEF Q!Snapshot
  <2>3. /\ fallen \in [Clis -> Q!Snapshot]
        /\ \A p \in Clis : fallen[p].source = "live" => before[p].source = "live"
    BY <2>2, MergedIsNotLive
  <2>4. Q!Folded(seen, meta, shown, a) =
          [fallen EXCEPT !["codex"] = IF @ = Q!Nothing THEN Q!Unavailable ELSE @]
    BY <1>4 DEF Q!Folded
  <2> HIDE DEF fallen
  <2>5. Q!Unavailable \in Q!Snapshot /\ Q!Unavailable.source = "none"
        /\ Q!Nothing.source = "absent"
    BY DEF Q!Snapshot, Q!Unavailable, Q!Nothing
  <2> QED
    BY <1>1, <2>1, <2>2, <2>3, <2>4, <2>5
<1> QED
  BY <1>2, <1>3, <1>4

\* A set of numbers has a least one.
LEMMA LeastExists ==
  ASSUME NEW N, N \subseteq Nat, N # {}
  PROVE  \E n \in N : \A m \in N : n <= m
<1> DEFINE R == OpToRel(<, Nat)
<1>1. PICK n \in N : \A m \in N : ~(<<m, n>> \in R)
  <2>1. IsWellFoundedOn(R, Nat)
    BY NatLessThanWellFounded
  <2> HIDE DEF R
  <2> QED
    BY <2>1, WFMin
<1>2. \A m \in N : ~(m < n)
  BY <1>1 DEF OpToRel
<1> QED
  BY <1>2

\* What is shown after each of the first answers, as AllFolded goes through them.
Answered(seen, meta, merged, most, shown) ==
  [n \in 0 .. most |-> IF n = 0 THEN merged
                       ELSE Q!Folded(seen, meta, shown[n - 1], finished[n])]

\* What AllFolded goes through is defined for every number of answers.
LEMMA AnsweredExists ==
  ASSUME NEW seen, NEW meta, NEW merged, NEW most \in Nat
  PROVE  \E f : f = Answered(seen, meta, merged, most, f)
<1> DEFINE Step(g, n) == Q!Folded(seen, meta, g, finished[n])
           Goes(m) == \E f : f = [n \in 0 .. m |-> IF n = 0 THEN merged
                                                   ELSE Step(f[n - 1], n)]
           N == {m \in 0 .. most : ~Goes(m)}
<1> HIDE DEF Step
<1>1. Goes(0)
  <2> DEFINE f == [n \in 0 .. 0 |-> merged]
  <2>1. f = [n \in 0 .. 0 |-> IF n = 0 THEN merged ELSE Step(f[n - 1], n)]
    OBVIOUS
  <2> QED
    BY <2>1
<1>2. ASSUME NEW m \in Nat, Goes(m) PROVE Goes(m + 1)
  <2>1. PICK f : f = [n \in 0 .. m |-> IF n = 0 THEN merged ELSE Step(f[n - 1], n)]
    BY <1>2
  <2> DEFINE g == [n \in 0 .. m + 1 |-> IF n <= m THEN f[n] ELSE Step(f[m], n)]
  <2>2. ASSUME NEW n \in 0 .. m + 1
        PROVE  g[n] = IF n = 0 THEN merged ELSE Step(g[n - 1], n)
    <3>1. CASE n = 0
      BY <2>1, <3>1
    <3>2. CASE n \in 1 .. m
      <4>1. n - 1 \in 0 .. m /\ n \in 0 .. m /\ n # 0
        BY <3>2
      <4> QED
        BY <2>1, <4>1
    <3>3. CASE n = m + 1
      <4>1. n - 1 = m /\ n # 0 /\ ~(n <= m) /\ m \in 0 .. m + 1
        BY <3>3
      <4> QED
        BY <4>1
    <3> QED
      BY <3>1, <3>2, <3>3
  <2>3. g = [n \in 0 .. m + 1 |-> IF n = 0 THEN merged ELSE Step(g[n - 1], n)]
    BY <2>2
  <2> QED
    BY <2>3
<1> HIDE DEF Goes
<1>3. CASE N # {}
  <2>1. PICK m \in N : \A k \in N : m <= k
    <3>1. N \subseteq Nat
      OBVIOUS
    <3> HIDE DEF N
    <3> QED
      BY <1>3, <3>1, LeastExists
  <2>2. m # 0 /\ m \in Nat
    BY <1>1
  <2>3. m - 1 \in Nat /\ m - 1 \in 0 .. most /\ ~(m <= m - 1) /\ m = (m - 1) + 1
    BY <2>2
  <2>4. Goes(m - 1)
    BY <2>1, <2>3
  <2> QED
    BY <1>2, <2>3, <2>4
<1>4. CASE N = {}
  <2>1. Goes(most)
    BY <1>4
  <2> QED
    BY <2>1 DEF Goes, Step, Answered
<1> QED
  BY <1>3, <1>4

\* The last of the first n answers of p worked, or there is none and the last
\* that was folded in before did.
WorkedLast(n, p) ==
  \/ \E i \in 1 .. n : /\ finished[i].provider = p /\ finished[i].ok
                       /\ \A j \in 1 .. n : finished[j].provider = p => j <= i
  \/ latest[p].ok /\ \A j \in 1 .. n : finished[j].provider # p

Honest(shown, n) ==
  /\ shown \in [Clis -> Q!Snapshot]
  /\ \A p \in Clis : shown[p].source = "live" => WorkedLast(n, p)

\* However many answers are folded in, what is shown as live worked last.
LEMMA AnsweredIsHonest ==
  ASSUME NEW seen, NEW meta \in [Clis -> Q!Logs], NEW merged, Honest(merged, 0),
         finished \in Seq(Q!Answer), NEW f,
         f = Answered(seen, meta, merged, Len(finished), f)
  PROVE  Honest(f[Len(finished)], Len(finished))
<1> DEFINE N == {n \in 0 .. Len(finished) : ~Honest(f[n], n)}
<1>1. Len(finished) \in Nat
  OBVIOUS
<1>2. ~Honest(f[0], 0) => FALSE
  BY <1>1 DEF Answered
<1>3. ASSUME NEW n \in 1 .. Len(finished), Honest(f[n - 1], n - 1) PROVE Honest(f[n], n)
  <2> DEFINE a == finished[n]
  <2>1. n - 1 \in Nat /\ n \in Nat /\ n # 0 /\ n \in 0 .. Len(finished) /\ a \in Q!Answer
    BY <1>1
  <2>2. f[n] = Q!Folded(seen, meta, f[n - 1], a)
    BY <2>1 DEF Answered
  <2>3. /\ f[n] \in [Clis -> Q!Snapshot]
        /\ \A p \in Clis : f[n][p].source = "live" =>
             IF p = a.provider THEN a.ok ELSE f[n - 1][p].source = "live"
    <3>1. f[n - 1] \in [Clis -> Q!Snapshot]
      BY <1>3 DEF Honest
    <3> DEFINE b == f[n - 1]
    <3> HIDE DEF a, b
    <3>2. /\ Q!Folded(seen, meta, b, a) \in [Clis -> Q!Snapshot]
          /\ \A p \in Clis : Q!Folded(seen, meta, b, a)[p].source = "live" =>
               IF p = a.provider THEN a.ok ELSE b[p].source = "live"
      <4>1. b \in [Clis -> Q!Snapshot] /\ a \in Q!Answer
        BY <2>1, <3>1 DEF b
      <4>2. \A x \in [Clis -> Q!Snapshot], y \in Q!Answer :
              /\ Q!Folded(seen, meta, x, y) \in [Clis -> Q!Snapshot]
              /\ \A p \in Clis : Q!Folded(seen, meta, x, y)[p].source = "live" =>
                   IF p = y.provider THEN y.ok ELSE x[p].source = "live"
        BY FoldedIsHonest
      <4> QED
        BY <4>1, <4>2
    <3>3. f[n] = Q!Folded(seen, meta, b, a)
      BY <2>2 DEF b
    <3> QED
      BY <3>2, <3>3 DEF b
  <2>4. ASSUME NEW p \in Clis, f[n][p].source = "live" PROVE WorkedLast(n, p)
    <3>1. CASE p = a.provider
      BY <2>1, <2>3, <2>4, <3>1 DEF WorkedLast
    <3>2. CASE p # a.provider
      <4>1. WorkedLast(n - 1, p)
        BY <1>3, <2>3, <2>4, <3>2 DEF Honest
      <4>2. \A j \in 1 .. n : j \in 1 .. n - 1 \/ finished[j].provider # p
        BY <2>1, <3>2
      <4>3. \A j \in 1 .. n - 1 : j \in 1 .. n
        BY <2>1
      <4> QED
        BY <4>1, <4>2, <4>3 DEF WorkedLast
    <3> QED
      BY <3>1, <3>2
  <2> QED
    BY <2>3, <2>4 DEF Honest
<1>4. ASSUME N # {} PROVE FALSE
  <2>1. PICK m \in N : \A k \in N : m <= k
    <3>1. N \subseteq Nat
      BY <1>1
    <3> HIDE DEF N
    <3> QED
      BY <1>4, <3>1, LeastExists
  <2>2. m # 0 /\ m \in 0 .. Len(finished)
    BY <1>2
  <2>3. m - 1 \in 0 .. Len(finished) /\ ~(m <= m - 1) /\ m \in 1 .. Len(finished)
    BY <1>1, <2>2
  <2>4. Honest(f[m - 1], m - 1)
    BY <2>1, <2>3
  <2> QED
    BY <1>3, <2>1, <2>3, <2>4
<1> QED
  BY <1>1, <1>4

\* What is shown after all answers is live only where the last worked.
LEMMA AllFoldedIsHonest ==
  ASSUME NEW seen, NEW meta \in [Clis -> Q!Logs], NEW merged, Honest(merged, 0),
         finished \in Seq(Q!Answer)
  PROVE  Honest(Q!AllFolded(seen, meta, merged), Len(finished))
<1> DEFINE f == CHOOSE shown : shown = Answered(seen, meta, merged, Len(finished), shown)
<1>1. f = Answered(seen, meta, merged, Len(finished), f)
  <2>1. Len(finished) \in Nat
    OBVIOUS
  <2> QED
    BY <2>1, AnsweredExists
<1>2. Q!AllFolded(seen, meta, merged) = f[Len(finished)]
  BY Zenon DEF Q!AllFolded, Answered
<1> HIDE DEF f
<1> QED
  BY <1>1, <1>2, AnsweredIsHonest

Forward == \A p \in DOMAIN latest : latest'[p].gen >= latest[p].gen

\* A tick that folds in all answers: each is at least as new as the one before.
LEMMA CollectsStep ==
  ASSUME ProbesInv, NEW seen \in SUBSET Clis, NEW how \in {"skipped", "failed", "done"},
         NEW meta \in [Clis -> Q!Logs], Q!Collects(seen, how, meta)
  PROVE  ProbesInv' /\ Forward
<1> USE CliIsProbed DEF ProbesInv
<1> DEFINE merged == IF how = "skipped" THEN quotas ELSE Q!Merged(seen, meta, quotas)
           told(p) == {i \in 1 .. Len(finished) : finished[i].provider = p}
           best(p) == CHOOSE i \in told(p) : \A j \in told(p) : j <= i
<1>1. /\ finished \in Seq(Q!Answer) /\ Len(finished) \in Nat
      /\ DOMAIN finished = 1 .. Len(finished)
      /\ \A i \in 1 .. Len(finished) :
           /\ finished[i].provider \in Clis /\ finished[i].ok \in BOOLEAN
           /\ finished[i].gen \in 0 .. MaxProbes
      /\ MaxProbes \in Nat
  <2>1. finished \in Seq(Q!Answer) /\ MaxProbes \in Nat
    BY MonitoringAssumption DEF Q!TypeOK, Q!QuotaAssumption
  <2>2. \A i \in 1 .. Len(finished) : finished[i] \in Q!Answer
    BY <2>1
  <2> QED
    BY <2>1, <2>2 DEF Q!Answer
<1>2. Honest(merged, 0)
  <2>1. quotas \in [Clis -> Q!Snapshot] /\ \A p \in Clis : quotas[p].source = "live" => latest[p].ok
    BY DEF Q!TypeOK, Q!LiveMeansLastReadWorked
  <2>2. /\ merged \in [Clis -> Q!Snapshot]
        /\ \A p \in Clis : merged[p].source = "live" => quotas[p].source = "live"
    BY <2>1, MergedIsNotLive
  <2> HIDE DEF merged
  <2> QED
    BY <2>1, <2>2 DEF Honest, WorkedLast
<1>3. Honest(quotas', Len(finished))
  <2>1. quotas' = Q!AllFolded(seen, meta, merged)
    BY DEF Q!Collects
  <2> HIDE DEF merged
  <2> QED
    BY <1>1, <1>2, <2>1, AllFoldedIsHonest
<1>4. ASSUME NEW p \in Clis, told(p) # {}
      PROVE  best(p) \in told(p) /\ \A j \in told(p) : j <= best(p)
  <2>1. \E i \in told(p) : \A j \in told(p) : j <= i
    <3> DEFINE N == {Len(finished) - i : i \in told(p)}
    <3>1. N \subseteq Nat /\ N # {}
      BY <1>1, <1>4
    <3>2. PICK n \in N : \A m \in N : n <= m
      <4> HIDE DEF N
      <4> QED
        BY <3>1, LeastExists
    <3>3. PICK i \in told(p) : n = Len(finished) - i
      BY <3>2
    <3>4. \A j \in told(p) : Len(finished) - i <= Len(finished) - j
      BY <3>2, <3>3
    <3> QED
      BY <1>1, <3>4
  <2> HIDE DEF told
  <2> QED
    BY <2>1
<1>5. ASSUME NEW p \in Clis
      PROVE  /\ told(p) = {} => latest'[p] = latest[p]
             /\ told(p) # {} => latest'[p] = [ok |-> finished[best(p)].ok,
                                              gen |-> finished[best(p)].gen]
  <2>1. latest' = [q \in Clis |-> Q!LastAnswer(q)]
    BY DEF Q!Collects
  <2> QED
    BY <1>1, <2>1 DEF Q!LastAnswer
<1> HIDE DEF best
<1>6. ASSUME NEW p \in Clis
      PROVE  /\ latest'[p] \in [ok : BOOLEAN, gen : 0 .. MaxProbes]
             /\ latest'[p].gen >= latest[p].gen /\ latest'[p].gen <= begun[p]
  <2>0. latest[p] \in [ok : BOOLEAN, gen : 0 .. MaxProbes] /\ latest[p].gen <= begun[p]
    BY DEF Q!TypeOK, AnswersSorted
  <2>1. CASE told(p) = {}
    <3>1. latest'[p] = latest[p]
      BY <1>5, <2>1
    <3> QED
      BY <1>1, <2>0, <3>1
  <2>2. CASE told(p) # {}
    <3>1. best(p) \in 1 .. Len(finished) /\ finished[best(p)].provider = p
      BY <1>4, <2>2
    <3>2. latest'[p] = [ok |-> finished[best(p)].ok, gen |-> finished[best(p)].gen]
      BY <1>5, <2>2
    <3> HIDE DEF told
    <3>3. latest[p].gen <= finished[best(p)].gen /\ finished[best(p)].gen <= begun[p]
      BY <3>1 DEF AnswersSorted
    <3> QED
      BY <1>1, <2>0, <3>1, <3>2, <3>3
  <2> QED
    BY <2>1, <2>2
<1>7. /\ finished' = <<>> /\ UNCHANGED <<age, probeThreads, inFlight, begun>>
      /\ present' = seen /\ scanned' = seen /\ metadata' = meta
      /\ forced' = forced \cup requested /\ requested' = {} /\ todo' = seen \cap Clis
  BY DEF Q!Collects, Q!TakesRequests
<1>8. latest' \in [Clis -> [ok : BOOLEAN, gen : 0 .. MaxProbes]]
  <2>1. latest' = [q \in Clis |-> Q!LastAnswer(q)]
    BY DEF Q!Collects
  <2>2. \A p \in Clis : latest'[p] \in [ok : BOOLEAN, gen : 0 .. MaxProbes]
    BY <1>6
  <2>3. \A p \in Clis : Q!LastAnswer(p) \in [ok : BOOLEAN, gen : 0 .. MaxProbes]
    BY <2>1, <2>2
  <2> QED
    BY <2>1, <2>3
<1>9. Q!TypeOK'
  <2>1. quotas' \in [Clis -> Q!Snapshot]
    BY <1>3 DEF Honest
  <2> QED
    BY <1>7, <1>8, <2>1 DEF Q!TypeOK, Q!Snapshot, Q!Answer, Q!Logs
<1>10. OutIsNewest'
  BY <1>7 DEF OutIsNewest
<1>11. AnswersSorted'
  BY <1>6, <1>7 DEF AnswersSorted
<1>12. Q!LiveMeansLastReadWorked'
  <2> SUFFICES ASSUME NEW p \in Clis, quotas'[p].source = "live" PROVE latest'[p].ok
    BY DEF Q!LiveMeansLastReadWorked
  <2>1. WorkedLast(Len(finished), p)
    BY <1>3 DEF Honest
  <2>2. CASE told(p) = {}
    BY <1>5, <2>1, <2>2 DEF WorkedLast
  <2>3. CASE told(p) # {}
    <3>1. PICK i \in told(p) : finished[i].ok /\ \A j \in told(p) : j <= i
      BY <2>1, <2>3 DEF WorkedLast
    <3>2. best(p) = i
      BY <1>4, <2>3, <3>1
    <3>3. latest'[p] = [ok |-> finished[best(p)].ok, gen |-> finished[best(p)].gen]
      BY <1>5, <2>3
    <3> QED
      BY <3>1, <3>2, <3>3
  <2> QED
    BY <2>2, <2>3
<1>13. Forward
  BY <1>6 DEF Forward, Q!TypeOK
<1> QED
  BY <1>9, <1>10, <1>11, <1>12, <1>13

\* A decision whether to probe: another probe starts only when none is out.
LEMMA ProbeStep ==
  ASSUME ProbesInv, NEW p \in Clis, Q!Probe(p)
  PROVE  ProbesInv' /\ latest' = latest
<1> USE CliIsProbed DEF ProbesInv
<1>1. UNCHANGED <<present, scanned, metadata, quotas, requested, finished, latest>>
  BY DEF Q!Probe
<1>2. /\ MaxProbes \in Nat /\ begun \in [Clis -> 0 .. MaxProbes]
      /\ todo' = todo \ {p} /\ forced' = forced \ {p} /\ age' = [age EXCEPT ![p] = "fresh"]
  BY MonitoringAssumption DEF Q!TypeOK, Q!QuotaAssumption, Q!Probe
<1>3. CASE p \in inFlight
  <2>1. UNCHANGED <<begun, probeThreads, inFlight>>
    BY <1>3 DEF Q!Probe
  <2>2. Q!TypeOK'
    BY <1>1, <1>2, <2>1 DEF Q!TypeOK, Q!Answer, Q!Snapshot, Q!Logs
  <2> QED
    BY <1>1, <2>1, <2>2 DEF OutIsNewest, AnswersSorted, Q!LiveMeansLastReadWorked
<1>4. CASE p \notin inFlight
  <2> DEFINE t == [provider |-> p, gen |-> begun'[p], at |-> "asking"]
  <2>1. /\ begun' = [begun EXCEPT ![p] = IF @ < MaxProbes THEN @ + 1 ELSE @]
        /\ probeThreads' = probeThreads \cup {t}
        /\ inFlight' = inFlight \cup {p}
    BY <1>4 DEF Q!Probe
  <2>2. /\ begun' \in [Clis -> 0 .. MaxProbes] /\ begun'[p] >= begun[p]
        /\ \A q \in Clis : q # p => begun'[q] = begun[q]
    BY <1>2, <2>1
  <2>3. Q!TypeOK'
    <3>1. probeThreads' \subseteq [provider : Clis, gen : 0 .. MaxProbes, at : {"asking", "told"}]
      BY <2>1, <2>2 DEF Q!TypeOK
    <3> QED
      BY <1>1, <1>2, <2>1, <2>2, <3>1 DEF Q!TypeOK, Q!Answer, Q!Snapshot, Q!Logs
  <2>4. OutIsNewest'
    <3>1. \A u \in probeThreads : u.provider \in Clis /\ u.provider # p
      BY <1>4 DEF OutIsNewest, Q!TypeOK
    <3>2. t.provider = p /\ t.gen = begun'[p]
      OBVIOUS
    <3> HIDE DEF t
    <3> QED
      BY <2>1, <2>2, <3>1, <3>2 DEF OutIsNewest
  <2>5. AnswersSorted'
    <3>1. \A i \in 1 .. Len(finished) :
            finished[i].provider \in Clis /\ finished[i].gen \in Nat
      <4>1. \A i \in 1 .. Len(finished) : finished[i] \in Q!Answer
        BY DEF Q!TypeOK
      <4> QED
        BY <1>2, <4>1 DEF Q!Answer
    <3>2. ASSUME NEW q \in Clis
          PROVE  latest[q].gen \in Nat /\ begun[q] \in Nat /\ begun'[q] \in Nat
      <4>1. latest[q] \in [ok : BOOLEAN, gen : 0 .. MaxProbes]
        BY DEF Q!TypeOK
      <4> QED
        BY <1>2, <2>2, <4>1
    <3>3. \A q \in Clis : begun[q] <= begun'[q]
      BY <2>2, <3>2
    <3>4. \A q \in Clis : latest[q].gen <= begun'[q]
      BY <3>2, <3>3 DEF AnswersSorted
    <3>5. \A i \in 1 .. Len(finished) : finished[i].gen <= begun'[finished[i].provider]
      BY <3>1, <3>2, <3>3 DEF AnswersSorted
    <3> QED
      BY <1>1, <3>4, <3>5 DEF AnswersSorted
  <2> QED
    BY <1>1, <2>3, <2>4, <2>5 DEF Q!LiveMeansLastReadWorked
<1> QED
  BY <1>1, <1>3, <1>4

\* An answer that is told: it is newer than what waits from its provider.
LEMMA TellsStep ==
  ASSUME ProbesInv, NEW t \in probeThreads, NEW ok \in BOOLEAN, Q!Tells(t, ok)
  PROVE  ProbesInv' /\ latest' = latest
<1> USE CliIsProbed DEF ProbesInv
<1> DEFINE a == [provider |-> t.provider, ok |-> ok, gen |-> t.gen]
           told == [t EXCEPT !.at = "told"]
           n == Len(finished)
<1>1. UNCHANGED <<present, todo, scanned, metadata, quotas, age, forced, requested,
                  inFlight, begun, latest>>
  BY DEF Q!Tells
<1>2. /\ t \in [provider : Clis, gen : 0 .. MaxProbes, at : {"asking", "told"}]
      /\ t.provider \in Clis /\ a \in Q!Answer
      /\ told.provider = t.provider /\ told.gen = t.gen
      /\ told \in [provider : Clis, gen : 0 .. MaxProbes, at : {"asking", "told"}]
  BY DEF Q!TypeOK, Q!Answer
<1>3. /\ finished \in Seq(Q!Answer) /\ n \in Nat
      /\ finished' = Append(finished, a)
      /\ probeThreads' = (probeThreads \ {t}) \cup {told}
  BY DEF Q!Tells, Q!TypeOK
<1> HIDE DEF told
<1>4. /\ finished' \in Seq(Q!Answer) /\ Len(finished') = n + 1
      /\ finished'[n + 1] = a
      /\ \A i \in 1 .. n : finished'[i] = finished[i]
  BY <1>2, <1>3
<1>5. Q!TypeOK'
  <2>1. probeThreads' \subseteq [provider : Clis, gen : 0 .. MaxProbes, at : {"asking", "told"}]
    BY <1>2, <1>3 DEF Q!TypeOK
  <2> QED
    BY <1>1, <1>4, <2>1 DEF Q!TypeOK, Q!Answer, Q!Snapshot, Q!Logs
<1>6. OutIsNewest'
  BY <1>1, <1>2, <1>3 DEF OutIsNewest
<1>7. AnswersSorted'
  <2>1. /\ a.provider = t.provider /\ a.gen = begun[a.provider]
        /\ begun[a.provider] \in Nat /\ latest[a.provider].gen <= a.gen
    <3>1. a.provider = t.provider /\ a.gen = t.gen
      OBVIOUS
    <3>2. t.gen = begun[t.provider]
      BY DEF OutIsNewest
    <3>3. begun[t.provider] \in Nat
      <4>1. MaxProbes \in Nat
        BY MonitoringAssumption DEF Q!QuotaAssumption
      <4>2. begun \in [Clis -> 0 .. MaxProbes]
        BY DEF Q!TypeOK
      <4> QED
        BY <1>2, <4>1, <4>2
    <3>4. latest[t.provider].gen <= begun[t.provider]
      BY <1>2 DEF AnswersSorted
    <3> HIDE DEF a
    <3> QED
      BY <3>1, <3>2, <3>3, <3>4
  <2>2. \A i \in 1 .. n : finished[i].provider = a.provider => finished[i].gen <= a.gen
    BY <2>1 DEF AnswersSorted
  <2> HIDE DEF a
  <2>3. ASSUME NEW i \in 1 .. n + 1
        PROVE  /\ latest[finished'[i].provider].gen <= finished'[i].gen
               /\ finished'[i].gen <= begun[finished'[i].provider]
               /\ \A j \in 1 .. i : finished'[j].provider = finished'[i].provider =>
                                      finished'[j].gen <= finished'[i].gen
    <3>1. CASE i \in 1 .. n
      <4>1. \A j \in 1 .. i : j \in 1 .. n
        BY <1>3, <3>1
      <4> QED
        BY <1>4, <3>1, <4>1 DEF AnswersSorted
    <3>2. CASE i = n + 1
      <4>1. \A j \in 1 .. i : j \in 1 .. n \/ j = n + 1
        BY <1>3, <3>2
      <4> QED
        BY <1>4, <2>1, <2>2, <3>2, <4>1
    <3> QED
      BY <1>3, <3>1, <3>2
  <2>4. \A p \in Clis : latest[p].gen <= begun[p]
    BY DEF AnswersSorted
  <2> QED
    BY <1>1, <1>4, <2>3, <2>4 DEF AnswersSorted
<1> QED
  BY <1>1, <1>5, <1>6, <1>7 DEF Q!LiveMeansLastReadWorked

\* Every step of the quotas keeps their invariant and goes forward.
LEMMA ProbesStep ==
  ASSUME ProbesInv, [Q!Next]_quotaVars
  PROVE  ProbesInv' /\ [Forward]_latest
<1> USE CliIsProbed DEF ProbesInv
<1>1. CASE UNCHANGED quotaVars
  BY <1>1 DEF quotaVars, Q!TypeOK, Q!Answer, Q!Snapshot, Q!Logs, OutIsNewest, AnswersSorted,
              Q!LiveMeansLastReadWorked
<1>2. CASE Q!NoAgents
  <2>1. Q!TypeOK'
    BY <1>2 DEF Q!NoAgents, Q!TakesRequests, Q!TypeOK, Q!Answer, Q!Snapshot, Q!Logs
  <2> QED
    BY <1>2, <2>1 DEF Q!NoAgents, OutIsNewest, AnswersSorted, Q!LiveMeansLastReadWorked
<1>3. ASSUME NEW seen \in SUBSET Clis, NEW how \in {"skipped", "failed", "done"},
             NEW meta \in [Clis -> Q!Logs], Q!Collects(seen, how, meta)
      PROVE  ProbesInv' /\ Forward
  BY <1>3, CollectsStep
<1>4. ASSUME NEW p \in Clis, Q!NotDue(p) PROVE ProbesInv' /\ latest' = latest
  <2>1. Q!TypeOK'
    BY <1>4 DEF Q!NotDue, Q!TypeOK, Q!Answer, Q!Snapshot, Q!Logs
  <2> QED
    BY <1>4, <2>1 DEF Q!NotDue, OutIsNewest, AnswersSorted, Q!LiveMeansLastReadWorked
<1>5. ASSUME NEW p \in Clis, Q!Probe(p) PROVE ProbesInv' /\ latest' = latest
  BY <1>5, ProbeStep
<1>6. ASSUME NEW t \in probeThreads, NEW ok \in BOOLEAN, Q!Tells(t, ok)
      PROVE  ProbesInv' /\ latest' = latest
  BY <1>6, TellsStep
<1>7. ASSUME NEW t \in probeThreads, Q!Frees(t) PROVE ProbesInv' /\ latest' = latest
  <2>1. Q!TypeOK'
    BY <1>7 DEF Q!Frees, Q!TypeOK, Q!Answer, Q!Snapshot, Q!Logs
  <2>2. OutIsNewest'
    BY <1>7 DEF Q!Frees, OutIsNewest
  <2> QED
    BY <1>7, <2>1, <2>2 DEF Q!Frees, AnswersSorted, Q!LiveMeansLastReadWorked
<1>8. ASSUME NEW p \in Clis, Q!Request(p) PROVE ProbesInv' /\ latest' = latest
  <2>1. Q!TypeOK'
    BY <1>8 DEF Q!Request, Q!TypeOK, Q!Answer, Q!Snapshot, Q!Logs
  <2> QED
    BY <1>8, <2>1 DEF Q!Request, OutIsNewest, AnswersSorted, Q!LiveMeansLastReadWorked
<1>9. ASSUME NEW p \in Clis, Q!IntervalPasses(p) PROVE ProbesInv' /\ latest' = latest
  <2>1. Q!TypeOK'
    BY <1>9 DEF Q!IntervalPasses, Q!TypeOK, Q!Answer, Q!Snapshot, Q!Logs
  <2> QED
    BY <1>9, <2>1 DEF Q!IntervalPasses, OutIsNewest, AnswersSorted, Q!LiveMeansLastReadWorked
<1> QED
  BY <1>1, <1>2, <1>3, <1>4, <1>5, <1>6, <1>7, <1>8, <1>9 DEF Q!Next, Q!Tick, Q!Thread

\* Two threads that ask for one provider are one.
LEMMA OneAsks == ProbesInv => Q!OneProbeEach
<1> SUFFICES ASSUME ProbesInv, NEW p \in Clis
             PROVE  Q!Cardinality({t \in probeThreads : t.provider = p /\ t.at = "asking"}) <= 1
  BY CliIsProbed DEF Q!OneProbeEach
<1> DEFINE T == {t \in probeThreads : t.provider = p /\ t.at = "asking"}
<1>1. \A t, u \in T : t = u
  BY DEF ProbesInv, OutIsNewest
<1>2. Cardinality(T) <= 1
  <2> HIDE DEF T
  <2>1. CASE T = {}
    BY <2>1, FS_EmptySet
  <2>2. CASE T # {}
    <3>1. PICK t \in T : TRUE
      BY <2>2
    <3>2. T = {t}
      BY <1>1, <3>1
    <3>3. Cardinality({t}) = 1
      BY FS_Singleton
    <3> QED
      BY <3>2, <3>3
  <2> QED
    BY <2>1, <2>2
<1>3. Q!Cardinality(T) = Cardinality(T)
  BY Zenon DEF Q!Cardinality, Cardinality
<1> QED
  BY <1>2, <1>3

-----------------------------------------------------------------------------
(* Quotas of Claude, which is only read from logs.                         *)

ClaudeInv ==
  /\ finished = <<>> /\ probeThreads = {} /\ DOMAIN latest = {}
  /\ metadata \in [{"claude"} -> C!Logs] /\ quotas \in [{"claude"} -> C!Snapshot]

NeverOlder ==
  \A p \in DOMAIN quotas \cap {"claude"} :
    quotas[p].source = "log" => quotas'[p].source = "log" /\ quotas'[p].at >= quotas[p].at

\* Nothing of Claude is probed.
LEMMA NoneIsProbed == C!Probed = {}
BY DEF C!Probed

\* The quotas of Claude start in their invariant.
LEMMA ClaudeInit == C!Init => ClaudeInv
BY NoneIsProbed
   DEF C!Init, ClaudeInv, C!Logs, C!Absent, C!Log, C!Snapshot, C!Nothing

\* Limits from a log have a time.
LEMMA LogHasTime ==
  ASSUME NEW shown \in C!Snapshot, shown.source = "log"
  PROVE  shown.at \in Nat
<1>1. shown \in [source : {"log"}, at : Captures]
  <2>1. C!Nothing.source # "log" /\ C!Unavailable.source # "log" /\ C!Live.source # "log"
    BY DEF C!Nothing, C!Unavailable, C!Live
  <2> QED
    BY <2>1 DEF C!Snapshot
<1>2. Captures \subseteq Nat
  BY MonitoringAssumption DEF C!QuotaAssumption
<1> QED
  BY <1>1, <1>2

\* What Claude shows from its log is never replaced by something older.
LEMMA ClaudeFallback ==
  ASSUME NEW meta \in [{"claude"} -> C!Logs], NEW shown \in C!Snapshot
  PROVE  /\ C!Fallback("claude", meta, shown) \in C!Snapshot
         /\ shown.source = "log" =>
              /\ C!Fallback("claude", meta, shown).source = "log"
              /\ C!Fallback("claude", meta, shown).at >= shown.at
<1>1. Captures \subseteq Nat
  BY MonitoringAssumption DEF C!QuotaAssumption
<1>2. /\ C!Nothing.source = "absent" /\ C!Unavailable \in C!Snapshot
      /\ shown.source = "log" => shown.at \in Nat /\ shown # C!Nothing
  <2>1. C!Nothing.source = "absent" /\ C!Unavailable \in C!Snapshot
    BY DEF C!Nothing, C!Unavailable, C!Snapshot
  <2> QED
    BY <1>1, <2>1, LogHasTime
<1>3. CASE meta["claude"] = C!Absent \/ meta["claude"] = C!Bare
  BY <1>2, <1>3 DEF C!Fallback
<1>4. CASE meta["claude"] # C!Absent /\ meta["claude"] # C!Bare
  <2>1. C!Fallback("claude", meta, shown) = C!FromLog("claude", meta, shown)
    BY <1>4 DEF C!Fallback
  <2>2. meta["claude"].at \in Captures
    BY <1>4 DEF C!Logs, C!Log
  <2>3. [source |-> "log", at |-> meta["claude"].at] \in C!Snapshot
    BY <2>2 DEF C!Snapshot
  <2> QED
    BY <1>1, <1>2, <2>1, <2>2, <2>3 DEF C!FromLog
<1> QED
  BY <1>3, <1>4

\* Without answers nothing is folded in.
LEMMA NothingFolded ==
  ASSUME NEW seen, NEW meta, NEW merged, finished = <<>>
  PROVE  C!AllFolded(seen, meta, merged) = merged
<1> DEFINE Through(f) == [n \in 0 .. Len(finished) |->
                            IF n = 0 THEN merged
                            ELSE C!Folded(seen, meta, f[n - 1], finished[n])]
           f0 == CHOOSE f : f = Through(f)
<1>1. Len(finished) = 0 /\ 0 \in 0 .. Len(finished)
  OBVIOUS
<1>2. f0 = Through(f0)
  <2> DEFINE g == [n \in 0 .. Len(finished) |-> merged]
  <2>1. g = Through(g)
    BY <1>1
  <2> HIDE DEF g, Through
  <2> QED
    BY <2>1
<1>3. C!AllFolded(seen, meta, merged) = f0[Len(finished)]
  BY Zenon DEF C!AllFolded
<1> HIDE DEF f0
<1>4. f0[0] = merged
  BY <1>1, <1>2
<1> QED
  BY <1>1, <1>3, <1>4

\* Every step keeps what Claude shows at least as new.
LEMMA ClaudeStep ==
  ASSUME ClaudeInv, [C!Next]_quotaVars
  PROVE  ClaudeInv' /\ [NeverOlder]_quotas
<1> USE NoneIsProbed DEF ClaudeInv
<1>1. CASE UNCHANGED quotaVars
  BY <1>1 DEF quotaVars, C!Logs, C!Snapshot
<1>2. CASE C!NoAgents
  BY <1>2 DEF C!NoAgents, C!Logs, C!Snapshot
<1>3. ASSUME NEW seen \in SUBSET {"claude"}, NEW how \in {"skipped", "failed", "done"},
             NEW meta \in [{"claude"} -> C!Logs], C!Collects(seen, how, meta)
      PROVE  ClaudeInv' /\ NeverOlder
  <2> DEFINE merged == IF how = "skipped" THEN quotas ELSE C!Merged(seen, meta, quotas)
  <2>1. quotas' = merged
    <3>1. quotas' = C!AllFolded(seen, meta, merged)
      BY <1>3 DEF C!Collects
    <3> HIDE DEF merged
    <3> QED
      BY <3>1, NothingFolded
  <2>2. quotas["claude"] \in C!Snapshot
    OBVIOUS
  <2>3. /\ C!Fallback("claude", meta, quotas["claude"]) \in C!Snapshot
        /\ quotas["claude"].source = "log" =>
             /\ C!Fallback("claude", meta, quotas["claude"]).source = "log"
             /\ C!Fallback("claude", meta, quotas["claude"]).at >= quotas["claude"].at
    BY <2>2, ClaudeFallback
  <2>4. quotas["claude"].source = "log" => quotas["claude"].at >= quotas["claude"].at
    BY <2>2, LogHasTime
  <2>5. merged \in [{"claude"} -> C!Snapshot] /\ NeverOlder
    BY <2>1, <2>2, <2>3, <2>4 DEF C!Merged, NeverOlder
  <2>6. /\ finished' = <<>> /\ probeThreads' = {} /\ DOMAIN latest' = {}
        /\ metadata' = meta
    BY <1>3 DEF C!Collects
  <2> QED
    BY <2>1, <2>5, <2>6 DEF C!Logs, C!Snapshot
<1> QED
  BY <1>1, <1>2, <1>3 DEF C!Next, C!Tick

-----------------------------------------------------------------------------
(* The quotas as part of the monitor.                                      *)

QuotasInv == IF part = "claude" THEN ClaudeInv ELSE ProbesInv

LEMMA QuotasAct ==
  [Next]_vars => /\ part' = part
                 /\ IF part = "claude" THEN [C!Next]_quotaVars ELSE [Q!Next]_quotaVars
BY Zenon DEF Next, vars, Rest

LEMMA QuotasInit == Init => QuotasInv
BY ProbesInit, ClaudeInit DEF Init, QuotasInv

LEMMA QuotasStep ==
  QuotasInv /\ [Next]_vars => QuotasInv' /\ [Forward]_latest /\ [NeverOlder]_quotas
<1> SUFFICES ASSUME QuotasInv, [Next]_vars
             PROVE  QuotasInv' /\ [Forward]_latest /\ [NeverOlder]_quotas
  OBVIOUS
<1>1. CASE part = "claude"
  <2>1. ClaudeInv' /\ [NeverOlder]_quotas
    BY <1>1, QuotasAct, ClaudeStep DEF QuotasInv
  <2>2. Forward
    BY <1>1 DEF QuotasInv, ClaudeInv, Forward
  <2> QED
    BY <1>1, <2>1, <2>2, QuotasAct DEF QuotasInv
<1>2. CASE part # "claude"
  <2>1. ProbesInv' /\ [Forward]_latest
    BY <1>2, QuotasAct, ProbesStep DEF QuotasInv
  <2>2. NeverOlder
    BY <1>2, MonitoringAssumption DEF QuotasInv, ProbesInv, Q!TypeOK, NeverOlder
  <2> QED
    BY <1>2, <2>1, <2>2, QuotasAct DEF QuotasInv
<1> QED
  BY <1>1, <1>2

\* Quotas never go back to an older read, one probe of a provider is out, and a
\* value passes for live only while the last read worked.
THEOREM QuotasAreCurrentAlways == Spec => QuotasAreCurrent
<1>1. Init => QuotasInv
  BY QuotasInit
<1>2. QuotasInv /\ [Next]_vars =>
        /\ QuotasInv'
        /\ [\A p \in DOMAIN latest : latest'[p].gen >= latest[p].gen]_latest
        /\ [\A p \in DOMAIN quotas \cap {"claude"} : quotas[p].source = "log" =>
              quotas'[p].source = "log" /\ quotas'[p].at >= quotas[p].at]_quotas
  BY QuotasStep DEF Forward, NeverOlder
<1>3. QuotasInv => (part = "probes" => Q!OneProbeEach /\ Q!LiveMeansLastReadWorked)
  BY OneAsks DEF QuotasInv, ProbesInv
<1> QED
  BY <1>1, <1>2, <1>3, PTL
     DEF Spec, QuotasAreCurrent, Q!AnswersInOrder, C!ClaudeNeverOlder

-----------------------------------------------------------------------------
(* Series: what is kept of them.                                           *)

\* What is kept of the first i points, as Kept goes through them.
Going(points, wanted, most, kept) ==
  [i \in 0 .. most |->
     IF i = 0 THEN <<>>
     ELSE IF points[i] \in wanted THEN Append(kept[i - 1], points[i]) ELSE kept[i - 1]]

\* For every series the function of Kept exists: without one there would be a
\* least number of points for which there is none.
LEMMA GoingExists ==
  ASSUME NEW points, NEW wanted, NEW most \in Nat
  PROVE  \E f : f = Going(points, wanted, most, f)
<1> DEFINE Step(s, i) == IF points[i] \in wanted THEN Append(s, points[i]) ELSE s
           Goes(m) == \E f : f = [i \in 0 .. m |-> IF i = 0 THEN <<>>
                                                   ELSE Step(f[i - 1], i)]
           N == {m \in 0 .. most : ~Goes(m)}
<1> HIDE DEF Step
<1>1. Goes(0)
  <2> DEFINE f == [i \in 0 .. 0 |-> <<>>]
  <2>1. f = [i \in 0 .. 0 |-> IF i = 0 THEN <<>> ELSE Step(f[i - 1], i)]
    OBVIOUS
  <2> QED
    BY <2>1
<1>2. ASSUME NEW m \in Nat, Goes(m) PROVE Goes(m + 1)
  <2>1. PICK f : f = [i \in 0 .. m |-> IF i = 0 THEN <<>> ELSE Step(f[i - 1], i)]
    BY <1>2
  <2> DEFINE g == [i \in 0 .. m + 1 |-> IF i <= m THEN f[i] ELSE Step(f[m], i)]
  <2>2. ASSUME NEW i \in 0 .. m + 1
        PROVE  g[i] = IF i = 0 THEN <<>> ELSE Step(g[i - 1], i)
    <3>1. CASE i = 0
      BY <2>1, <3>1
    <3>2. CASE i \in 1 .. m
      <4>1. i - 1 \in 0 .. m /\ i \in 0 .. m /\ i # 0
        BY <3>2
      <4> QED
        BY <2>1, <4>1
    <3>3. CASE i = m + 1
      <4>1. i - 1 = m /\ i # 0 /\ ~(i <= m) /\ m \in 0 .. m + 1
        BY <3>3
      <4> QED
        BY <4>1
    <3> QED
      BY <3>1, <3>2, <3>3
  <2>3. g = [i \in 0 .. m + 1 |-> IF i = 0 THEN <<>> ELSE Step(g[i - 1], i)]
    BY <2>2
  <2> QED
    BY <2>3
<1> HIDE DEF Goes
<1>3. CASE N # {}
  <2>1. PICK m \in N : \A k \in N : m <= k
    <3>1. N \subseteq Nat
      OBVIOUS
    <3> HIDE DEF N
    <3> QED
      BY <1>3, <3>1, LeastExists
  <2>2. m # 0 /\ m \in Nat
    BY <1>1
  <2>3. m - 1 \in Nat /\ m - 1 \in 0 .. most /\ ~(m <= m - 1) /\ m = (m - 1) + 1
    BY <2>2
  <2>4. Goes(m - 1)
    BY <2>1, <2>3
  <2> QED
    BY <1>2, <2>3, <2>4
<1>4. CASE N = {}
  <2>1. Goes(most)
    BY <1>4
  <2> QED
    BY <2>1 DEF Goes, Step, Going
<1> QED
  BY <1>3, <1>4

\* A series of some of the first i points, in their order.
PickedBy(g, sub, points, i) ==
  /\ g \in [1 .. Len(sub) -> 1 .. i]
  /\ \A a, b \in 1 .. Len(sub) : a < b => g[a] < g[b]
  /\ \A a \in 1 .. Len(sub) : sub[a] = points[g[a]]

KeptOf(sub, points, wanted, i) ==
  /\ \E g : PickedBy(g, sub, points, i)
  /\ \A a \in 1 .. Len(sub) : sub[a] \in wanted
  /\ \A j \in 1 .. i : points[j] \in wanted => \E a \in 1 .. Len(sub) : sub[a] = points[j]

\* The function of Kept gives the wanted points, in their order.
LEMMA GoingKeeps ==
  ASSUME NEW S, NEW points \in Seq(S), NEW wanted, NEW f,
         f = Going(points, wanted, Len(points), f)
  PROVE  /\ f[Len(points)] \in Seq(S)
         /\ KeptOf(f[Len(points)], points, wanted, Len(points))
<1> DEFINE Holds(i) == f[i] \in Seq(S) /\ KeptOf(f[i], points, wanted, i)
           N == {i \in 0 .. Len(points) : ~Holds(i)}
<1>1. Len(points) \in Nat
  OBVIOUS
<1>2. Holds(0)
  <2>1. f[0] = <<>>
    BY <1>1 DEF Going
  <2>2. f[0] \in Seq(S) /\ Len(f[0]) = 0
    BY <2>1
  <2>3. PickedBy([a \in 1 .. Len(f[0]) |-> 1], f[0], points, 0)
    BY <2>2 DEF PickedBy
  <2> QED
    BY <2>2, <2>3 DEF KeptOf
<1>3. ASSUME NEW i \in 1 .. Len(points), Holds(i - 1) PROVE Holds(i)
  <2> DEFINE s == f[i - 1]
  <2>1. i - 1 \in Nat /\ i # 0 /\ i \in 0 .. Len(points) /\ i \in Nat
    BY <1>1
  <2>2. f[i] = IF points[i] \in wanted THEN Append(s, points[i]) ELSE s
    BY <2>1 DEF Going
  <2>3. s \in Seq(S) /\ KeptOf(s, points, wanted, i - 1) /\ points[i] \in S
    BY <1>3
  <2> HIDE DEF s
  <2>4. PICK g : PickedBy(g, s, points, i - 1)
    BY <2>3 DEF KeptOf
  <2>5. \A j \in 1 .. i : j = i \/ j \in 1 .. i - 1
    BY <2>1
  <2>6. CASE points[i] \in wanted
    <3> DEFINE t == Append(s, points[i])
               h == [a \in 1 .. Len(t) |-> IF a <= Len(s) THEN g[a] ELSE i]
    <3>1. /\ t \in Seq(S) /\ Len(t) = Len(s) + 1 /\ Len(s) \in Nat
          /\ \A a \in 1 .. Len(s) : t[a] = s[a]
          /\ t[Len(t)] = points[i]
      BY <2>3
    <3> HIDE DEF t
    <3>2. \A a \in 1 .. Len(t) : a \in 1 .. Len(s) \/ (a = Len(t) /\ ~(a <= Len(s)))
      BY <3>1
    <3>3. PickedBy(h, t, points, i)
      <4>1. \A a \in 1 .. Len(s) : g[a] \in 1 .. i - 1 /\ h[a] = g[a]
        BY <2>4, <3>1 DEF PickedBy
      <4>2. h[Len(t)] = i
        BY <3>1
      <4>3. \A a \in 1 .. Len(t) : h[a] \in 1 .. i
        BY <4>1, <4>2, <3>2, <2>1
      <4>4. ASSUME NEW a \in 1 .. Len(t), NEW b \in 1 .. Len(t), a < b PROVE h[a] < h[b]
        <5>1. a \in 1 .. Len(s)
          BY <3>1, <4>4
        <5>2. CASE b \in 1 .. Len(s)
          BY <5>1, <5>2, <4>1, <4>4, <2>4 DEF PickedBy
        <5>3. CASE b = Len(t)
          <6>1. h[b] = i /\ g[a] \in 1 .. i - 1 /\ h[a] = g[a]
            BY <5>1, <5>3, <4>1, <4>2
          <6> HIDE DEF h
          <6> QED
            BY <6>1, <2>1
        <5> QED
          BY <3>2, <5>2, <5>3
      <4>5. \A a \in 1 .. Len(t) : t[a] = points[h[a]]
        BY <4>1, <4>2, <3>1, <3>2, <2>4 DEF PickedBy
      <4>6. h \in [1 .. Len(t) -> 1 .. i]
        BY <4>3
      <4> HIDE DEF h
      <4> QED
        BY <4>4, <4>5, <4>6 DEF PickedBy
    <3>4. \A a \in 1 .. Len(t) : t[a] \in wanted
      BY <3>1, <3>2, <2>3, <2>6 DEF KeptOf
    <3>5. ASSUME NEW j \in 1 .. i, points[j] \in wanted
          PROVE  \E a \in 1 .. Len(t) : t[a] = points[j]
      <4>1. CASE j = i
        <5>1. Len(t) \in 1 .. Len(t)
          BY <3>1
        <5> QED
          BY <4>1, <3>1, <5>1
      <4>2. CASE j \in 1 .. i - 1
        <5>1. PICK a \in 1 .. Len(s) : s[a] = points[j]
          BY <4>2, <3>5, <2>3 DEF KeptOf
        <5>2. a \in 1 .. Len(t)
          BY <3>1
        <5> QED
          BY <5>1, <5>2, <3>1
      <4> QED
        BY <4>1, <4>2, <2>5
    <3>6. f[i] = t
      BY <2>2, <2>6 DEF t
    <3> HIDE DEF h
    <3> QED
      BY <3>1, <3>3, <3>4, <3>5, <3>6 DEF KeptOf
  <2>7. CASE points[i] \notin wanted
    <3>1. f[i] = s
      BY <2>2, <2>7
    <3>2. PickedBy(g, s, points, i)
      BY <2>1, <2>4 DEF PickedBy
    <3> QED
      BY <3>1, <3>2, <2>3, <2>5, <2>7 DEF KeptOf
  <2> QED
    BY <2>6, <2>7
<1> HIDE DEF Holds
<1>4. ASSUME N # {} PROVE FALSE
  <2>1. PICK m \in N : \A k \in N : m <= k
    <3>1. N \subseteq Nat
      BY <1>1
    <3> HIDE DEF N
    <3> QED
      BY <1>4, <3>1, LeastExists
  <2>2. m # 0 /\ m \in 0 .. Len(points)
    BY <1>2
  <2>3. m - 1 \in 0 .. Len(points) /\ ~(m <= m - 1) /\ m \in 1 .. Len(points)
    BY <1>1, <2>2
  <2>4. Holds(m - 1)
    BY <2>1, <2>3
  <2> QED
    BY <1>3, <2>1, <2>3, <2>4
<1> QED
  BY <1>1, <1>4 DEF Holds

\* Kept, of either history, picks the wanted points of a series in their order.
LEMMA KeptFits ==
  ASSUME NEW S, NEW points \in Seq(S), NEW wanted
  PROVE  /\ U!Kept(points, wanted) \in Seq(S)
         /\ KeptOf(U!Kept(points, wanted), points, wanted, Len(points))
         /\ H!Kept(points, wanted) = U!Kept(points, wanted)
<1> DEFINE f == CHOOSE kept : kept = Going(points, wanted, Len(points), kept)
<1>1. f = Going(points, wanted, Len(points), f)
  <2>1. Len(points) \in Nat
    OBVIOUS
  <2> QED
    BY <2>1, GoingExists
<1>2. U!Kept(points, wanted) = f[Len(points)]
  BY Zenon DEF U!Kept, Going
<1>3. H!Kept(points, wanted) = f[Len(points)]
  BY Zenon DEF H!Kept, Going
<1> HIDE DEF f
<1> QED
  BY <1>1, <1>2, <1>3, GoingKeeps

-----------------------------------------------------------------------------
(* The usage history: sets of points.                                      *)

\* What a series was continued to: it ends later, and where it starts and the
\* older one has not ended, the two have the same points; a bucket of the older
\* one is in it even if it has gained readings.
Continues(older, newer) ==
  /\ newer # {} => \A u \in older : \E w \in newer : u.at <= w.at
  /\ \A u \in older, p \in newer, q \in U!Point :
       p.at <= q.at /\ q.at < u.at => (q \in older <=> q \in newer)
  /\ \A u \in older, p \in newer : p.at <= u.at => \E w \in newer : w.at = u.at

\* The time of a point is a number.
LEMMA PointTimes == \A p \in U!Point : p.at \in Nat
BY MonitoringAssumption DEF U!Point, U!HistoryAssumption

\* A series continues itself.
LEMMA ContinuesSame ==
  ASSUME NEW S \in SUBSET U!Point
  PROVE  Continues(S, S)
BY PointTimes DEF Continues

\* A series that was forgotten is continued by any, and continues any.
LEMMA ContinuesEmpty ==
  ASSUME NEW S \in SUBSET U!Point
  PROVE  Continues(S, {}) /\ Continues({}, S)
BY DEF Continues

\* Buckets are dropped from the old end.
Suffix(points, S) ==
  points \subseteq S /\ \A p \in points, q \in S : p.at <= q.at => q \in points

LEMMA ContinuesTrim ==
  ASSUME NEW S \in SUBSET U!Point, NEW T \in SUBSET U!Point, Continues(S, T),
         NEW points, Suffix(points, T)
  PROVE  Continues(S, points)
<1>1. points \subseteq T /\ points \in SUBSET U!Point
  BY DEF Suffix
<1>2. ASSUME NEW u \in S, NEW p \in points
      PROVE  \E w \in points : u.at <= w.at
  <2>1. PICK w \in T : u.at <= w.at
    BY <1>1, <1>2 DEF Continues
  <2>2. CASE p.at <= w.at
    BY <2>1, <2>2 DEF Suffix
  <2>3. CASE w.at < p.at
    BY <2>1, <2>3, <1>1, PointTimes
  <2> QED
    BY <2>2, <2>3, <1>1, PointTimes
<1>3. ASSUME NEW u \in S, NEW p \in points, NEW q \in U!Point, p.at <= q.at, q.at < u.at
      PROVE  q \in S <=> q \in points
  <2>1. q \in S <=> q \in T
    BY <1>1, <1>3 DEF Continues
  <2> QED
    BY <1>1, <1>3, <2>1 DEF Suffix
<1>4. ASSUME NEW u \in S, NEW p \in points, p.at <= u.at
      PROVE  \E w \in points : w.at = u.at
  <2>1. PICK w \in T : w.at = u.at
    BY <1>1, <1>4 DEF Continues
  <2> QED
    BY <1>4, <2>1 DEF Suffix
<1> QED
  BY <1>2, <1>3, <1>4 DEF Continues

\* A reading goes to the newest bucket or to a new one.
Recorded(S, new) == {p \in S : p.at < new.at} \cup {new}

LEMMA ContinuesRecorded ==
  ASSUME NEW S \in SUBSET U!Point, NEW T \in SUBSET U!Point, Continues(S, T),
         NEW new \in U!Point, \A p \in S \cup T : p.at <= new.at
  PROVE  Continues(S, Recorded(T, new))
<1>1. Recorded(T, new) \subseteq U!Point /\ new \in Recorded(T, new)
  BY DEF Recorded
<1>2. ASSUME NEW u \in S PROVE \E w \in Recorded(T, new) : u.at <= w.at
  BY <1>1
<1>3. ASSUME NEW u \in S, NEW p \in Recorded(T, new), NEW q \in U!Point,
             p.at <= q.at, q.at < u.at
      PROVE  q \in S <=> q \in Recorded(T, new)
  <2>1. q.at < new.at /\ p.at < new.at
    BY <1>1, <1>3, PointTimes
  <2>2. p \in T
    BY <2>1, <1>1, PointTimes DEF Recorded
  <2>3. q \in S <=> q \in T
    BY <1>3, <2>2 DEF Continues
  <2> QED
    BY <2>1, <2>3, PointTimes DEF Recorded
<1>4. ASSUME NEW u \in S, NEW p \in Recorded(T, new), p.at <= u.at
      PROVE  \E w \in Recorded(T, new) : w.at = u.at
  <2>1. CASE u.at = new.at
    BY <2>1, <1>1
  <2>2. CASE u.at < new.at
    <3>1. p \in T
      BY <2>2, <1>1, <1>4, PointTimes DEF Recorded
    <3>2. PICK w \in T : w.at = u.at
      BY <3>1, <1>4 DEF Continues
    <3> QED
      BY <3>2, <2>2 DEF Recorded
  <2> QED
    BY <2>1, <2>2, PointTimes
<1> QED
  BY <1>2, <1>3, <1>4 DEF Continues

\* What is drawn of one series once a later delta is merged in.
MergedSet(S, T, since, cutoff) ==
  {p \in S : p.at >= cutoff /\ \A q \in T : q.at >= since => p.at < q.at}
    \cup {p \in T : p.at >= since}

LEMMA MergeKeeps ==
  ASSUME NEW S \in SUBSET U!Point, NEW T \in SUBSET U!Point, Continues(S, T),
         NEW since \in Nat, NEW cutoff \in Nat,
         \E p \in S : since <= p.at, \A p \in T : cutoff <= p.at,
         NEW q \in U!Point, NEW p \in T, p.at <= q.at,
         NEW u \in T, q.at < u.at \/ (q.at <= u.at /\ since <= q.at)
  PROVE  q \in MergedSet(S, T, since, cutoff) <=> q \in T
<1>1. CASE q.at < since
  <2>1. PICK s \in S : since <= s.at
    OBVIOUS
  <2>2. q \in S <=> q \in T
    BY <1>1, <2>1, PointTimes DEF Continues
  <2>3. q.at >= cutoff /\ q.at \in Nat
    BY PointTimes
  <2>4. \A v \in T : v.at >= since => q.at < v.at
    BY <1>1, <2>3, PointTimes
  <2> QED
    BY <1>1, <2>2, <2>3, <2>4 DEF MergedSet
<1>2. CASE since <= q.at
  <2>1. ASSUME q \in S PROVE \E w \in T : w.at = q.at
    BY <2>1 DEF Continues
  <2>2. ~(q \in S /\ \A v \in T : v.at >= since => q.at < v.at)
    BY <1>2, <2>1, PointTimes
  <2> QED
    BY <1>2, <2>2 DEF MergedSet
<1> QED
  BY <1>1, <1>2, PointTimes

LEMMA ContinuesMerged ==
  ASSUME NEW S \in SUBSET U!Point, NEW T \in SUBSET U!Point, NEW X \in SUBSET U!Point,
         Continues(S, T), Continues(T, X), Continues(S, X),
         NEW since \in Nat, NEW cutoff \in Nat,
         \E p \in S : since <= p.at, \E p \in T : since <= p.at,
         \A p \in T : cutoff <= p.at
  PROVE  Continues(MergedSet(S, T, since, cutoff), X)
<1> DEFINE merged == MergedSet(S, T, since, cutoff)
<1>1. merged \subseteq S \cup T
  BY DEF MergedSet
<1>2. ASSUME X # {}, NEW u \in merged PROVE \E w \in X : u.at <= w.at
  BY <1>1, <1>2 DEF Continues
<1>3. ASSUME NEW u \in merged, NEW p \in X, NEW q \in U!Point, p.at <= q.at, q.at < u.at
      PROVE  q \in merged <=> q \in X
  <2>1. \E v \in T : q.at < v.at
    <3>1. CASE u \in T
      BY <3>1, <1>3
    <3>2. CASE u \notin T
      <4>1. PICK v \in T : since <= v.at
        OBVIOUS
      <4>2. u.at < v.at /\ u \in U!Point
        BY <3>2, <4>1, <1>1 DEF MergedSet
      <4> QED
        BY <4>1, <4>2, <1>3, PointTimes
    <3> QED
      BY <3>1, <3>2
  <2>2. PICK v \in T : q.at < v.at
    BY <2>1
  <2>3. p \in T
    <3>1. p.at <= p.at /\ p.at < v.at
      BY <2>2, <1>3, PointTimes
    <3> QED
      BY <3>1 DEF Continues
  <2>4. q \in T <=> q \in X
    BY <1>3, <2>2 DEF Continues
  <2>5. q \in merged <=> q \in T
    BY <1>3, <2>2, <2>3, MergeKeeps
  <2> QED
    BY <2>4, <2>5
<1>4. ASSUME NEW u \in merged, NEW p \in X, p.at <= u.at
      PROVE  \E w \in X : w.at = u.at
  BY <1>1, <1>4 DEF Continues
<1> QED
  BY <1>2, <1>3, <1>4 DEF Continues

-----------------------------------------------------------------------------
(* Series of the usage history.                                            *)

\* A bucket starts at most a window before what it holds, and no earlier for
\* a later time.
LEMMA BucketStarts ==
  /\ \A t \in Nat : U!BucketStart(t) \in 0 .. t /\ t <= U!BucketStart(t) + UsageWindow
  /\ \A t, u \in Nat : t <= u => U!BucketStart(t) <= U!BucketStart(u)
<1>1. UsageBucket \in Nat \ {0} /\ UsageWindow \in Nat /\ UsageBucket <= UsageWindow
  BY MonitoringAssumption DEF U!HistoryAssumption
<1>2. \A t \in Nat : (t % UsageBucket) \in 0 .. UsageBucket - 1 /\ (t % UsageBucket) <= t
  BY <1>1
<1>3. ASSUME NEW t \in Nat
      PROVE  U!BucketStart(t) = UsageBucket * (t \div UsageBucket) /\ t \div UsageBucket \in Nat
  <2>1. t = UsageBucket * (t \div UsageBucket) + (t % UsageBucket)
    BY <1>1
  <2>2. t \div UsageBucket \in Nat
    BY <1>1
  <2> QED
    BY <1>1, <1>2, <2>1, <2>2 DEF U!BucketStart
<1>4. ASSUME NEW t \in Nat, NEW u \in Nat, t <= u
      PROVE  U!BucketStart(t) <= U!BucketStart(u)
  <2>1. t \div UsageBucket <= u \div UsageBucket
    BY <1>1, <1>4
  <2>2. UsageBucket * (t \div UsageBucket) <= UsageBucket * (u \div UsageBucket)
    BY <1>1, <1>3, <2>1
  <2> QED
    BY <1>3, <2>2
<1> QED
  BY <1>1, <1>2, <1>4 DEF U!BucketStart

\* A filtered series is one, of the wanted points, in order if it was.
LEMMA KeptSeries ==
  ASSUME NEW points \in Seq(U!Point), NEW wanted
  PROVE  /\ U!Kept(points, wanted) \in Seq(U!Point)
         /\ U!Range(U!Kept(points, wanted)) = U!Range(points) \cap wanted
         /\ U!Ordered(points) => U!Ordered(U!Kept(points, wanted))
<1> DEFINE s == U!Kept(points, wanted)
<1>1. s \in Seq(U!Point) /\ KeptOf(s, points, wanted, Len(points))
  BY KeptFits
<1> HIDE DEF s
<1>2. PICK g : PickedBy(g, s, points, Len(points))
  BY <1>1 DEF KeptOf
<1>3. \A a \in 1 .. Len(s) : g[a] \in 1 .. Len(points) /\ s[a] = points[g[a]]
  BY <1>2 DEF PickedBy
<1>4. U!Range(s) \subseteq U!Range(points) \cap wanted
  BY <1>1, <1>3 DEF U!Range, KeptOf
<1>5. U!Range(points) \cap wanted \subseteq U!Range(s)
  BY <1>1 DEF U!Range, KeptOf
<1>6. U!Ordered(points) => U!Ordered(s)
  <2> SUFFICES ASSUME U!Ordered(points), NEW i \in DOMAIN s, NEW j \in DOMAIN s, i < j
               PROVE  s[i].at < s[j].at
    BY DEF U!Ordered
  <2>1. i \in 1 .. Len(s) /\ j \in 1 .. Len(s)
    BY <1>1
  <2>2. g[i] < g[j]
    BY <1>2, <2>1 DEF PickedBy
  <2> QED
    BY <1>3, <2>1, <2>2 DEF U!Ordered
<1> QED
  BY <1>1, <1>4, <1>5, <1>6 DEF s

\* How many buckets are out of the window is defined, and bounds them.
LEMMA OldCounts ==
  ASSUME time \in Nat, NEW points \in Seq(U!Point)
  PROVE  /\ U!Old(points) \in 0 .. Len(points)
         /\ \A i \in 1 .. U!Old(points) : points[i].at + UsageWindow < time
         /\ U!Old(points) < Len(points) =>
              points[U!Old(points) + 1].at + UsageWindow >= time
<1> DEFINE N == {k \in 0 .. Len(points) :
                   k < Len(points) => ~(points[k + 1].at + UsageWindow < time)}
<1>1. Len(points) \in Nat
  OBVIOUS
<1>2. PICK k \in N : \A m \in N : k <= m
  <2>1. N \subseteq Nat /\ Len(points) \in N
    BY <1>1
  <2> HIDE DEF N
  <2> QED
    BY <2>1, LeastExists
<1>3. ASSUME NEW i \in 1 .. k PROVE points[i].at + UsageWindow < time
  <2>1. i - 1 \in 0 .. Len(points) /\ ~(k <= i - 1) /\ i - 1 < Len(points) /\ (i - 1) + 1 = i
    BY <1>1
  <2>2. i - 1 \notin N
    BY <1>2, <2>1
  <2> QED
    BY <2>1, <2>2
<1>4. k < Len(points) => points[k + 1].at + UsageWindow >= time
  <2>1. k < Len(points) => points[k + 1] \in U!Point
    BY <1>1
  <2> QED
    BY <2>1, PointTimes, MonitoringAssumption DEF U!HistoryAssumption
<1>5. \E j \in 0 .. Len(points) :
        /\ \A i \in 1 .. j : points[i].at + UsageWindow < time
        /\ j < Len(points) => points[j + 1].at + UsageWindow >= time
  BY <1>3, <1>4
<1> QED
  BY Zenon, <1>5 DEF U!Old

\* A trim drops buckets at the old end, all that are out of the window and those
\* beyond the bound, and keeps the newest while it is in the window.
LEMMA TrimmedSeries ==
  ASSUME time \in Nat, NEW points \in Seq(U!Point), U!Ordered(points)
  PROVE  /\ U!Trim(points) \in Seq(U!Point) /\ U!Ordered(U!Trim(points))
         /\ Len(U!Trim(points)) <= UsagePoints
         /\ Suffix(U!Range(U!Trim(points)), U!Range(points))
         /\ \A p \in U!Range(U!Trim(points)) : time <= p.at + UsageWindow
         /\ points # <<>> /\ time <= U!Last(points).at + UsageWindow
              => U!Last(points) \in U!Range(U!Trim(points))
<1> DEFINE n == Len(points)
           old == U!Old(points)
           kept == SubSeq(points, old + 1, n)
           extra == IF Len(kept) > UsagePoints THEN Len(kept) - UsagePoints ELSE 0
           t == SubSeq(kept, extra + 1, Len(kept))
           d == old + extra
<1>1. /\ n \in Nat /\ old \in 0 .. n /\ UsagePoints \in Nat \ {0} /\ UsageWindow \in Nat
      /\ \A i \in 1 .. n : points[i] \in U!Point /\ points[i].at \in Nat
      /\ DOMAIN points = 1 .. n
  BY OldCounts, PointTimes, MonitoringAssumption DEF U!HistoryAssumption
<1>2. U!Trim(points) = t
  BY DEF U!Trim
<1>3. /\ \A i \in 1 .. old : points[i].at + UsageWindow < time
      /\ old < n => points[old + 1].at + UsageWindow >= time
  BY OldCounts
<1>4. \A i, j \in 1 .. n : i < j => points[i].at < points[j].at
  BY <1>1 DEF U!Ordered
<1> HIDE DEF n, old
<1>5. /\ kept \in Seq(U!Point) /\ Len(kept) = n - old
      /\ \A i \in 1 .. n - old : kept[i] = points[old + i]
  <2>1. old + 1 \in 1 .. n + 1 /\ n - old \in Nat /\ (n - (old + 1)) + 1 = n - old
    BY <1>1
  <2>2. \A i \in old + 1 .. n : points[i] \in U!Point
    BY <1>1
  <2>3. kept \in Seq(U!Point)
    BY <1>1, <2>1, <2>2
  <2>4. Len(kept) = n - old
    BY <1>1, <2>1
  <2>5. \A i \in 1 .. n - old : kept[i] = points[old + i]
    BY <1>1, <2>1
  <2> QED
    BY <2>3, <2>4, <2>5
<1> HIDE DEF kept
<1>6. extra \in 0 .. n - old /\ (n - old) - extra <= UsagePoints
      /\ (n > old => extra < n - old)
  BY <1>1, <1>5
<1> HIDE DEF extra
<1>7. /\ t \in Seq(U!Point) /\ Len(t) = n - d /\ DOMAIN t = 1 .. n - d
      /\ \A i \in 1 .. n - d : t[i] = points[d + i]
  BY <1>1, <1>5, <1>6
<1> HIDE DEF t
<1>8. /\ d \in old .. n /\ n - d <= UsagePoints /\ (n > old => d < n)
      /\ \A i \in 1 .. n - d : d + i \in 1 .. n /\ old + 1 <= d + i
  BY <1>1, <1>6
<1> HIDE DEF d
<1>9. U!Ordered(t)
  BY <1>1, <1>4, <1>7, <1>8 DEF U!Ordered
<1>10. \A i \in d + 1 .. n : i - d \in 1 .. n - d /\ points[i] = t[i - d]
  BY <1>1, <1>7, <1>8
<1>11. Suffix(U!Range(t), U!Range(points))
  <2>1. U!Range(t) \subseteq U!Range(points)
    BY <1>1, <1>7, <1>8 DEF U!Range
  <2>2. ASSUME NEW p \in U!Range(t), NEW q \in U!Range(points), p.at <= q.at
        PROVE  q \in U!Range(t)
    <3>1. PICK i \in 1 .. n - d : p = points[d + i]
      BY <1>7 DEF U!Range
    <3>2. PICK j \in 1 .. n : q = points[j]
      BY <1>1 DEF U!Range
    <3>3. ~(j < d + i)
      BY <1>1, <1>4, <1>8, <2>2, <3>1, <3>2
    <3>4. j \in d + 1 .. n
      BY <1>1, <1>8, <3>3
    <3> QED
      BY <1>7, <1>10, <3>2, <3>4 DEF U!Range
  <2> QED
    BY <2>1, <2>2 DEF Suffix
<1>12. ASSUME NEW p \in U!Range(t) PROVE time <= p.at + UsageWindow
  <2>1. PICK i \in 1 .. n - d : p = points[d + i]
    BY <1>7, <1>12 DEF U!Range
  <2>2. d + i \in 1 .. n /\ old + 1 \in 1 .. n /\ old < n
    BY <1>1, <1>8
  <2>3. points[old + 1].at <= points[d + i].at
    BY <1>1, <1>4, <1>8, <2>2
  <2> QED
    BY <1>1, <1>3, <2>1, <2>2, <2>3
<1>13. ASSUME points # <<>>, time <= U!Last(points).at + UsageWindow
       PROVE  U!Last(points) \in U!Range(t)
  <2>1. n \in 1 .. n /\ U!Last(points) = points[n]
    BY <1>1, <1>13 DEF U!Last, n
  <2>2. old # n
    BY <1>1, <1>3, <1>13, <2>1
  <2>3. n \in d + 1 .. n
    BY <1>1, <1>8, <2>2
  <2> QED
    BY <1>7, <1>10, <2>1, <2>3 DEF U!Range
<1> QED
  BY <1>2, <1>7, <1>8, <1>9, <1>11, <1>12, <1>13

\* A reading goes to the newest bucket, or opens one after all others.
LEMMA AddedSeries ==
  ASSUME time \in 0 .. UsageTime, NEW points \in Seq(U!Point), U!Ordered(points),
         \A p \in U!Range(points) : p.at <= U!BucketStart(time)
  PROVE  /\ U!Added(points) \in Seq(U!Point) /\ U!Ordered(U!Added(points))
         /\ U!Added(points) # <<>>
         /\ U!Last(U!Added(points)).at = U!BucketStart(time)
         /\ U!Last(U!Added(points)) \in U!Point
         /\ U!Range(U!Added(points)) =
              Recorded(U!Range(points), U!Last(U!Added(points)))
<1> DEFINE n == Len(points)
           b == U!BucketStart(time)
           added == U!Added(points)
<1>1. /\ n \in Nat /\ UsageCount \in Nat \ {0} /\ UsageTime \in Nat /\ time \in Nat
      /\ \A i \in 1 .. n : points[i] \in U!Point /\ points[i].at \in Nat
      /\ DOMAIN points = 1 .. n
  BY PointTimes, MonitoringAssumption DEF U!HistoryAssumption
<1>2. b \in 0 .. UsageTime
  BY <1>1, BucketStarts
<1>3. \A i, j \in 1 .. n : i < j => points[i].at < points[j].at
  BY <1>1 DEF U!Ordered
<1>4. \A i \in 1 .. n : points[i].at <= b
  BY <1>1 DEF U!Range
<1>5. CASE points # <<>> /\ U!Last(points).at = b
  <2> DEFINE new == [points[n] EXCEPT !.n = IF @ < UsageCount THEN @ + 1 ELSE @]
  <2>1. n \in 1 .. n /\ U!Last(points) = points[n] /\ points[n].at = b
    BY <1>1, <1>5 DEF U!Last
  <2>2. new \in U!Point /\ new.at = b
    BY <1>1, <2>1 DEF U!Point
  <2>3. added = [points EXCEPT ![n] = new]
    BY <1>5, <2>1 DEF U!Added
  <2> HIDE DEF new, b
  <2>4. /\ added \in Seq(U!Point) /\ Len(added) = n /\ DOMAIN added = 1 .. n
        /\ added[n] = new /\ \A i \in 1 .. n - 1 : added[i] = points[i]
    BY <1>1, <2>1, <2>2, <2>3
  <2> HIDE DEF added, n
  <2>5. \A i \in 1 .. n : i = n \/ i \in 1 .. n - 1
    BY <1>1
  <2>6. \A i \in 1 .. n - 1 : points[i].at < b /\ i \in 1 .. n
    BY <1>1, <1>3, <2>1
  <2>7. U!Ordered(added)
    BY <1>1, <1>3, <2>1, <2>2, <2>4, <2>5, <2>6 DEF U!Ordered
  <2>8. U!Last(added) = new /\ added # <<>>
    BY <2>1, <2>4 DEF U!Last
  <2>9. U!Range(added) \subseteq Recorded(U!Range(points), new)
    BY <1>1, <2>2, <2>4, <2>5, <2>6 DEF U!Range, Recorded
  <2>10. Recorded(U!Range(points), new) \subseteq U!Range(added)
    <3>1. ASSUME NEW p \in U!Range(points), p.at < new.at PROVE p \in U!Range(added)
      <4>1. PICK i \in 1 .. n : p = points[i]
        BY <1>1 DEF U!Range
      <4>2. i # n
        BY <1>2, <2>1, <2>2, <3>1, <4>1
      <4> QED
        BY <2>4, <2>5, <2>6, <4>1, <4>2 DEF U!Range
    <3>2. new \in U!Range(added)
      BY <2>1, <2>4 DEF U!Range
    <3> QED
      BY <3>1, <3>2 DEF Recorded
  <2> QED
    BY <2>2, <2>4, <2>7, <2>8, <2>9, <2>10 DEF added, b
<1>6. CASE ~(points # <<>> /\ U!Last(points).at = b)
  <2> DEFINE new == [at |-> b, n |-> 1]
  <2>1. new \in U!Point /\ new.at = b
    BY <1>1, <1>2 DEF U!Point
  <2>2. added = Append(points, new)
    BY <1>6 DEF U!Added
  <2> HIDE DEF new, b
  <2>3. /\ added \in Seq(U!Point) /\ Len(added) = n + 1 /\ DOMAIN added = 1 .. n + 1
        /\ added[n + 1] = new /\ \A i \in 1 .. n : added[i] = points[i]
    BY <1>1, <2>1, <2>2
  <2>4. ASSUME NEW i \in 1 .. n PROVE points[i].at < b
    <3>1. n \in 1 .. n /\ U!Last(points) = points[n] /\ points # <<>>
      BY <1>1, <2>4 DEF U!Last
    <3>2. points[n].at < b
      BY <1>1, <1>2, <1>4, <1>6, <3>1
    <3> QED
      BY <1>1, <1>2, <1>3, <3>1, <3>2
  <2> HIDE DEF added, n
  <2>5. \A i \in 1 .. n + 1 : i = n + 1 \/ i \in 1 .. n
    BY <1>1
  <2>6. U!Ordered(added)
    BY <1>1, <1>3, <2>1, <2>3, <2>4, <2>5 DEF U!Ordered
  <2>7. n + 1 \in 1 .. n + 1 /\ U!Last(added) = new /\ added # <<>>
    BY <1>1, <2>3 DEF U!Last
  <2>8. U!Range(added) = Recorded(U!Range(points), new)
    <3>1. U!Range(added) \subseteq Recorded(U!Range(points), new)
      BY <1>1, <2>1, <2>3, <2>4, <2>5 DEF U!Range, Recorded
    <3>2. U!Range(points) \subseteq U!Range(added)
      BY <1>1, <2>3 DEF U!Range
    <3>3. new \in U!Range(added)
      BY <2>3, <2>7 DEF U!Range
    <3> QED
      BY <3>1, <3>2, <3>3 DEF Recorded
  <2> QED
    BY <2>1, <2>3, <2>6, <2>7, <2>8 DEF added, b
<1> QED
  BY <1>5, <1>6

\* mergePoints keeps, of the older series, what lies between the cutoff and the
\* first point of the newer one, and appends the newer one.
LEMMA MergedSeries ==
  ASSUME NEW previous \in Seq(U!Point), U!Ordered(previous),
         NEW next \in Seq(U!Point), U!Ordered(next), NEW cutoff \in Nat
  PROVE  /\ U!MergePoints(previous, next, cutoff) \in Seq(U!Point)
         /\ U!Ordered(U!MergePoints(previous, next, cutoff))
         /\ U!Range(U!MergePoints(previous, next, cutoff)) =
              {p \in U!Range(previous) :
                 p.at >= cutoff /\ \A q \in U!Range(next) : p.at < q.at}
              \cup U!Range(next)
<1> DEFINE wanted == {p \in U!From(cutoff) : next = <<>> \/ p.at < Head(next).at}
           kept == U!Kept(previous, wanted)
           merged == kept \o next
           m == Len(kept)
           n == Len(next)
<1>1. /\ kept \in Seq(U!Point) /\ U!Ordered(kept)
      /\ U!Range(kept) = U!Range(previous) \cap wanted
  BY KeptSeries
<1>2. U!MergePoints(previous, next, cutoff) = merged
  BY DEF U!MergePoints
<1>3. \A p \in U!Point : p \in wanted <=> p.at >= cutoff /\ \A q \in U!Range(next) : p.at < q.at
  <2>1. \A i \in DOMAIN next : i \in 1 .. n /\ next[i] \in U!Point
    OBVIOUS
  <2>2. CASE next = <<>>
    BY <2>1, <2>2 DEF U!From, U!Range
  <2>3. CASE next # <<>>
    <3>1. Head(next) = next[1] /\ 1 \in DOMAIN next
      BY <2>3
    <3>2. \A q \in U!Range(next) : Head(next).at <= q.at
      BY <2>1, <3>1, PointTimes DEF U!Range, U!Ordered
    <3>3. Head(next) \in U!Range(next) /\ U!Range(next) \subseteq U!Point
      BY <2>1, <3>1 DEF U!Range
    <3> QED
      BY <2>3, <3>2, <3>3, PointTimes DEF U!From
  <2> QED
    BY <2>2, <2>3
<1>4. U!Range(previous) \subseteq U!Point
  BY DEF U!Range
<1>5. U!Range(kept) = {p \in U!Range(previous) :
                         p.at >= cutoff /\ \A q \in U!Range(next) : p.at < q.at}
  BY <1>1, <1>3, <1>4
<1> HIDE DEF kept, wanted
<1>6. /\ merged \in Seq(U!Point) /\ Len(merged) = m + n /\ m \in Nat /\ n \in Nat
      /\ DOMAIN kept = 1 .. m /\ DOMAIN next = 1 .. n /\ DOMAIN merged = 1 .. m + n
      /\ \A i \in 1 .. m : merged[i] = kept[i]
      /\ \A i \in 1 .. n : merged[m + i] = next[i]
  BY <1>1
<1> HIDE DEF merged, m, n
<1>7. \A i \in 1 .. m + n : i \in 1 .. m \/ (i - m \in 1 .. n /\ i = m + (i - m))
  BY <1>6
<1>8. U!Ordered(merged)
  <2> SUFFICES ASSUME NEW i \in 1 .. m + n, NEW j \in 1 .. m + n, i < j
               PROVE  merged[i].at < merged[j].at
    BY <1>6 DEF U!Ordered
  <2>1. CASE j \in 1 .. m
    <3>1. i \in 1 .. m
      BY <1>6, <2>1
    <3> QED
      BY <1>1, <1>6, <2>1, <3>1 DEF U!Ordered
  <2>2. CASE i \in 1 .. m /\ j \notin 1 .. m
    <3>1. j - m \in 1 .. n /\ merged[j] = next[j - m] /\ merged[i] = kept[i]
      BY <1>6, <1>7, <2>2
    <3>2. kept[i] \in U!Range(kept) /\ next[j - m] \in U!Range(next)
      BY <1>6, <2>2, <3>1 DEF U!Range
    <3> QED
      BY <1>5, <3>1, <3>2
  <2>3. CASE i \notin 1 .. m
    <3>1. j \notin 1 .. m
      BY <1>6, <2>3
    <3>2. /\ i - m \in 1 .. n /\ merged[i] = next[i - m]
          /\ j - m \in 1 .. n /\ merged[j] = next[j - m]
      BY <1>6, <1>7, <2>3, <3>1
    <3>3. i - m < j - m
      BY <1>6
    <3> QED
      BY <1>6, <3>2, <3>3 DEF U!Ordered
  <2> QED
    BY <2>1, <2>2, <2>3
<1>9. U!Range(merged) = U!Range(kept) \cup U!Range(next)
  <2>1. ASSUME NEW p \in U!Range(merged) PROVE p \in U!Range(kept) \cup U!Range(next)
    <3>1. PICK i \in 1 .. m + n : p = merged[i]
      BY <1>6 DEF U!Range
    <3>2. CASE i \in 1 .. m
      BY <1>6, <3>1, <3>2 DEF U!Range
    <3>3. CASE i - m \in 1 .. n /\ i = m + (i - m)
      <4>1. merged[m + (i - m)] = next[i - m]
        BY <1>6, <3>3
      <4> QED
        BY <1>6, <3>1, <3>3, <4>1 DEF U!Range
    <3> QED
      BY <1>7, <3>2, <3>3
  <2>2. U!Range(kept) \subseteq U!Range(merged)
    <3>1. \A i \in 1 .. m : i \in 1 .. m + n
      BY <1>6
    <3> QED
      BY <1>6, <3>1 DEF U!Range
  <2>3. U!Range(next) \subseteq U!Range(merged)
    <3>1. \A i \in 1 .. n : m + i \in 1 .. m + n
      BY <1>6
    <3> QED
      BY <1>6, <3>1 DEF U!Range
  <2> QED
    BY <2>1, <2>2, <2>3
<1> QED
  BY <1>2, <1>5, <1>6, <1>8, <1>9

-----------------------------------------------------------------------------
(* Histories.                                                              *)

History == [there : BOOLEAN, system : Seq(U!Point), gpu : Seq(U!Point),
            gpuThere : BOOLEAN]
Buckets(h) == U!Range(h.system) \cup U!Range(h.gpu)

\* A history is in order and of the past.
Sound(h) ==
  /\ h \in History
  /\ U!Ordered(h.system) /\ U!Ordered(h.gpu)
  /\ IF h.there THEN h.system # <<>> ELSE h = U!Empty
  /\ h.gpuThere <=> h.gpu # <<>>
  /\ \A p \in Buckets(h) : p.at <= U!BucketStart(time)

\* It fits in the window.
Fits(h) == \A p, q \in Buckets(h) : p.at <= q.at + UsageWindow

\* A history that was seen first, and one that was seen after it.
Later(h, k) ==
  /\ Continues(U!Range(h.system), U!Range(k.system))
  /\ Continues(U!Range(h.gpu), U!Range(k.gpu))
  /\ h.gpu = <<>> => \A p \in U!Range(h.system), q \in U!Range(k.gpu) : p.at <= q.at

\* A snapshot since that time has the end of each series.
Reaches(h, since) ==
  /\ h.system # <<>> => \E p \in U!Range(h.system) : since <= p.at
  /\ h.gpu # <<>> => \E p \in U!Range(h.gpu) : since <= p.at

\* The points of a series, none for the empty one alone.
LEMMA Ranges ==
  /\ \A s \in Seq(U!Point) : /\ U!Range(s) \in SUBSET U!Point
                             /\ s # <<>> <=> U!Range(s) # {}
  /\ U!Range(<<>>) = {}
<1>1. ASSUME NEW s \in Seq(U!Point), s # <<>> PROVE s[1] \in U!Range(s)
  BY <1>1 DEF U!Range
<1>2. \A s \in Seq(U!Point) : U!Range(s) \in SUBSET U!Point
  BY DEF U!Range
<1>3. U!Range(<<>>) = {}
  BY DEF U!Range
<1> QED
  BY <1>1, <1>2, <1>3

\* A history may be seen twice.
LEMMA LaterSame == ASSUME NEW h, Sound(h) PROVE Later(h, h)
BY Ranges, ContinuesSame DEF Sound, Later, History

\* A session without history: before and after any other.
LEMMA EmptyIsSound ==
  /\ Sound(U!Empty) /\ Fits(U!Empty)
  /\ \A h : Sound(h) => Later(h, U!Empty) /\ Later(U!Empty, h)
  /\ \A t : Reaches(U!Empty, t)
<1>1. /\ U!Empty.system = <<>> /\ U!Empty.gpu = <<>> /\ ~U!Empty.there
      /\ ~U!Empty.gpuThere /\ U!Empty \in History
  BY DEF U!Empty, History
<1>2. Sound(U!Empty) /\ Fits(U!Empty) /\ \A t : Reaches(U!Empty, t)
  BY <1>1, Ranges DEF Sound, Fits, Reaches, Buckets, U!Ordered
<1>3. ASSUME NEW h, Sound(h) PROVE Later(h, U!Empty) /\ Later(U!Empty, h)
  BY <1>1, <1>3, Ranges, ContinuesEmpty DEF Sound, Later, History
<1> QED
  BY <1>2, <1>3

\* What a chart asks for, every later history reaches.
LEMMA ReachesOn ==
  ASSUME NEW h, NEW k, Sound(h), Sound(k), Later(h, k), NEW since \in Nat,
         Reaches(h, since), ~h.there => since = 0
  PROVE  Reaches(k, since)
<1>1. h.system \in Seq(U!Point) /\ h.gpu \in Seq(U!Point)
      /\ k.system \in Seq(U!Point) /\ k.gpu \in Seq(U!Point)
  BY DEF Sound, History
<1>2. ASSUME k.system # <<>> PROVE \E p \in U!Range(k.system) : since <= p.at
  <2>1. PICK q \in U!Range(k.system) : q.at \in Nat
    BY <1>1, <1>2, Ranges, PointTimes
  <2>2. CASE since = 0
    BY <2>1, <2>2
  <2>3. CASE h.there
    <3>1. PICK p \in U!Range(h.system) : since <= p.at /\ p.at \in Nat
      BY <2>3, <1>1, Ranges, PointTimes DEF Sound, Reaches
    <3>2. PICK w \in U!Range(k.system) : p.at <= w.at /\ w.at \in Nat
      BY <2>1, <3>1, <1>1, Ranges, PointTimes DEF Later, Continues
    <3> QED
      BY <3>1, <3>2
  <2> QED
    BY <2>2, <2>3
<1>3. ASSUME k.gpu # <<>> PROVE \E p \in U!Range(k.gpu) : since <= p.at
  <2>1. PICK q \in U!Range(k.gpu) : q.at \in Nat
    BY <1>1, <1>3, Ranges, PointTimes
  <2>2. CASE since = 0
    BY <2>1, <2>2
  <2>3. CASE h.there /\ h.gpu = <<>>
    <3>1. PICK p \in U!Range(h.system) : since <= p.at /\ p.at \in Nat
      BY <2>3, <1>1, Ranges, PointTimes DEF Sound, Reaches
    <3>2. p.at <= q.at
      BY <2>1, <2>3, <3>1 DEF Later
    <3> QED
      BY <2>1, <3>1, <3>2
  <2>4. CASE h.there /\ h.gpu # <<>>
    <3>1. PICK p \in U!Range(h.gpu) : since <= p.at /\ p.at \in Nat
      BY <2>4, <1>1, Ranges, PointTimes DEF Reaches
    <3>2. PICK w \in U!Range(k.gpu) : p.at <= w.at /\ w.at \in Nat
      BY <2>1, <3>1, <1>1, Ranges, PointTimes DEF Later, Continues
    <3> QED
      BY <3>1, <3>2
  <2> QED
    BY <2>2, <2>3, <2>4
<1> QED
  BY <1>2, <1>3 DEF Reaches

\* One series of a history after a reading.
LEMMA SeriesRecorded ==
  ASSUME time \in 0 .. UsageTime, NEW points \in Seq(U!Point), U!Ordered(points),
         \A p \in U!Range(points) : p.at <= U!BucketStart(time)
  PROVE  LET new == U!Last(U!Added(points))
             next == U!Trim(U!Added(points))
         IN /\ next \in Seq(U!Point) /\ U!Ordered(next) /\ Len(next) <= UsagePoints
            /\ new \in U!Point /\ new.at = U!BucketStart(time) /\ new \in U!Range(next)
            /\ Suffix(U!Range(next), Recorded(U!Range(points), new))
            /\ \A p \in U!Range(next) : /\ p.at <= U!BucketStart(time)
                                        /\ time <= p.at + UsageWindow
<1> DEFINE added == U!Added(points)
           new == U!Last(added)
           next == U!Trim(added)
<1>1. /\ added \in Seq(U!Point) /\ U!Ordered(added) /\ added # <<>>
      /\ new.at = U!BucketStart(time) /\ new \in U!Point
      /\ U!Range(added) = Recorded(U!Range(points), new)
  BY AddedSeries
<1>2. /\ time \in Nat /\ U!BucketStart(time) \in Nat
      /\ time <= U!BucketStart(time) + UsageWindow
  BY BucketStarts, MonitoringAssumption DEF U!HistoryAssumption
<1> HIDE DEF added
<1>3. /\ next \in Seq(U!Point) /\ U!Ordered(next) /\ Len(next) <= UsagePoints
      /\ Suffix(U!Range(next), U!Range(added)) /\ new \in U!Range(next)
      /\ \A p \in U!Range(next) : time <= p.at + UsageWindow
  BY <1>1, <1>2, TrimmedSeries
<1> HIDE DEF new, next
<1>4. \A p \in U!Range(next) : p.at <= U!BucketStart(time)
  <2>1. \A p \in U!Range(points) : p.at < new.at => p.at <= U!BucketStart(time)
    OBVIOUS
  <2>2. new.at <= U!BucketStart(time)
    BY <1>1, <1>2
  <2> QED
    BY <1>1, <1>3, <2>1, <2>2 DEF Suffix, Recorded
<1> QED
  BY <1>1, <1>3, <1>4 DEF added, new, next

\* A history after a reading.
LEMMA RecordedHistory ==
  ASSUME time \in 0 .. UsageTime, Sound(server), NEW gpu \in BOOLEAN, U!Record(gpu)
  PROVE  /\ Sound(server)' /\ Fits(server')
         /\ Len(server'.system) <= UsagePoints /\ Len(server'.gpu) <= UsagePoints
         /\ \A h : Sound(h) /\ Later(h, server) => Later(h, server')
         /\ \A t \in 0 .. U!BucketStart(time) : Reaches(server, t) => Reaches(server', t)
<1> DEFINE S == server.system
           G == server.gpu
           s == U!Trim(U!Added(S))
           g == U!Trim(IF gpu THEN U!Added(G) ELSE G)
           new == U!Last(U!Added(S))
           newGpu == U!Last(U!Added(G))
           b == U!BucketStart(time)
<1>1. /\ S \in Seq(U!Point) /\ U!Ordered(S) /\ G \in Seq(U!Point) /\ U!Ordered(G)
      /\ \A p \in U!Range(S) : p.at <= b
      /\ \A p \in U!Range(G) : p.at <= b
  BY DEF Sound, History, Buckets
<1>2. /\ server' = [there |-> TRUE, system |-> s, gpu |-> g, gpuThere |-> g # <<>>]
      /\ time' = time
  BY DEF U!Record
<1>3. time \in Nat /\ b \in Nat
  BY BucketStarts, MonitoringAssumption DEF U!HistoryAssumption
<1>4. /\ s \in Seq(U!Point) /\ U!Ordered(s) /\ Len(s) <= UsagePoints
      /\ new \in U!Point /\ new.at = b /\ new \in U!Range(s)
      /\ Suffix(U!Range(s), Recorded(U!Range(S), new))
      /\ \A p \in U!Range(s) : p.at <= b /\ time <= p.at + UsageWindow
  BY <1>1, SeriesRecorded
<1>5. /\ g \in Seq(U!Point) /\ U!Ordered(g) /\ Len(g) <= UsagePoints
      /\ \A p \in U!Range(g) : p.at <= b /\ time <= p.at + UsageWindow
      /\ \/ Suffix(U!Range(g), U!Range(G))
         \/ /\ newGpu \in U!Point /\ newGpu.at = b /\ newGpu \in U!Range(g)
            /\ Suffix(U!Range(g), Recorded(U!Range(G), newGpu))
  <2>1. CASE gpu
    <3>1. g = U!Trim(U!Added(G))
      BY <2>1
    <3>2. /\ U!Trim(U!Added(G)) \in Seq(U!Point) /\ U!Ordered(U!Trim(U!Added(G)))
          /\ Len(U!Trim(U!Added(G))) <= UsagePoints
          /\ newGpu \in U!Point /\ newGpu.at = b /\ newGpu \in U!Range(U!Trim(U!Added(G)))
          /\ Suffix(U!Range(U!Trim(U!Added(G))), Recorded(U!Range(G), newGpu))
          /\ \A p \in U!Range(U!Trim(U!Added(G))) : p.at <= b /\ time <= p.at + UsageWindow
      BY <1>1, SeriesRecorded
    <3> QED
      BY <3>1, <3>2
  <2>2. CASE ~gpu
    <3>1. g = U!Trim(G)
      BY <2>2
    <3>2. /\ U!Trim(G) \in Seq(U!Point) /\ U!Ordered(U!Trim(G))
          /\ Len(U!Trim(G)) <= UsagePoints /\ Suffix(U!Range(U!Trim(G)), U!Range(G))
          /\ \A p \in U!Range(U!Trim(G)) : time <= p.at + UsageWindow
      BY <1>1, <1>3, TrimmedSeries
    <3> QED
      BY <1>1, <3>1, <3>2 DEF Suffix
  <2> QED
    BY <2>1, <2>2
<1> HIDE DEF s, g, new, newGpu
<1>6. /\ server'.system = s /\ server'.gpu = g /\ server'.there
      /\ server'.gpuThere = (g # <<>>) /\ server' \in History
  BY <1>2, <1>4, <1>5 DEF History
<1>7. s # <<>> /\ U!Range(s) \in SUBSET U!Point /\ U!Range(g) \in SUBSET U!Point
      /\ U!Range(S) \in SUBSET U!Point /\ U!Range(G) \in SUBSET U!Point
  BY <1>1, <1>4, <1>5, Ranges
<1>8. Sound(server)'
  <2>1. U!BucketStart(time)' = b
    BY <1>2 DEF U!BucketStart
  <2>2. \A p \in Buckets(server') : p.at <= b
    BY <1>4, <1>5, <1>6 DEF Buckets
  <2>3. \A p \in Buckets(server)' : p.at <= U!BucketStart(time)'
    BY <2>1, <2>2 DEF Buckets
  <2> HIDE DEF b
  <2> QED
    BY <1>4, <1>5, <1>6, <1>7, <2>3 DEF Sound
<1>9. Fits(server')
  <2>1. ASSUME NEW p \in Buckets(server'), NEW q \in Buckets(server')
        PROVE  p.at <= q.at + UsageWindow
    <3>1. p.at <= b /\ time <= q.at + UsageWindow /\ p.at \in Nat /\ q.at \in Nat
      BY <1>4, <1>5, <1>6, <1>7, PointTimes DEF Buckets
    <3>2. b <= time /\ UsageWindow \in Nat
      BY <1>3, BucketStarts, MonitoringAssumption DEF U!HistoryAssumption
    <3> HIDE DEF b
    <3> QED
      BY <1>3, <3>1, <3>2
  <2> QED
    BY <2>1 DEF Fits
<1> HIDE DEF b
<1>10. ASSUME NEW h, Sound(h), Later(h, server) PROVE Later(h, server')
  <2>1. /\ U!Range(h.system) \in SUBSET U!Point /\ U!Range(h.gpu) \in SUBSET U!Point
        /\ \A p \in U!Range(h.system) : p.at <= b
        /\ \A p \in U!Range(h.gpu) : p.at <= b
    BY <1>10, Ranges DEF Sound, History, Buckets, b
  <2>2. /\ Continues(U!Range(h.system), U!Range(S)) /\ Continues(U!Range(h.gpu), U!Range(G))
        /\ h.gpu = <<>> => \A p \in U!Range(h.system), q \in U!Range(G) : p.at <= q.at
    BY <1>10 DEF Later
  <2>3. Continues(U!Range(h.system), U!Range(s))
    <3>1. Continues(U!Range(h.system), Recorded(U!Range(S), new))
      <4>1. \A p \in U!Range(h.system) \cup U!Range(S) : p.at <= new.at
        BY <1>1, <1>4, <2>1 DEF b
      <4> QED
        BY <1>4, <1>7, <2>1, <2>2, <4>1, ContinuesRecorded
    <3>2. Recorded(U!Range(S), new) \in SUBSET U!Point
      BY <1>4, <1>7 DEF Recorded
    <3> QED
      BY <1>4, <2>1, <3>1, <3>2, ContinuesTrim
  <2>4. CASE Suffix(U!Range(g), U!Range(G))
    <3>1. Continues(U!Range(h.gpu), U!Range(g))
      BY <1>7, <2>1, <2>2, <2>4, ContinuesTrim
    <3> QED
      BY <1>6, <2>2, <2>3, <2>4, <3>1 DEF Later, Suffix
  <2>5. CASE /\ newGpu \in U!Point /\ newGpu.at = b
             /\ Suffix(U!Range(g), Recorded(U!Range(G), newGpu))
    <3>1. Continues(U!Range(h.gpu), Recorded(U!Range(G), newGpu))
      <4>1. \A p \in U!Range(h.gpu) \cup U!Range(G) : p.at <= newGpu.at
        BY <1>1, <2>1, <2>5 DEF b
      <4> QED
        BY <1>7, <2>1, <2>2, <2>5, <4>1, ContinuesRecorded
    <3>2. Recorded(U!Range(G), newGpu) \in SUBSET U!Point
      BY <1>7, <2>5 DEF Recorded
    <3>3. Continues(U!Range(h.gpu), U!Range(g))
      BY <2>1, <2>5, <3>1, <3>2, ContinuesTrim
    <3>4. h.gpu = <<>> => \A p \in U!Range(h.system), q \in U!Range(g) : p.at <= q.at
      BY <2>1, <2>2, <2>5 DEF Suffix, Recorded
    <3> QED
      BY <1>6, <2>3, <3>3, <3>4 DEF Later
  <2> QED
    BY <1>5, <2>4, <2>5
<1>11. ASSUME NEW t \in 0 .. b, Reaches(server, t) PROVE Reaches(server', t)
  <2>1. \E p \in U!Range(s) : t <= p.at
    BY <1>3, <1>4
  <2>2. CASE newGpu \in U!Range(g) /\ newGpu.at = b
    BY <1>3, <1>6, <2>1, <2>2 DEF Reaches
  <2>3. CASE Suffix(U!Range(g), U!Range(G))
    <3>1. ASSUME g # <<>> PROVE \E p \in U!Range(g) : t <= p.at
      <4>1. PICK p \in U!Range(g) : p.at \in Nat
        BY <1>5, <1>7, <3>1, Ranges, PointTimes
      <4>2. PICK q \in U!Range(G) : t <= q.at /\ q.at \in Nat
        <5>1. G # <<>>
          BY <1>1, <2>3, <4>1, Ranges DEF Suffix
        <5> QED
          BY <1>7, <1>11, <5>1, PointTimes DEF Reaches
      <4>3. p.at <= q.at => q \in U!Range(g)
        BY <2>3, <4>1 DEF Suffix
      <4> QED
        BY <4>1, <4>2, <4>3
    <3> QED
      BY <1>6, <2>1, <3>1 DEF Reaches
  <2> QED
    BY <1>5, <2>2, <2>3
<1> QED
  BY <1>4, <1>5, <1>6, <1>8, <1>9, <1>10, <1>11 DEF b

\* What is drawn of a series from its first point on.
DrawnOf(drawn, T) == {p \in drawn : \E q \in T : q.at <= p.at}

\* A merged series shows the one it was given the end of.
LEMMA MergeShows ==
  ASSUME NEW S \in SUBSET U!Point, NEW T \in SUBSET U!Point, Continues(S, T),
         NEW since \in Nat, NEW cutoff \in Nat,
         \E p \in S : since <= p.at, \E p \in T : since <= p.at,
         \A p \in T : cutoff <= p.at
  PROVE  DrawnOf(MergedSet(S, T, since, cutoff), T) = T
<1>1. PICK v \in T : since <= v.at
  OBVIOUS
<1>2. ASSUME NEW q \in T PROVE q \in MergedSet(S, T, since, cutoff) /\ q.at <= q.at
  <2>1. CASE since <= q.at
    BY <2>1, PointTimes DEF MergedSet
  <2>2. CASE q.at < since
    <3>1. q.at < v.at /\ q.at <= q.at /\ q \in U!Point
      BY <1>1, <2>2, PointTimes
    <3> QED
      BY <3>1, MergeKeeps
  <2> QED
    BY <2>1, <2>2, PointTimes
<1>3. ASSUME NEW p \in MergedSet(S, T, since, cutoff), NEW q \in T, q.at <= p.at
      PROVE  p \in T
  <2>1. ASSUME p \notin T PROVE FALSE
    <3>1. p.at < v.at /\ p \in U!Point
      BY <1>1, <2>1 DEF MergedSet
    <3>2. p \in MergedSet(S, T, since, cutoff) <=> p \in T
      BY <1>3, <3>1, MergeKeeps
    <3> QED
      BY <2>1, <3>2
  <2> QED
    BY <2>1
<1> QED
  BY <1>2, <1>3 DEF DrawnOf

\* A snapshot has the points of each series since the time asked for, in order.
LEMMA SnapshotOf ==
  ASSUME NEW h \in History, NEW since \in Nat
  PROVE  LET d == U!Snapshot(h, since)
         IN /\ d \in History /\ d.there = h.there /\ d.gpuThere = h.gpuThere
            /\ U!Range(d.system) = {p \in U!Range(h.system) : p.at >= since}
            /\ U!Range(d.gpu) = {p \in U!Range(h.gpu) : p.at >= since}
            /\ U!Ordered(h.system) => U!Ordered(d.system)
            /\ U!Ordered(h.gpu) => U!Ordered(d.gpu)
<1> DEFINE s == U!Kept(h.system, U!From(since))
           g == U!Kept(h.gpu, U!From(since))
<1>1. h.system \in Seq(U!Point) /\ h.gpu \in Seq(U!Point)
  BY DEF History
<1>2. /\ s \in Seq(U!Point) /\ U!Range(s) = U!Range(h.system) \cap U!From(since)
      /\ U!Ordered(h.system) => U!Ordered(s)
  BY <1>1, KeptSeries
<1>3. /\ g \in Seq(U!Point) /\ U!Range(g) = U!Range(h.gpu) \cap U!From(since)
      /\ U!Ordered(h.gpu) => U!Ordered(g)
  BY <1>1, KeptSeries
<1>4. U!Snapshot(h, since) = [there |-> h.there, system |-> s, gpu |-> g,
                              gpuThere |-> h.gpuThere]
  BY DEF U!Snapshot
<1> HIDE DEF s, g
<1>5. /\ U!Range(s) = {p \in U!Range(h.system) : p.at >= since}
      /\ U!Range(g) = {p \in U!Range(h.gpu) : p.at >= since}
  BY <1>1, <1>2, <1>3, Ranges DEF U!From
<1> QED
  BY <1>2, <1>3, <1>4, <1>5 DEF History

\* The least and the greatest of the ends of two series.
LEMMA EndsHaveLeast ==
  ASSUME NEW s \in Seq(U!Point), NEW g \in Seq(U!Point)
  PROVE  LET ends == {U!Last(points).at : points \in {s, g} \ {<<>>}}
         IN /\ ends \subseteq {p.at : p \in U!Range(s) \cup U!Range(g)} /\ ends \subseteq Nat
            /\ ends = {} <=> s = <<>> /\ g = <<>>
            /\ ends # {} => /\ \E t \in ends : \A u \in ends : t <= u
                            /\ \E t \in ends : \A u \in ends : t >= u
            /\ s # <<>> => U!Last(s).at \in ends /\ U!Last(s) \in U!Range(s)
            /\ g # <<>> => U!Last(g).at \in ends /\ U!Last(g) \in U!Range(g)
<1> DEFINE ends == {U!Last(points).at : points \in {s, g} \ {<<>>}}
<1>1. s # <<>> => U!Last(s) \in U!Range(s) /\ U!Last(s) \in U!Point
  BY DEF U!Last, U!Range
<1>2. g # <<>> => U!Last(g) \in U!Range(g) /\ U!Last(g) \in U!Point
  BY DEF U!Last, U!Range
<1>3. /\ ends \subseteq {p.at : p \in U!Range(s) \cup U!Range(g)} /\ ends \subseteq Nat
      /\ ends = {} <=> s = <<>> /\ g = <<>>
      /\ s # <<>> => U!Last(s).at \in ends
      /\ g # <<>> => U!Last(g).at \in ends
  BY <1>1, <1>2, PointTimes
<1>4. \A t \in ends : (s # <<>> /\ t = U!Last(s).at) \/ (g # <<>> /\ t = U!Last(g).at)
  OBVIOUS
<1> HIDE DEF ends
<1>5. ends # {} => /\ \E t \in ends : \A u \in ends : t <= u
                   /\ \E t \in ends : \A u \in ends : t >= u
  <2> DEFINE a == U!Last(s).at
             b == U!Last(g).at
  <2>1. (s # <<>> => a \in Nat /\ a \in ends) /\ (g # <<>> => b \in Nat /\ b \in ends)
    BY <1>3
  <2>2. \A t \in ends : (s # <<>> /\ t = a) \/ (g # <<>> /\ t = b)
    BY <1>4
  <2> HIDE DEF a, b
  <2>3. CASE s # <<>> /\ g # <<>> /\ a <= b
    BY <2>1, <2>2, <2>3
  <2>4. CASE s # <<>> /\ g # <<>> /\ b <= a
    BY <2>1, <2>2, <2>4
  <2>5. CASE s = <<>> \/ g = <<>>
    BY <2>1, <2>2, <2>5
  <2> QED
    BY <2>1, <2>3, <2>4, <2>5
<1> QED
  BY <1>1, <1>2, <1>3, <1>5 DEF ends

\* A chart asks for what starts at the last bucket it has of any series.
LEMMA LastCaptured ==
  ASSUME time \in 0 .. UsageTime, Sound(chart)
  PROVE  /\ U!LastCapturedAt(chart) \in 0 .. U!BucketStart(time)
         /\ Reaches(chart, U!LastCapturedAt(chart))
         /\ ~chart.there => U!LastCapturedAt(chart) = 0
<1> DEFINE s == chart.system
           g == chart.gpu
           ends == {U!Last(points).at : points \in {s, g} \ {<<>>}}
           t == U!LastCapturedAt(chart)
<1>1. s \in Seq(U!Point) /\ g \in Seq(U!Point)
      /\ \A p \in U!Range(s) \cup U!Range(g) : p.at <= U!BucketStart(time)
  BY DEF Sound, History, Buckets
<1>2. U!BucketStart(time) \in Nat
  BY BucketStarts, MonitoringAssumption DEF U!HistoryAssumption
<1>3. t = IF ends = {} THEN 0 ELSE CHOOSE v \in ends : \A u \in ends : v <= u
  BY DEF U!LastCapturedAt
<1> HIDE DEF t
<1>4. /\ ends \subseteq {p.at : p \in U!Range(s) \cup U!Range(g)} /\ ends \subseteq Nat
      /\ ends = {} <=> s = <<>> /\ g = <<>>
      /\ ends # {} => \E v \in ends : \A u \in ends : v <= u
      /\ s # <<>> => U!Last(s).at \in ends /\ U!Last(s) \in U!Range(s)
      /\ g # <<>> => U!Last(g).at \in ends /\ U!Last(g) \in U!Range(g)
  BY <1>1, EndsHaveLeast
<1> HIDE DEF ends
<1>5. ends # {} => t \in ends /\ \A u \in ends : t <= u
  BY <1>3, <1>4
<1>6. t \in 0 .. U!BucketStart(time)
  <2>1. CASE ends = {}
    BY <1>2, <1>3, <2>1
  <2>2. CASE ends # {}
    <3>1. PICK p \in U!Range(s) \cup U!Range(g) : t = p.at
      BY <1>4, <1>5, <2>2
    <3>2. t \in Nat /\ t <= U!BucketStart(time)
      BY <1>1, <1>4, <1>5, <2>2, <3>1
    <3> QED
      BY <1>2, <3>2
  <2> QED
    BY <2>1, <2>2
<1>7. Reaches(chart, t)
  BY <1>4, <1>5 DEF Reaches
<1>8. ~chart.there => t = 0
  <2>1. ~chart.there => s = <<>> /\ g = <<>>
    BY DEF Sound, U!Empty
  <2> QED
    BY <1>3, <1>4, <2>1
<1> QED
  BY <1>6, <1>7, <1>8 DEF t

\* What merging the end of a later series does to an older one.
MergesInto(merged, S, T) ==
  /\ merged \subseteq S \cup T /\ merged # {}
  /\ DrawnOf(merged, T) = T
  /\ \A X \in SUBSET U!Point :
       Continues(T, X) /\ Continues(S, X) => Continues(merged, X)
  /\ \A t \in Nat : (\E p \in T : t <= p.at) => \E p \in merged : t <= p.at

LEMMA SetsMerged ==
  ASSUME NEW S \in SUBSET U!Point, NEW T \in SUBSET U!Point, Continues(S, T),
         NEW since \in Nat, NEW cutoff \in Nat,
         (\E p \in S : since <= p.at) \/ (S = {} /\ \A p \in T : since <= p.at),
         \E p \in T : since <= p.at, \A p \in T : cutoff <= p.at
  PROVE  MergesInto(MergedSet(S, T, since, cutoff), S, T)
<1> DEFINE merged == MergedSet(S, T, since, cutoff)
<1>1. PICK v \in T : since <= v.at
  OBVIOUS
<1>2. merged \subseteq S \cup T /\ v \in merged
  BY <1>1, PointTimes DEF MergedSet
<1>3. ASSUME NEW t \in Nat, NEW p \in T, t <= p.at PROVE \E q \in merged : t <= q.at
  <2>1. CASE since <= p.at
    <3>1. p \in merged
      BY <2>1, PointTimes DEF MergedSet
    <3> QED
      BY <1>3, <3>1
  <2>2. CASE p.at < since
    <3>1. t <= v.at
      BY <1>1, <1>3, <2>2, PointTimes
    <3> QED
      BY <1>2, <3>1
  <2> QED
    BY <2>1, <2>2, PointTimes
<1>4. CASE S = {} /\ \A p \in T : since <= p.at
  <2>1. merged = T
    BY <1>4, PointTimes DEF MergedSet
  <2> HIDE DEF merged
  <2>2. DrawnOf(T, T) = T
    BY PointTimes DEF DrawnOf
  <2> QED
    BY <1>2, <1>3, <2>1, <2>2 DEF MergesInto, merged
<1>5. CASE \E p \in S : since <= p.at
  <2>1. DrawnOf(merged, T) = T
    BY <1>1, <1>5, MergeShows
  <2>2. ASSUME NEW X \in SUBSET U!Point, Continues(T, X), Continues(S, X)
        PROVE  Continues(merged, X)
    BY <1>1, <1>5, <2>2, ContinuesMerged
  <2> HIDE DEF merged
  <2> QED
    BY <1>2, <1>3, <2>1, <2>2 DEF MergesInto, merged
<1> QED
  BY <1>4, <1>5

LEMMA RangeMerged ==
  ASSUME NEW previous \in Seq(U!Point), U!Ordered(previous),
         NEW next \in Seq(U!Point), U!Ordered(next), NEW cutoff \in Nat,
         NEW T \in SUBSET U!Point, NEW since \in Nat,
         U!Range(next) = {p \in T : p.at >= since}
  PROVE  U!Range(U!MergePoints(previous, next, cutoff)) =
           MergedSet(U!Range(previous), T, since, cutoff)
<1>1. U!Range(U!MergePoints(previous, next, cutoff)) =
        {p \in U!Range(previous) :
           p.at >= cutoff /\ \A q \in U!Range(next) : p.at < q.at}
        \cup U!Range(next)
  BY MergedSeries
<1>2. \A p : (\A q \in U!Range(next) : p.at < q.at) <=>
             (\A q \in T : q.at >= since => p.at < q.at)
  OBVIOUS
<1> QED
  BY <1>1, <1>2 DEF MergedSet

\* A chart that reaches the time of a delta shows, merged with it, the history
\* the delta was taken of, and what comes later is later than the merged chart.
LEMMA MergedHistory ==
  ASSUME Sound(chart), NEW v, Sound(v), Fits(v), Later(chart, v), chart.there, v.there,
         NEW since \in Nat, Reaches(chart, since), Reaches(v, since)
  PROVE  LET drawn == U!Merge(chart, U!Snapshot(v, since))
         IN /\ Sound(drawn) /\ drawn.there
            /\ \A k : Sound(k) /\ Later(chart, k) /\ Later(v, k) => Later(drawn, k)
            /\ \A t \in Nat : Reaches(v, t) => Reaches(drawn, t)
            /\ U!Shows(drawn.system, v.system) /\ U!Shows(drawn.gpu, v.gpu)
<1> DEFINE delta == U!Snapshot(v, since)
           drawn == U!Merge(chart, delta)
           ends == {U!Last(points).at : points \in {delta.system, delta.gpu} \ {<<>>}}
           newest == IF ends = {} THEN 0 ELSE CHOOSE t \in ends : \A u \in ends : t >= u
           cutoff == IF newest >= UsageWindow THEN newest - UsageWindow ELSE 0
           system == U!MergePoints(chart.system, delta.system, cutoff)
           gpu == IF delta.gpuThere THEN U!MergePoints(chart.gpu, delta.gpu, cutoff)
                  ELSE <<>>
           CS == U!Range(chart.system)
           CG == U!Range(chart.gpu)
           VS == U!Range(v.system)
           VG == U!Range(v.gpu)
<1>1. /\ chart.system \in Seq(U!Point) /\ U!Ordered(chart.system) /\ chart.system # <<>>
      /\ chart.gpu \in Seq(U!Point) /\ U!Ordered(chart.gpu)
      /\ v.system \in Seq(U!Point) /\ U!Ordered(v.system) /\ v.system # <<>>
      /\ v.gpu \in Seq(U!Point) /\ U!Ordered(v.gpu)
      /\ v \in History /\ (v.gpuThere <=> v.gpu # <<>>)
      /\ CS \in SUBSET U!Point /\ CG \in SUBSET U!Point
      /\ VS \in SUBSET U!Point /\ VG \in SUBSET U!Point /\ VS # {} /\ CS # {}
      /\ (v.gpu = <<>> <=> VG = {}) /\ (chart.gpu = <<>> <=> CG = {})
  BY Ranges DEF Sound, History
<1>2. /\ delta \in History /\ delta.gpuThere = v.gpuThere
      /\ U!Range(delta.system) = {p \in VS : p.at >= since}
      /\ U!Range(delta.gpu) = {p \in VG : p.at >= since}
      /\ U!Ordered(delta.system) /\ U!Ordered(delta.gpu)
  BY <1>1, SnapshotOf
<1>3. drawn = [there |-> TRUE, system |-> system, gpuThere |-> delta.gpuThere, gpu |-> gpu]
  BY DEF U!Merge
<1> HIDE DEF delta
<1>4. delta.system \in Seq(U!Point) /\ delta.gpu \in Seq(U!Point)
  BY <1>2 DEF History
<1>5. UsageWindow \in Nat
  BY MonitoringAssumption DEF U!HistoryAssumption
<1>6. cutoff \in Nat /\ \A p \in VS \cup VG : cutoff <= p.at
  <2>1. /\ ends \subseteq {p.at : p \in U!Range(delta.system) \cup U!Range(delta.gpu)}
        /\ ends \subseteq Nat
        /\ ends # {} => \E t \in ends : \A u \in ends : t >= u
    BY <1>4, EndsHaveLeast
  <2> HIDE DEF ends
  <2>2. ends # {} => newest \in ends
    BY <2>1
  <2>3. newest \in Nat
    BY <2>1, <2>2
  <2>4. ASSUME NEW p \in VS \cup VG PROVE newest <= p.at + UsageWindow
    <3>1. p \in Buckets(v) /\ p.at \in Nat
      BY <1>1, PointTimes DEF Buckets
    <3>2. CASE ends = {}
      BY <1>5, <3>1, <3>2
    <3>3. CASE ends # {}
      <4>1. PICK q \in U!Range(delta.system) \cup U!Range(delta.gpu) : newest = q.at
        BY <2>1, <2>2, <3>3
      <4>2. q \in Buckets(v)
        BY <1>2, <4>1 DEF Buckets
      <4> QED
        BY <3>1, <4>1, <4>2 DEF Fits
    <3> QED
      BY <3>2, <3>3
  <2> HIDE DEF newest
  <2>5. \A p \in VS \cup VG : p.at \in Nat
    BY <1>1, PointTimes
  <2> QED
    BY <1>5, <2>3, <2>4, <2>5
<1> HIDE DEF cutoff
<1>7. /\ Continues(CS, VS) /\ Continues(CG, VG)
      /\ chart.gpu = <<>> => \A p \in CS, q \in VG : p.at <= q.at
  BY DEF Later
<1>8. (\E p \in CS : since <= p.at) /\ (\E p \in VS : since <= p.at)
  BY <1>1 DEF Reaches
<1>9. U!Range(system) = MergedSet(CS, VS, since, cutoff)
  BY <1>1, <1>2, <1>4, <1>6, RangeMerged
<1>10. U!Range(U!MergePoints(chart.gpu, delta.gpu, cutoff)) =
        MergedSet(CG, VG, since, cutoff)
  BY <1>1, <1>2, <1>4, <1>6, RangeMerged
<1>11. system \in Seq(U!Point) /\ U!Ordered(system)
  BY <1>1, <1>2, <1>4, <1>6, MergedSeries
<1> HIDE DEF CS, CG, VS, VG
<1>12. /\ U!Range(system) \subseteq CS \cup VS /\ U!Range(system) # {}
       /\ DrawnOf(U!Range(system), VS) = VS
       /\ \A X \in SUBSET U!Point :
            Continues(VS, X) /\ Continues(CS, X) => Continues(U!Range(system), X)
       /\ \A t \in Nat : (\E p \in VS : t <= p.at) => \E p \in U!Range(system) : t <= p.at
  <2>1. \A p \in VS : cutoff <= p.at
    BY <1>6
  <2>2. MergesInto(MergedSet(CS, VS, since, cutoff), CS, VS)
    BY <1>1, <1>6, <1>7, <1>8, <2>1, SetsMerged
  <2> HIDE DEF system
  <2> QED
    BY <1>9, <2>2 DEF MergesInto
<1> HIDE DEF system
<1>13. /\ gpu \in Seq(U!Point) /\ U!Ordered(gpu)
       /\ U!Range(gpu) \subseteq CG \cup VG /\ (gpu = <<>> <=> v.gpu = <<>>)
       /\ DrawnOf(U!Range(gpu), VG) = VG
       /\ \A X \in SUBSET U!Point :
            Continues(VG, X) /\ Continues(CG, X) => Continues(U!Range(gpu), X)
       /\ \A t \in Nat : (\E p \in VG : t <= p.at) => \E p \in U!Range(gpu) : t <= p.at
  <2>1. CASE v.gpu = <<>>
    <3>1. gpu = <<>> /\ VG = {} /\ U!Range(gpu) = {}
      BY <1>1, <1>2, <2>1, Ranges
    <3>2. DrawnOf({}, {}) = {} /\ U!Ordered(<<>>)
      BY DEF DrawnOf, U!Ordered
    <3>3. <<>> \in Seq(U!Point)
      OBVIOUS
    <3> HIDE DEF gpu
    <3> QED
      BY <2>1, <3>1, <3>2, <3>3, ContinuesEmpty
  <2>2. CASE v.gpu # <<>>
    <3> DEFINE merged == U!MergePoints(chart.gpu, delta.gpu, cutoff)
    <3>1. gpu = merged
      BY <1>1, <1>2, <2>2
    <3>2. U!Range(merged) = MergedSet(CG, VG, since, cutoff)
      BY <1>10
    <3>3. merged \in Seq(U!Point) /\ U!Ordered(merged)
      BY <1>1, <1>2, <1>4, <1>6, MergedSeries
    <3> HIDE DEF merged
    <3>4. \E p \in VG : since <= p.at
      BY <2>2 DEF Reaches, VG
    <3>5. (\E p \in CG : since <= p.at) \/ (CG = {} /\ \A p \in VG : since <= p.at)
      <4>1. CASE chart.gpu # <<>>
        BY <4>1 DEF Reaches, CG
      <4>2. CASE chart.gpu = <<>>
        <5>1. PICK p \in CS : since <= p.at /\ p.at \in Nat
          BY <1>1, <1>8, PointTimes
        <5>2. \A q \in VG : p.at <= q.at /\ q.at \in Nat
          BY <1>1, <1>7, <4>2, <5>1, PointTimes
        <5> QED
          BY <1>1, <4>2, <5>1, <5>2
      <4> QED
        BY <4>1, <4>2
    <3>6. \A p \in VG : cutoff <= p.at
      BY <1>6
    <3>7. /\ U!Range(merged) \subseteq CG \cup VG /\ U!Range(merged) # {}
          /\ DrawnOf(U!Range(merged), VG) = VG
          /\ \A X \in SUBSET U!Point :
               Continues(VG, X) /\ Continues(CG, X) => Continues(U!Range(merged), X)
          /\ \A t \in Nat : (\E p \in VG : t <= p.at) =>
                              \E p \in U!Range(merged) : t <= p.at
      <4>1. MergesInto(MergedSet(CG, VG, since, cutoff), CG, VG)
        BY <1>1, <1>6, <1>7, <3>4, <3>5, <3>6, SetsMerged
      <4> QED
        BY <3>2, <4>1 DEF MergesInto
    <3>8. merged # <<>>
      BY <3>7, Ranges
    <3> HIDE DEF gpu
    <3> QED
      BY <2>2, <3>1, <3>3, <3>7, <3>8
  <2> QED
    BY <2>1, <2>2
<1> HIDE DEF gpu
<1>14. /\ drawn \in History /\ drawn.system = system /\ drawn.gpu = gpu /\ drawn.there
       /\ (drawn.gpuThere <=> gpu # <<>>) /\ system # <<>>
  <2>1. delta.gpuThere \in BOOLEAN /\ (delta.gpuThere <=> gpu # <<>>)
    BY <1>1, <1>2, <1>13 DEF History
  <2>2. system # <<>>
    BY <1>11, <1>12, Ranges
  <2> QED
    BY <1>3, <1>11, <1>13, <2>1, <2>2 DEF History
<1> HIDE DEF drawn
<1>15. Sound(drawn)
  <2>1. \A p \in Buckets(drawn) : p \in Buckets(chart) \/ p \in Buckets(v)
    BY <1>12, <1>13, <1>14 DEF Buckets, CS, CG, VS, VG
  <2>2. \A p \in Buckets(drawn) : p.at <= U!BucketStart(time)
    BY <2>1 DEF Sound
  <2> QED
    BY <1>11, <1>13, <1>14, <2>2 DEF Sound
<1>16. ASSUME NEW k, Sound(k), Later(chart, k), Later(v, k) PROVE Later(drawn, k)
  <2>1. /\ U!Range(k.system) \in SUBSET U!Point /\ U!Range(k.gpu) \in SUBSET U!Point
    BY <1>16, Ranges DEF Sound, History
  <2>2. Continues(U!Range(system), U!Range(k.system))
    BY <1>12, <1>16, <2>1 DEF Later, CS, VS
  <2>3. Continues(U!Range(gpu), U!Range(k.gpu))
    BY <1>13, <1>16, <2>1 DEF Later, CG, VG
  <2>4. ASSUME gpu = <<>>, NEW p \in U!Range(system), NEW q \in U!Range(k.gpu)
        PROVE  p.at <= q.at
    <3>1. \A u \in VS : u.at <= q.at
      BY <1>13, <1>16, <2>4 DEF Later, VS
    <3>2. CASE p \in VS
      BY <3>1, <3>2
    <3>3. CASE p \in CS
      <4>1. PICK w \in VS : p.at <= w.at
        BY <1>1, <1>7, <3>3 DEF Continues
      <4>2. p.at \in Nat /\ w.at \in Nat /\ q.at \in Nat
        BY <1>1, <2>1, <3>3, <4>1, PointTimes
      <4> QED
        BY <3>1, <4>1, <4>2
    <3> QED
      BY <1>12, <3>2, <3>3
  <2> QED
    BY <1>14, <2>2, <2>3, <2>4 DEF Later
<1>17. ASSUME NEW t \in Nat, Reaches(v, t) PROVE Reaches(drawn, t)
  BY <1>1, <1>12, <1>13, <1>14, <1>17 DEF Reaches, VS, VG
<1>18. U!Shows(drawn.system, v.system) /\ U!Shows(drawn.gpu, v.gpu)
  BY <1>12, <1>13, <1>14 DEF U!Shows, DrawnOf, VS, VG
<1> QED
  BY <1>14, <1>15, <1>16, <1>17, <1>18 DEF drawn, delta

\* What the hook holds after an answer.
Held(delta) ==
  IF ~delta.there THEN chart ELSE IF ~chart.there THEN delta ELSE U!Merge(chart, delta)

LEMMA AnsweredHistory ==
  ASSUME Sound(chart), NEW v, Sound(v), Fits(v), Later(chart, v),
         NEW since \in Nat, Reaches(chart, since), Reaches(v, since),
         ~chart.there => since = 0
  PROVE  LET drawn == Held(U!Snapshot(v, since))
         IN /\ Sound(drawn) /\ (chart.there => drawn.there)
            /\ \A k : Sound(k) /\ Later(chart, k) /\ Later(v, k) => Later(drawn, k)
            /\ \A t \in Nat : Reaches(chart, t) /\ Reaches(v, t) => Reaches(drawn, t)
            /\ v.there => U!Shows(drawn.system, v.system) /\ U!Shows(drawn.gpu, v.gpu)
<1> DEFINE delta == U!Snapshot(v, since)
           drawn == Held(delta)
<1>1. /\ v \in History /\ delta \in History /\ delta.there = v.there
      /\ delta.gpuThere = v.gpuThere
      /\ U!Range(delta.system) = {p \in U!Range(v.system) : p.at >= since}
      /\ U!Range(delta.gpu) = {p \in U!Range(v.gpu) : p.at >= since}
      /\ U!Ordered(delta.system) /\ U!Ordered(delta.gpu)
  <2>1. v \in History /\ U!Ordered(v.system) /\ U!Ordered(v.gpu)
    BY DEF Sound
  <2> QED
    BY <2>1, SnapshotOf
<1> HIDE DEF delta
<1>2. CASE ~v.there
  <2>1. drawn = chart
    BY <1>1, <1>2 DEF Held
  <2> HIDE DEF drawn
  <2> QED
    BY <1>2, <2>1 DEF drawn, delta
<1>3. CASE v.there /\ chart.there
  <2>1. drawn = U!Merge(chart, U!Snapshot(v, since))
    BY <1>1, <1>3 DEF Held, delta
  <2> HIDE DEF drawn
  <2>2. /\ Sound(drawn) /\ drawn.there
        /\ \A k : Sound(k) /\ Later(chart, k) /\ Later(v, k) => Later(drawn, k)
        /\ \A t \in Nat : Reaches(v, t) => Reaches(drawn, t)
        /\ U!Shows(drawn.system, v.system) /\ U!Shows(drawn.gpu, v.gpu)
    BY <1>3, <2>1, MergedHistory
  <2> QED
    BY <2>2 DEF drawn, delta
<1>4. CASE v.there /\ ~chart.there
  <2>1. drawn = delta
    BY <1>1, <1>4 DEF Held
  <2>2. since = 0
    BY <1>4
  <2>3. /\ v.system \in Seq(U!Point) /\ v.gpu \in Seq(U!Point)
        /\ delta.system \in Seq(U!Point) /\ delta.gpu \in Seq(U!Point)
    BY <1>1 DEF History
  <2>4. /\ U!Range(delta.system) = U!Range(v.system)
        /\ U!Range(delta.gpu) = U!Range(v.gpu)
    BY <1>1, <2>2, <2>3, Ranges, PointTimes
  <2>5. (delta.system = <<>> <=> v.system = <<>>) /\ (delta.gpu = <<>> <=> v.gpu = <<>>)
    BY <2>3, <2>4, Ranges
  <2>6. Sound(delta)
    BY <1>1, <1>4, <2>4, <2>5 DEF Sound, Buckets
  <2>7. \A k : Later(v, k) => Later(delta, k)
    BY <2>4, <2>5 DEF Later
  <2>8. \A t : Reaches(v, t) => Reaches(delta, t)
    BY <2>4, <2>5 DEF Reaches
  <2>9. U!Shows(delta.system, v.system) /\ U!Shows(delta.gpu, v.gpu)
    BY <2>3, <2>4, Ranges, PointTimes DEF U!Shows
  <2> HIDE DEF drawn
  <2> QED
    BY <1>4, <2>1, <2>6, <2>7, <2>8, <2>9 DEF drawn, delta
<1> QED
  BY <1>2, <1>3, <1>4

-----------------------------------------------------------------------------
(* The invariant of the usage history.                                     *)

Asked == [since : Nat, ran : BOOLEAN, delta : History]

\* A history that a poll saw is between what is drawn and what there is.
Between(h) == Sound(h) /\ Fits(h) /\ Later(chart, h) /\ Later(h, server)

\* Whatever series there are, they reach what a poll asks for.
Asks(seen, since) ==
  /\ since <= U!BucketStart(time) /\ (~chart.there => since = 0)
  /\ Reaches(chart, since) /\ Reaches(server, since)
  /\ \A i \in DOMAIN seen : Reaches(seen[i], since)

Answers(h, poll) ==
  /\ poll.delta = IF poll.ran THEN U!Snapshot(h, poll.since) ELSE U!Empty
  /\ ~poll.ran => h = U!Empty

Follows(seen) ==
  /\ time \in 0 .. UsageTime
  /\ seen \in Seq(History) /\ polls \in Seq(Asked) /\ Len(seen) = Len(polls)
  /\ Sound(server) /\ Fits(server) /\ Sound(chart) /\ Later(chart, server)
  /\ Len(server.system) <= UsagePoints /\ Len(server.gpu) <= UsagePoints
  /\ \A i \in DOMAIN polls :
       Between(seen[i]) /\ Asks(seen, polls[i].since) /\ Answers(seen[i], polls[i])
  /\ \A i, j \in DOMAIN polls :
       i < j => Later(seen[i], seen[j]) /\ (polls[j].ran => polls[i].ran)

UsageInv == \E seen : Follows(seen)

\* A history stays in the past as the clock moves.
LEMMA SoundStays ==
  ASSUME time \in Nat, time' \in Nat, time <= time'
  PROVE  \A h : Sound(h) => Sound(h)'
<1>1. /\ U!BucketStart(time) <= U!BucketStart(time')
      /\ U!BucketStart(time) \in Nat /\ U!BucketStart(time') \in Nat
  BY BucketStarts
<1>2. U!BucketStart(time') = U!BucketStart(time)'
  BY DEF U!BucketStart
<1> SUFFICES ASSUME NEW h, Sound(h) PROVE Sound(h)'
  OBVIOUS
<1>3. \A p \in Buckets(h) : p.at \in Nat /\ p.at <= U!BucketStart(time)
  BY Ranges, PointTimes DEF Sound, History, Buckets
<1>4. \A p \in Buckets(h) : p.at <= U!BucketStart(time)'
  BY <1>1, <1>2, <1>3
<1> QED
  BY <1>4 DEF Sound

\* The usage history starts in its invariant.
LEMMA UsageInit == U!Init => UsageInv
<1> SUFFICES ASSUME U!Init PROVE Follows(<<>>)
  BY DEF UsageInv
<1>1. time \in 0 .. UsageTime /\ server = U!Empty /\ chart = U!Empty /\ polls = <<>>
  BY MonitoringAssumption DEF U!Init, U!HistoryAssumption
<1>2. Len(server.system) = 0 /\ Len(server.gpu) = 0
  BY <1>1 DEF U!Empty
<1> QED
  BY <1>1, <1>2, EmptyIsSound, MonitoringAssumption DEF Follows, U!HistoryAssumption

\* A reading: the server gets later, the others stay before it.
LEMMA RecordStep ==
  ASSUME NEW seen, Follows(seen), NEW gpu \in BOOLEAN, U!Record(gpu)
  PROVE  Follows(seen)'
<1>1. time \in 0 .. UsageTime /\ Sound(server)
  BY DEF Follows
<1>2. UNCHANGED <<time, polls, chart>>
  BY DEF U!Record
<1>3. /\ Sound(server)' /\ Fits(server')
      /\ Len(server'.system) <= UsagePoints /\ Len(server'.gpu) <= UsagePoints
      /\ \A h : Sound(h) /\ Later(h, server) => Later(h, server')
      /\ \A t \in 0 .. U!BucketStart(time) : Reaches(server, t) => Reaches(server', t)
  BY <1>1, RecordedHistory
<1>4. U!BucketStart(time)' = U!BucketStart(time) /\ U!BucketStart(time) \in Nat
  BY <1>1, <1>2, BucketStarts, MonitoringAssumption DEF U!BucketStart, U!HistoryAssumption
<1>5. \A h : Sound(h) => Sound(h)'
  BY <1>1, <1>2, SoundStays, MonitoringAssumption DEF U!HistoryAssumption
<1>6. Sound(chart)'
  BY <1>2, <1>5 DEF Follows, Sound
<1>7. ASSUME NEW i \in DOMAIN polls
      PROVE  Between(seen[i])' /\ Asks(seen, polls[i].since)'
  <2>1. Between(seen[i]) /\ Asks(seen, polls[i].since) /\ polls[i].since \in Nat
    <3>1. polls[i] \in Asked
      BY DEF Follows
    <3> QED
      BY <3>1 DEF Follows, Asked
  <2>2. Between(seen[i])'
    BY <1>2, <1>3, <1>5, <2>1 DEF Between
  <2>3. Reaches(server', polls[i].since)
    BY <1>3, <1>4, <2>1 DEF Asks
  <2> QED
    BY <1>2, <1>4, <2>1, <2>2, <2>3 DEF Asks
<1> QED
  BY <1>1, <1>2, <1>3, <1>6, <1>7 DEF Follows

\* The session ends: the server has nothing.
LEMMA ForgetStep ==
  ASSUME NEW seen, Follows(seen), U!Forget
  PROVE  Follows(seen)'
<1>1. UNCHANGED <<time, polls, chart>> /\ server' = U!Empty
  BY DEF U!Forget
<1>2. time \in 0 .. UsageTime /\ time \in Nat
  BY MonitoringAssumption DEF Follows, U!HistoryAssumption
<1>3. \A h : Sound(h) => Sound(h)'
  BY <1>1, <1>2, SoundStays
<1>4. Sound(server)' /\ Fits(server') /\ Len(server'.system) <= UsagePoints
      /\ Len(server'.gpu) <= UsagePoints
  <2>1. Len(U!Empty.system) = 0 /\ Len(U!Empty.gpu) = 0
    BY DEF U!Empty
  <2> QED
    BY <1>1, <1>3, <2>1, EmptyIsSound, MonitoringAssumption DEF Sound, U!HistoryAssumption
<1>5. Sound(chart)' /\ Later(chart, server)'
  BY <1>1, <1>3, EmptyIsSound DEF Follows, Sound
<1>6. U!BucketStart(time)' = U!BucketStart(time)
  BY <1>1 DEF U!BucketStart
<1>7. ASSUME NEW i \in DOMAIN polls
      PROVE  Between(seen[i])' /\ Asks(seen, polls[i].since)'
  <2>1. Between(seen[i]) /\ Asks(seen, polls[i].since)
    BY DEF Follows
  <2>2. Between(seen[i])'
    BY <1>1, <1>3, <2>1, EmptyIsSound DEF Between
  <2> QED
    BY <1>1, <1>6, <2>1, <2>2, EmptyIsSound DEF Asks
<1> QED
  BY <1>1, <1>4, <1>5, <1>7 DEF Follows

\* The clock moves on.
LEMMA ClockStep ==
  ASSUME NEW seen, Follows(seen), NEW t \in 0 .. UsageTime, U!ClockMoves(t)
  PROVE  Follows(seen)'
<1>1. UNCHANGED <<server, polls, chart>> /\ time' = t /\ time < t
  BY DEF U!ClockMoves
<1>2. time \in 0 .. UsageTime /\ time \in Nat /\ time' \in Nat /\ time <= time'
  BY <1>1, MonitoringAssumption DEF Follows, U!HistoryAssumption
<1>3. \A h : Sound(h) => Sound(h)'
  BY <1>1, <1>2, SoundStays
<1>4. Sound(server)' /\ Sound(chart)'
  BY <1>1, <1>3 DEF Follows, Sound
<1>5. /\ U!BucketStart(time) <= U!BucketStart(time)'
      /\ U!BucketStart(time) \in Nat /\ U!BucketStart(time)' \in Nat
  <2>1. U!BucketStart(time') = U!BucketStart(time)'
    BY DEF U!BucketStart
  <2> QED
    BY <1>2, <2>1, BucketStarts
<1>6. ASSUME NEW i \in DOMAIN polls
      PROVE  Between(seen[i])' /\ Asks(seen, polls[i].since)'
  <2>1. Between(seen[i]) /\ Asks(seen, polls[i].since) /\ polls[i].since \in Nat
    <3>1. polls[i] \in Asked
      BY DEF Follows
    <3> QED
      BY <3>1 DEF Follows, Asked
  <2>2. Between(seen[i])'
    BY <1>1, <1>3, <2>1 DEF Between
  <2>3. polls[i].since <= U!BucketStart(time)'
    BY <1>5, <2>1 DEF Asks
  <2> QED
    BY <1>1, <2>1, <2>2, <2>3 DEF Asks
<1> QED
  BY <1>1, <1>2, <1>4, <1>6 DEF Follows

\* A poll is sent: it asks for what every history still to be seen reaches.
LEMMA PollStep ==
  ASSUME NEW seen, Follows(seen), U!Poll
  PROVE  \E next : Follows(next)'
<1>1. PICK since : since = U!LastCapturedAt(chart)
  OBVIOUS
<1>2. PICK next : next = Append(seen, U!Empty)
  OBVIOUS
<1>3. PICK n : n = Len(polls)
  OBVIOUS
<1> DEFINE asked == [since |-> since, ran |-> FALSE, delta |-> U!Empty]
<1>4. UNCHANGED <<time, server, chart>> /\ polls' = Append(polls, asked)
  BY <1>1 DEF U!Poll
<1>5. time \in 0 .. UsageTime /\ time \in Nat
  BY MonitoringAssumption DEF Follows, U!HistoryAssumption
<1>6. since \in 0 .. U!BucketStart(time) /\ Reaches(chart, since)
      /\ (~chart.there => since = 0)
  BY <1>5, <1>1, LastCaptured DEF Follows
<1>7. U!BucketStart(time)' = U!BucketStart(time) /\ U!BucketStart(time) \in Nat
  BY <1>4, <1>5, BucketStarts DEF U!BucketStart
<1>8. \A h : Sound(h) => Sound(h)'
  BY <1>4, <1>5, SoundStays
<1>9. U!Empty \in History /\ asked \in Asked
  BY <1>6, <1>7, EmptyIsSound DEF Sound, Asked
<1>10. seen \in Seq(History) /\ polls \in Seq(Asked) /\ Len(seen) = n /\ n \in Nat
  BY <1>3 DEF Follows
<1>11. /\ next \in Seq(History) /\ polls' \in Seq(Asked)
       /\ Len(next) = n + 1 /\ Len(polls') = n + 1
       /\ DOMAIN next = 1 .. n + 1 /\ DOMAIN polls' = 1 .. n + 1
       /\ DOMAIN seen = 1 .. n /\ DOMAIN polls = 1 .. n
       /\ \A i \in 1 .. n : next[i] = seen[i] /\ polls'[i] = polls[i]
       /\ next[n + 1] = U!Empty /\ polls'[n + 1] = asked
  <2> HIDE DEF asked
  <2>1. /\ next \in Seq(History) /\ Len(next) = n + 1
        /\ \A i \in 1 .. n : next[i] = seen[i]
        /\ next[n + 1] = U!Empty
    BY <1>9, <1>10, <1>2
  <2>2. /\ polls' \in Seq(Asked) /\ Len(polls') = n + 1
        /\ \A i \in 1 .. n : polls'[i] = polls[i]
        /\ polls'[n + 1] = asked
    BY <1>4, <1>9, <1>10, <1>3
  <2> QED
    BY <1>10, <1>3, <2>1, <2>2
<1>12. \A i \in 1 .. n + 1 : i = n + 1 \/ i \in 1 .. n
  BY <1>10
<1>13. Sound(server)' /\ Sound(chart)'
  BY <1>4, <1>8 DEF Follows, Sound
<1>14. ASSUME NEW h, Between(h) PROVE Between(h)' /\ Reaches(h, since)
  <2>1. Between(h)'
    BY <1>4, <1>8, <1>14 DEF Between
  <2>2. Reaches(h, since)
    BY <1>6, <1>7, <1>14, ReachesOn DEF Between, Follows
  <2> QED
    BY <2>1, <2>2
<1>15. Between(U!Empty) /\ Reaches(server, since)
  <2>1. Reaches(server, since)
    BY <1>6, <1>7, ReachesOn DEF Follows
  <2> QED
    BY <2>1, EmptyIsSound DEF Between, Follows
<1>16. ASSUME NEW i \in 1 .. n
       PROVE  /\ Between(seen[i]) /\ Asks(seen, polls[i].since)
              /\ Answers(seen[i], polls[i])
  BY <1>11 DEF Follows
<1>17. ASSUME NEW i \in 1 .. n + 1 PROVE Between(next[i])'
  <2>1. Between(next[i])
    BY <1>11, <1>12, <1>15, <1>16
  <2> QED
    BY <1>14, <2>1
<1>18. ASSUME NEW i \in 1 .. n + 1 PROVE Answers(next[i], polls'[i])
  <2>1. CASE i \in 1 .. n
    BY <1>11, <1>16, <2>1
  <2>2. CASE i = n + 1
    BY <1>11, <2>2 DEF Answers
  <2> QED
    BY <1>12, <2>1, <2>2
<1>19. ASSUME NEW i \in 1 .. n + 1 PROVE Asks(next, polls[i].since)'
  <2>1. PICK t : t = polls'[i].since
    OBVIOUS
  <2>2. /\ t <= U!BucketStart(time) /\ (~chart.there => t = 0)
        /\ Reaches(chart, t) /\ Reaches(server, t)
        /\ \A j \in 1 .. n + 1 : Reaches(next[j], t)
    <3>1. CASE i \in 1 .. n
      <4>1. Asks(seen, t)
        BY <1>11, <1>16, <2>1, <3>1
      <4>2. \A j \in 1 .. n : Reaches(seen[j], t)
        BY <1>11, <4>1 DEF Asks
      <4>3. \A j \in 1 .. n + 1 : Reaches(next[j], t)
        BY <1>11, <1>12, <4>2, EmptyIsSound
      <4> QED
        BY <4>1, <4>3 DEF Asks
    <3>2. CASE i = n + 1
      <4>1. t = since
        BY <1>11, <2>1, <3>2
      <4>2. \A j \in 1 .. n : Reaches(seen[j], since)
        BY <1>14, <1>16
      <4>3. \A j \in 1 .. n + 1 : Reaches(next[j], since)
        BY <1>11, <1>12, <4>2, EmptyIsSound
      <4> QED
        BY <1>6, <1>7, <1>15, <4>1, <4>3
    <3> QED
      BY <1>12, <3>1, <3>2
  <2>3. UNCHANGED <<time, server, chart>> /\ DOMAIN next = 1 .. n + 1
    BY <1>4, <1>11
  <2> QED
    BY <1>7, <2>1, <2>2, <2>3 DEF Asks
<1>20. ASSUME NEW i \in 1 .. n + 1, NEW j \in 1 .. n + 1, i < j
       PROVE  Later(next[i], next[j]) /\ (polls'[j].ran => polls'[i].ran)
  <2>1. i \in 1 .. n
    BY <1>10, <1>20
  <2>2. CASE j \in 1 .. n
    BY <1>11, <1>20, <2>1, <2>2 DEF Follows
  <2>3. CASE j = n + 1
    BY <1>11, <1>16, <2>1, <2>3, EmptyIsSound DEF Between
  <2> QED
    BY <1>12, <2>2, <2>3
<1>21. Follows(next)'
  BY <1>4, <1>5, <1>11, <1>13, <1>17, <1>18, <1>19, <1>20 DEF Follows
<1> QED
  BY <1>21

\* The command of a poll runs: the poll sees what the server has.
LEMMA RunStep ==
  ASSUME NEW seen, Follows(seen), NEW r \in DOMAIN polls, U!Run(r)
  PROVE  \E next : Follows(next)'
<1>1. PICK n : n = Len(polls)
  OBVIOUS
<1>2. PICK next : next = [seen EXCEPT ![r] = server]
  OBVIOUS
<1>3. PICK asked : asked = [polls[r] EXCEPT !.ran = TRUE,
                                            !.delta = U!Snapshot(server, polls[r].since)]
  OBVIOUS
<1>4. UNCHANGED <<time, server, chart>> /\ polls' = [polls EXCEPT ![r] = asked]
      /\ ~polls[r].ran
  BY <1>3 DEF U!Run
<1>5. time \in 0 .. UsageTime /\ time \in Nat
  BY MonitoringAssumption DEF Follows, U!HistoryAssumption
<1>6. /\ seen \in Seq(History) /\ polls \in Seq(Asked) /\ Len(seen) = n /\ n \in Nat
      /\ r \in 1 .. n /\ DOMAIN seen = 1 .. n /\ DOMAIN polls = 1 .. n
      /\ polls[r] \in Asked
  BY <1>1 DEF Follows
<1>7. /\ asked \in Asked /\ asked.since = polls[r].since /\ asked.ran
      /\ asked.delta = U!Snapshot(server, asked.since)
  <2>1. server \in History /\ polls[r].since \in Nat
    BY <1>6 DEF Follows, Sound, Asked
  <2>2. U!Snapshot(server, polls[r].since) \in History
    BY <2>1, SnapshotOf
  <2> QED
    BY <1>3, <1>6, <2>2 DEF Asked
<1>8. /\ next \in Seq(History) /\ Len(next) = n /\ DOMAIN next = 1 .. n
      /\ next[r] = server /\ \A i \in 1 .. n \ {r} : next[i] = seen[i]
  <2>1. server \in History
    BY DEF Follows, Sound
  <2> QED
    BY <1>2, <1>6, <2>1
<1>9. /\ polls' \in Seq(Asked) /\ Len(polls') = n /\ DOMAIN polls' = 1 .. n
      /\ polls'[r] = asked /\ \A i \in 1 .. n \ {r} : polls'[i] = polls[i]
      /\ \A i \in 1 .. n : polls'[i].since = polls[i].since
  BY <1>1, <1>4, <1>6, <1>7
<1>10. \A h : Sound(h) => Sound(h)'
  BY <1>4, <1>5, SoundStays
<1>11. Sound(server)' /\ Sound(chart)'
  BY <1>4, <1>10 DEF Follows, Sound
<1>12. ASSUME NEW i \in 1 .. n
       PROVE  /\ Between(seen[i]) /\ Asks(seen, polls[i].since)
              /\ Answers(seen[i], polls[i])
  BY <1>6 DEF Follows
<1>13. Between(server)
  BY LaterSame DEF Between, Follows
<1>14. ASSUME NEW i \in 1 .. n PROVE Between(next[i])'
  <2>1. Between(next[i])
    BY <1>8, <1>12, <1>13
  <2> QED
    BY <1>4, <1>10, <2>1 DEF Between
<1>15. ASSUME NEW i \in 1 .. n PROVE Asks(next, polls[i].since)'
  <2>1. PICK t : t = polls[i].since
    OBVIOUS
  <2>2. Asks(seen, t) /\ \A j \in 1 .. n : Reaches(next[j], t)
    BY <1>6, <1>8, <1>12, <2>1 DEF Asks
  <2>3. U!BucketStart(time)' = U!BucketStart(time)
    BY <1>4 DEF U!BucketStart
  <2> QED
    BY <1>4, <1>8, <1>9, <2>1, <2>2, <2>3 DEF Asks
<1>16. ASSUME NEW i \in 1 .. n PROVE Answers(next[i], polls'[i])
  <2>1. CASE i = r
    BY <1>7, <1>8, <1>9, <2>1 DEF Answers
  <2>2. CASE i # r
    BY <1>8, <1>9, <1>12, <2>2
  <2> QED
    BY <2>1, <2>2
<1>17. ASSUME NEW i \in 1 .. n, NEW j \in 1 .. n, i < j
       PROVE  Later(next[i], next[j]) /\ (polls'[j].ran => polls'[i].ran)
  <2>1. Later(seen[i], seen[j]) /\ (polls[j].ran => polls[i].ran)
    BY <1>6, <1>17 DEF Follows
  <2>2. CASE i = r
    <3>1. ~polls[j].ran /\ seen[j] = U!Empty /\ j # r
      BY <1>4, <1>6, <1>12, <1>17, <2>1, <2>2 DEF Answers
    <3> QED
      BY <1>8, <1>9, <1>7, <1>13, <2>2, <3>1, EmptyIsSound DEF Between
  <2>3. CASE j = r
    <3>1. i # r /\ i \in 1 .. r - 1
      BY <1>6, <1>17, <2>3
    <3>2. polls[i].ran
      BY <3>1 DEF U!Run
    <3> QED
      BY <1>8, <1>9, <1>12, <2>3, <3>1, <3>2 DEF Between
  <2>4. CASE i # r /\ j # r
    BY <1>8, <1>9, <2>1, <2>4
  <2> QED
    BY <2>2, <2>3, <2>4
<1>18. Follows(next)'
  <2>1. /\ time' \in 0 .. UsageTime /\ Fits(server)' /\ Later(chart, server)'
        /\ Len(server'.system) <= UsagePoints /\ Len(server'.gpu) <= UsagePoints
    BY <1>4, <1>5 DEF Follows
  <2> QED
    BY <2>1, <1>8, <1>9, <1>11, <1>14, <1>15, <1>16, <1>17 DEF Follows
<1> QED
  BY <1>18

\* An answer arrives: the chart becomes what its poll saw.
LEMMA AnswerStep ==
  ASSUME NEW seen, Follows(seen), U!Answer
  PROVE  /\ \E next : Follows(next)'
         /\ server.there /\ Head(polls).delta = U!Snapshot(server, Head(polls).since)
              => /\ U!Shows(chart'.system, server.system)
                 /\ U!Shows(chart'.gpu, server.gpu)
<1>1. PICK n : n = Len(polls)
  OBVIOUS
<1>2. PICK next : next = Tail(seen)
  OBVIOUS
<1>3. PICK v, since, delta, drawn :
        /\ v = seen[1] /\ since = polls[1].since /\ delta = polls[1].delta
        /\ drawn = Held(delta)
  OBVIOUS
<1>4. /\ UNCHANGED <<time, server>> /\ polls # <<>> /\ polls' = Tail(polls)
      /\ Head(polls).ran
  BY DEF U!Answer
<1>5. time \in 0 .. UsageTime /\ time \in Nat
  BY MonitoringAssumption DEF Follows, U!HistoryAssumption
<1>6. /\ seen \in Seq(History) /\ polls \in Seq(Asked) /\ Len(seen) = n /\ n \in Nat
      /\ 1 \in 1 .. n /\ DOMAIN seen = 1 .. n /\ DOMAIN polls = 1 .. n
      /\ polls[1] \in Asked /\ Head(polls) = polls[1]
  BY <1>1, <1>4 DEF Follows
<1>7. chart' = drawn
  BY <1>3, <1>6 DEF U!Answer, Held
<1>8. /\ next \in Seq(History) /\ Len(next) = n - 1 /\ DOMAIN next = 1 .. n - 1
      /\ polls' \in Seq(Asked) /\ Len(polls') = n - 1 /\ DOMAIN polls' = 1 .. n - 1
      /\ \A i \in 1 .. n - 1 : next[i] = seen[i + 1] /\ polls'[i] = polls[i + 1]
  BY <1>1, <1>2, <1>4, <1>6
<1>9. \A i \in 1 .. n - 1 : i + 1 \in 1 .. n /\ 1 < i + 1
  BY <1>6
<1>10. ASSUME NEW i \in 1 .. n
       PROVE  /\ Between(seen[i]) /\ Asks(seen, polls[i].since) /\ polls[i].since \in Nat
              /\ Answers(seen[i], polls[i])
  <2>1. polls[i] \in Asked
    BY <1>6
  <2> QED
    BY <1>6, <2>1 DEF Follows, Asked
<1>11. /\ Between(v) /\ Asks(seen, since) /\ since \in Nat
       /\ delta = U!Snapshot(v, since)
  BY <1>3, <1>4, <1>6, <1>10 DEF Answers
<1>12. Sound(chart) /\ Sound(server) /\ Later(chart, server) /\ Fits(server)
  BY DEF Follows
<1>13. Reaches(v, since)
  BY <1>3, <1>6, <1>11 DEF Asks
<1>14. /\ Sound(drawn) /\ (chart.there => drawn.there)
       /\ \A k : Sound(k) /\ Later(chart, k) /\ Later(v, k) => Later(drawn, k)
       /\ \A t \in Nat : Reaches(chart, t) /\ Reaches(v, t) => Reaches(drawn, t)
  <2>1. drawn = Held(U!Snapshot(v, since))
    BY <1>3, <1>11
  <2> QED
    BY <1>11, <1>12, <1>13, <2>1, AnsweredHistory DEF Between, Asks
<1>15. ASSUME server.there, Head(polls).delta = U!Snapshot(server, Head(polls).since)
       PROVE  /\ U!Shows(chart'.system, server.system)
              /\ U!Shows(chart'.gpu, server.gpu)
  <2>1. drawn = Held(U!Snapshot(server, since))
    BY <1>3, <1>6, <1>15
  <2>2. U!Shows(drawn.system, server.system) /\ U!Shows(drawn.gpu, server.gpu)
    BY <1>11, <1>12, <1>15, <2>1, AnsweredHistory DEF Asks
  <2> QED
    BY <1>7, <2>2
<1>16. \A h : Sound(h) => Sound(h)'
  BY <1>4, <1>5, SoundStays
<1>17. Sound(server)' /\ Sound(chart)' /\ Later(chart, server)'
  <2>1. Sound(server)'
    BY <1>4, <1>12, <1>16 DEF Sound
  <2>2. Sound(drawn)'
    BY <1>14, <1>16
  <2>3. Sound(chart)'
    BY <1>7, <2>2 DEF Sound
  <2>4. Later(drawn, server)
    BY <1>11, <1>12, <1>14 DEF Between
  <2> QED
    BY <1>4, <1>7, <2>1, <2>3, <2>4
<1>18. ASSUME NEW i \in 1 .. n - 1 PROVE Between(next[i])'
  <2>1. Between(seen[i + 1]) /\ Later(v, seen[i + 1])
    <3>1. Later(seen[1], seen[i + 1])
      BY <1>6, <1>9 DEF Follows
    <3> QED
      BY <1>3, <1>9, <1>10, <3>1
  <2>2. Later(drawn, seen[i + 1])
    BY <1>14, <2>1 DEF Between
  <2>3. Sound(seen[i + 1])'
    BY <1>16, <2>1 DEF Between
  <2> QED
    BY <1>4, <1>7, <1>8, <2>1, <2>2, <2>3 DEF Between
<1>19. ASSUME NEW i \in 1 .. n - 1 PROVE Asks(next, polls[i].since)'
  <2>1. PICK t : t = polls[i + 1].since
    OBVIOUS
  <2>2. Asks(seen, t) /\ t \in Nat
    BY <1>9, <1>10, <2>1
  <2>3. Reaches(v, t) /\ \A j \in 1 .. n - 1 : Reaches(next[j], t)
    BY <1>3, <1>6, <1>8, <1>9, <2>2 DEF Asks
  <2>4. Reaches(drawn, t) /\ (~drawn.there => t = 0)
    BY <1>14, <2>2, <2>3 DEF Asks
  <2>5. U!BucketStart(time)' = U!BucketStart(time)
    BY <1>4 DEF U!BucketStart
  <2>6. polls'[i].since = t
    BY <1>8, <2>1
  <2> QED
    BY <1>4, <1>7, <1>8, <2>2, <2>3, <2>4, <2>5, <2>6 DEF Asks
<1>20. ASSUME NEW i \in 1 .. n - 1 PROVE Answers(next[i], polls'[i])
  BY <1>8, <1>9, <1>10
<1>21. ASSUME NEW i \in 1 .. n - 1, NEW j \in 1 .. n - 1, i < j
       PROVE  Later(next[i], next[j]) /\ (polls'[j].ran => polls'[i].ran)
  <2>1. i + 1 < j + 1
    BY <1>6, <1>21
  <2>2. Later(seen[i + 1], seen[j + 1]) /\ (polls[j + 1].ran => polls[i + 1].ran)
    BY <1>6, <1>9, <2>1 DEF Follows
  <2> QED
    BY <1>8, <2>2
<1>22. Follows(next)'
  <2>1. /\ time' \in 0 .. UsageTime /\ Fits(server)'
        /\ Len(server'.system) <= UsagePoints /\ Len(server'.gpu) <= UsagePoints
    BY <1>4, <1>5 DEF Follows
  <2> QED
    BY <2>1, <1>8, <1>17, <1>18, <1>19, <1>20, <1>21 DEF Follows
<1> QED
  BY <1>15, <1>22

\* A chart that is given an answer nothing has been recorded after is complete.
Completes ==
  U!Answer /\ server.there /\ Head(polls).delta = U!Snapshot(server, Head(polls).since)
    => U!Shows(chart'.system, server.system) /\ U!Shows(chart'.gpu, server.gpu)

\* Every step of the usage history keeps its invariant, and answers complete.
LEMMA UsageStep ==
  UsageInv /\ [U!Next]_usageVars => UsageInv' /\ [Completes]_usageVars
<1> SUFFICES ASSUME UsageInv, [U!Next]_usageVars PROVE UsageInv' /\ [Completes]_usageVars
  OBVIOUS
<1>1. PICK seen : Follows(seen)
  BY DEF UsageInv
<1>2. CASE UNCHANGED usageVars
  <2>1. UNCHANGED <<time, server, polls, chart>>
    BY <1>2 DEF usageVars
  <2>2. Follows(seen)'
    BY <1>1, <2>1 DEF Follows, Between, Asks, Sound, U!BucketStart
  <2> QED
    BY <1>2, <2>2 DEF UsageInv
<1>3. ASSUME U!Next PROVE UsageInv'
  <2>1. ASSUME NEW gpu \in BOOLEAN, U!Record(gpu) PROVE UsageInv'
    BY <1>1, <2>1, RecordStep DEF UsageInv
  <2>2. CASE U!Forget
    BY <1>1, <2>2, ForgetStep DEF UsageInv
  <2>3. CASE U!Poll
    BY <1>1, <2>3, PollStep DEF UsageInv
  <2>4. CASE U!Answer
    BY <1>1, <2>4, AnswerStep DEF UsageInv
  <2>5. ASSUME NEW i \in DOMAIN polls, U!Run(i) PROVE UsageInv'
    BY <1>1, <2>5, RunStep DEF UsageInv
  <2>6. ASSUME NEW t \in 0 .. UsageTime, U!ClockMoves(t) PROVE UsageInv'
    BY <1>1, <2>6, ClockStep DEF UsageInv
  <2> QED
    BY <1>3, <2>1, <2>2, <2>3, <2>4, <2>5, <2>6 DEF U!Next
<1>4. Completes
  BY <1>1, AnswerStep DEF Completes
<1> QED
  BY <1>2, <1>3, <1>4

-----------------------------------------------------------------------------
(* The history of AGY's quota.                                             *)

\* One point for each bucket, in the order of time.
InOrder(points) ==
  \A i, j \in 1 .. Len(points) :
    i < j => points[i] \div AgyBucket < points[j] \div AgyBucket

AgyInv ==
  /\ clock \in H!Times /\ agyHistory \in Seq(H!Times)
  /\ Len(agyHistory) <= AgyPoints /\ InOrder(agyHistory)

\* Buckets are numbers, in the order of time.
LEMMA AgyDivision ==
  /\ AgyTime \in Nat /\ AgyPoints \in Nat \ {0}
  /\ \A t \in H!Times : t \in Nat /\ t \div AgyBucket \in Nat
  /\ \A t, u \in H!Times : t <= u => t \div AgyBucket <= u \div AgyBucket
<1>1. AgyTime \in Nat /\ AgyPoints \in Nat \ {0} /\ AgyBucket \in Nat \ {0}
  BY MonitoringAssumption DEF H!AgyHistoryAssumption
<1>2. \A t \in H!Times : t \in Nat
  BY <1>1 DEF H!Times
<1>3. \A t \in Nat : t \div AgyBucket \in Nat
  BY <1>1
<1>4. \A t, u \in Nat : t <= u => t \div AgyBucket <= u \div AgyBucket
  BY <1>1
<1> QED
  BY <1>1, <1>2, <1>3, <1>4

\* A trimmed history of AGY is in order and bounded.
LEMMA TrimmedInOrder ==
  ASSUME NEW points \in Seq(H!Times), InOrder(points), NEW t
  PROVE  /\ H!Trimmed(points, t) \in Seq(H!Times)
         /\ Len(H!Trimmed(points, t)) <= AgyPoints /\ InOrder(H!Trimmed(points, t))
<1> DEFINE wanted == {u \in H!Times : u + AgyWindow >= t}
           kept == H!Kept(points, wanted)
           n == Len(kept)
           last == SubSeq(kept, n - AgyPoints + 1, n)
<1>1. kept \in Seq(H!Times) /\ KeptOf(kept, points, wanted, Len(points))
  BY KeptFits
<1>2. H!Trimmed(points, t) = IF n <= AgyPoints THEN kept ELSE last
  BY DEF H!Trimmed
<1> HIDE DEF kept, wanted
<1>3. PICK g : PickedBy(g, kept, points, Len(points))
  BY <1>1 DEF KeptOf
<1>4. InOrder(kept)
  <2> SUFFICES ASSUME NEW i \in 1 .. n, NEW j \in 1 .. n, i < j
               PROVE  kept[i] \div AgyBucket < kept[j] \div AgyBucket
    BY DEF InOrder
  <2>1. /\ g[i] \in 1 .. Len(points) /\ g[j] \in 1 .. Len(points) /\ g[i] < g[j]
        /\ kept[i] = points[g[i]] /\ kept[j] = points[g[j]]
    BY <1>3 DEF PickedBy
  <2> QED
    BY <2>1 DEF InOrder
<1>5. CASE n <= AgyPoints
  BY <1>1, <1>2, <1>4, <1>5
<1>6. CASE ~(n <= AgyPoints)
  <2>1. n \in Nat /\ AgyPoints \in Nat \ {0} /\ AgyPoints < n
    BY <1>1, <1>6, AgyDivision
  <2>2. \A i \in 1 .. AgyPoints : (n - AgyPoints) + i \in 1 .. n
    BY <2>1
  <2>3. /\ last \in Seq(H!Times) /\ Len(last) = AgyPoints
        /\ \A i \in 1 .. AgyPoints : last[i] = kept[(n - AgyPoints) + i]
    BY <1>1, <2>1
  <2>4. InOrder(last)
    <3> SUFFICES ASSUME NEW i \in 1 .. AgyPoints, NEW j \in 1 .. AgyPoints, i < j
                 PROVE  last[i] \div AgyBucket < last[j] \div AgyBucket
      BY <2>3 DEF InOrder
    <3>1. (n - AgyPoints) + i < (n - AgyPoints) + j
      BY <2>1
    <3> HIDE DEF last, n
    <3> QED
      BY <1>4, <2>2, <2>3, <3>1 DEF InOrder, n
  <2> QED
    BY <1>2, <1>6, <2>1, <2>3, <2>4
<1> QED
  BY <1>5, <1>6

\* A reading replaces the one of its bucket.
LEMMA ReplacedInOrder ==
  ASSUME NEW points \in Seq(H!Times), InOrder(points), NEW t \in H!Times,
         NEW i \in DOMAIN points, points[i] \div AgyBucket = t \div AgyBucket
  PROVE  [points EXCEPT ![i] = t] \in Seq(H!Times) /\ InOrder([points EXCEPT ![i] = t])
<1> DEFINE next == [points EXCEPT ![i] = t]
<1>1. /\ next \in Seq(H!Times) /\ Len(next) = Len(points)
      /\ \A j \in 1 .. Len(points) : next[j] \div AgyBucket = points[j] \div AgyBucket
  OBVIOUS
<1> HIDE DEF next
<1>2. InOrder(next)
  BY <1>1 DEF InOrder
<1> QED
  BY <1>1, <1>2 DEF next

\* Two series one after the other.
LEMMA Joined ==
  ASSUME NEW s \in Seq(H!Times), NEW u \in Seq(H!Times)
  PROVE  /\ s \o u \in Seq(H!Times) /\ Len(s \o u) = Len(s) + Len(u)
         /\ \A i \in 1 .. Len(s) : (s \o u)[i] = s[i]
         /\ \A i \in Len(s) + 1 .. Len(s) + Len(u) : (s \o u)[i] = u[i - Len(s)]
<1>1. s \o u \in Seq(H!Times) /\ Len(s \o u) = Len(s) + Len(u)
  OBVIOUS
<1>2. \A i \in 1 .. Len(s) : (s \o u)[i] = s[i]
  OBVIOUS
<1>3. \A i \in Len(s) + 1 .. Len(s) + Len(u) : (s \o u)[i] = u[i - Len(s)]
  OBVIOUS
<1> QED
  BY <1>1, <1>2, <1>3

\* A reading of a new bucket goes to its place, even if the clock went back.
LEMMA InsertedInOrder ==
  ASSUME NEW points \in Seq(H!Times), InOrder(points), NEW t \in H!Times,
         H!SameBucket(points, t) = {}
  PROVE  LET after == CHOOSE k \in 0 .. Len(points) :
                        /\ \A i \in 1 .. k : points[i] <= t
                        /\ k < Len(points) => t < points[k + 1]
         IN /\ H!InsertAt(points, after + 1, t) \in Seq(H!Times)
            /\ InOrder(H!InsertAt(points, after + 1, t))
<1> DEFINE n == Len(points)
           Goes(k) == /\ \A i \in 1 .. k : points[i] <= t
                      /\ k < n => t < points[k + 1]
           after == CHOOSE k \in 0 .. n : Goes(k)
           before == SubSeq(points, 1, after)
           behind == SubSeq(points, after + 1, n)
           next == before \o <<t>> \o behind
           N == {k \in 0 .. n : k < n => t < points[k + 1]}
<1>1. n \in Nat /\ DOMAIN points = 1 .. n /\ \A i \in 1 .. n : points[i] \in H!Times
  OBVIOUS
<1>2. after \in 0 .. n /\ Goes(after)
  <2>1. PICK k \in N : \A m \in N : k <= m
    <3>1. N \subseteq Nat /\ n \in N
      BY <1>1
    <3> HIDE DEF N
    <3> QED
      BY <3>1, LeastExists
  <2>2. ASSUME NEW i \in 1 .. k PROVE points[i] <= t
    <3>1. i - 1 \in 0 .. n /\ ~(k <= i - 1) /\ i - 1 < n /\ (i - 1) + 1 = i
      BY <1>1
    <3>2. ~(t < points[i]) /\ points[i] \in H!Times
      BY <1>1, <2>1, <3>1
    <3> QED
      BY <3>2, AgyDivision
  <2>3. k \in 0 .. n /\ Goes(k)
    BY <2>2
  <2> HIDE DEF Goes
  <2> QED
    BY <2>3
<1>3. H!InsertAt(points, after + 1, t) = next
  <2>1. (after + 1) - 1 = after
    BY <1>2
  <2> HIDE DEF after
  <2> QED
    BY <2>1 DEF H!InsertAt
<1>4. Goes(after)
  BY <1>2
<1>5. \A i \in 1 .. n : points[i] \div AgyBucket # t \div AgyBucket
  BY <1>1 DEF H!SameBucket
<1>6. \A i \in 1 .. after : points[i] \div AgyBucket < t \div AgyBucket
  <2> HIDE DEF after
  <2>1. ASSUME NEW i \in 1 .. after
        PROVE  points[i] \div AgyBucket < t \div AgyBucket
    <3>1. i \in 1 .. n /\ points[i] \in H!Times /\ points[i] <= t
      BY <1>1, <1>2
    <3>2. /\ points[i] \div AgyBucket <= t \div AgyBucket
          /\ points[i] \div AgyBucket \in Nat /\ t \div AgyBucket \in Nat
      BY <3>1, AgyDivision
    <3> QED
      BY <1>5, <3>1, <3>2
  <2> QED
    BY <2>1
<1>7. \A i \in after + 1 .. n : t \div AgyBucket < points[i] \div AgyBucket
  <2> HIDE DEF after
  <2>1. ASSUME NEW i \in after + 1 .. n
        PROVE  t \div AgyBucket < points[i] \div AgyBucket
    <3>1. after + 1 \in 1 .. n /\ i \in 1 .. n /\ after < n
      BY <1>1, <1>2
    <3>2. t < points[after + 1] /\ points[after + 1] \in H!Times
      BY <1>1, <1>2, <3>1
    <3>3. t \div AgyBucket <= points[after + 1] \div AgyBucket
      BY <3>2, AgyDivision
    <3>4. /\ t \div AgyBucket \in Nat /\ points[after + 1] \div AgyBucket \in Nat
          /\ points[i] \div AgyBucket \in Nat
      BY <1>1, <3>1, AgyDivision
    <3>5. points[after + 1] \div AgyBucket <= points[i] \div AgyBucket
      <4>1. CASE i = after + 1
        BY <3>4, <4>1
      <4>2. CASE after + 1 < i
        BY <3>1, <3>4, <4>2 DEF InOrder
      <4> QED
        BY <1>2, <4>1, <4>2
    <3> QED
      BY <1>5, <3>1, <3>3, <3>4, <3>5
  <2> QED
    BY <2>1
<1> HIDE DEF after, Goes, N, n
<1>8. after \in 0 .. n
  BY <1>2
<1>9. /\ before \in Seq(H!Times) /\ Len(before) = after
      /\ \A i \in 1 .. after : before[i] = points[i]
  BY <1>1, <1>2
<1>10. /\ behind \in Seq(H!Times) /\ Len(behind) = n - after
       /\ \A i \in 1 .. n - after : behind[i] = points[after + i]
  <2>1. after + 1 \in 1 .. n + 1 /\ n - after \in Nat
        /\ (n - (after + 1)) + 1 = n - after
    BY <1>1, <1>8
  <2>2. \A i \in after + 1 .. n : points[i] \in H!Times
    BY <1>1, <2>1
  <2>3. behind \in Seq(H!Times)
    BY <1>1, <2>1, <2>2
  <2>4. Len(behind) = n - after
    BY <1>1, <1>8, <2>1
  <2>5. \A i \in 1 .. n - after : behind[i] = points[after + i]
    BY <1>1, <1>8, <2>1
  <2> QED
    BY <2>3, <2>4, <2>5
<1> HIDE DEF before, behind
<1>11. /\ next \in Seq(H!Times) /\ Len(next) = n + 1
       /\ \A i \in 1 .. after : next[i] = points[i]
       /\ next[after + 1] = t
       /\ \A i \in after + 2 .. n + 1 : next[i] = points[i - 1]
  <2> DEFINE first == before \o <<t>>
  <2>1. /\ first \in Seq(H!Times) /\ Len(first) = after + 1
        /\ \A i \in 1 .. after : first[i] = points[i]
        /\ first[after + 1] = t
    BY <1>2, <1>9
  <2> HIDE DEF first
  <2>2. /\ first \o behind \in Seq(H!Times)
        /\ Len(first \o behind) = (after + 1) + (n - after)
        /\ \A i \in 1 .. after + 1 : (first \o behind)[i] = first[i]
        /\ \A i \in after + 2 .. n + 1 : (first \o behind)[i] = behind[i - (after + 1)]
    <3>0. /\ Len(first) = after + 1 /\ Len(behind) = n - after /\ n \in Nat /\ after \in Nat
          /\ after <= n
      BY <1>1, <1>8, <1>10, <2>1
    <3>1. after + 2 = Len(first) + 1 /\ n + 1 = Len(first) + Len(behind)
      BY <3>0
    <3>2. first \in Seq(H!Times) /\ behind \in Seq(H!Times)
      BY <1>10, <2>1
    <3>3. /\ first \o behind \in Seq(H!Times)
          /\ Len(first \o behind) = Len(first) + Len(behind)
          /\ \A i \in 1 .. Len(first) : (first \o behind)[i] = first[i]
          /\ \A i \in Len(first) + 1 .. Len(first) + Len(behind) :
               (first \o behind)[i] = behind[i - Len(first)]
      BY <3>2, Joined, Zenon
    <3> QED
      BY <1>10, <2>1, <3>1, <3>3, Zenon
  <2>3. next = first \o behind
    BY DEF first
  <2> HIDE DEF next
  <2>4. \A i \in after + 2 .. n + 1 : /\ i - (after + 1) \in 1 .. n - after
                                      /\ after + (i - (after + 1)) = i - 1
    BY <1>1, <1>2
  <2>5. \A i \in 1 .. after : i \in 1 .. after + 1
    BY <1>2
  <2>6. after + 1 \in 1 .. after + 1 /\ (after + 1) + (n - after) = n + 1
    BY <1>1, <1>2
  <2>7. \A i \in after + 2 .. n + 1 : next[i] = points[i - 1]
    BY <1>10, <2>2, <2>3, <2>4
  <2> QED
    BY <2>1, <2>2, <2>3, <2>5, <2>6, <2>7
<1> HIDE DEF next, n
<1>12. InOrder(next)
  <2> SUFFICES ASSUME NEW i \in 1 .. n + 1, NEW j \in 1 .. n + 1, i < j
               PROVE  next[i] \div AgyBucket < next[j] \div AgyBucket
    BY <1>11 DEF InOrder
  <2>1. \A k \in 1 .. n + 1 : k \in 1 .. after \/ k = after + 1 \/ k \in after + 2 .. n + 1
    BY <1>1, <1>2
  <2>2. \A k \in 1 .. n : points[k] \div AgyBucket \in Nat
    BY <1>1, AgyDivision
  <2>3. t \div AgyBucket \in Nat
    BY AgyDivision
  <2>4. \A k \in after + 2 .. n + 1 : k - 1 \in 1 .. n /\ k - 1 \in after + 1 .. n
    BY <1>1, <1>2
  <2>5. \A k \in 1 .. after : k \in 1 .. n
    BY <1>1, <1>2
  <2>6. CASE i \in 1 .. after
    <3>1. CASE j \in 1 .. after
      BY <1>11, <2>5, <2>6, <3>1 DEF InOrder, n
    <3>2. CASE j = after + 1
      BY <1>6, <1>11, <2>6, <3>2
    <3>3. CASE j \in after + 2 .. n + 1
      <4>1. i < j - 1
        BY <1>1, <1>2, <2>6, <3>3
      <4> QED
        BY <1>11, <2>4, <2>5, <2>6, <3>3, <4>1 DEF InOrder, n
    <3> QED
      BY <2>1, <3>1, <3>2, <3>3
  <2>7. CASE i = after + 1
    <3>1. j \in after + 2 .. n + 1
      BY <1>1, <1>2, <2>7
    <3> QED
      BY <1>7, <1>11, <2>4, <2>7, <3>1
  <2>8. CASE i \in after + 2 .. n + 1
    <3>1. j \in after + 2 .. n + 1 /\ i - 1 < j - 1
      BY <1>1, <1>2, <2>8
    <3> QED
      BY <1>11, <2>4, <2>8, <3>1 DEF InOrder, n
  <2> QED
    BY <2>1, <2>6, <2>7, <2>8
<1> QED
  BY <1>3, <1>11, <1>12 DEF n, after, Goes
\* The history of AGY starts in its invariant.
LEMMA AgyInit == H!Init => AgyInv
BY AgyDivision DEF H!Init, AgyInv, H!Times, InOrder

\* Every step of the history of AGY keeps its invariant.
LEMMA AgyStep == AgyInv /\ [H!Next]_agyVars => AgyInv'
<1> SUFFICES ASSUME AgyInv, [H!Next]_agyVars PROVE AgyInv'
  OBVIOUS
<1>1. CASE UNCHANGED agyVars
  BY <1>1 DEF agyVars, AgyInv, InOrder
<1>2. CASE H!Record
  <2>1. /\ H!Upserted(agyHistory, clock) \in Seq(H!Times)
        /\ Len(H!Upserted(agyHistory, clock)) <= AgyPoints
        /\ InOrder(H!Upserted(agyHistory, clock))
    <3>1. CASE H!SameBucket(agyHistory, clock) # {}
      <4>1. PICK i : i = CHOOSE k \in H!SameBucket(agyHistory, clock) : TRUE
        OBVIOUS
      <4>2. i \in DOMAIN agyHistory /\ agyHistory[i] \div AgyBucket = clock \div AgyBucket
        BY <3>1, <4>1 DEF H!SameBucket
      <4>3. /\ [agyHistory EXCEPT ![i] = clock] \in Seq(H!Times)
            /\ InOrder([agyHistory EXCEPT ![i] = clock])
        BY <4>2, ReplacedInOrder DEF AgyInv
      <4>4. H!Upserted(agyHistory, clock) =
              H!Trimmed([agyHistory EXCEPT ![i] = clock], clock)
        BY <3>1, <4>1 DEF H!Upserted
      <4> QED
        BY <4>3, <4>4, TrimmedInOrder
    <3>2. CASE H!SameBucket(agyHistory, clock) = {}
      <4>1. PICK after : after = CHOOSE k \in 0 .. Len(agyHistory) :
                                   /\ \A i \in 1 .. k : agyHistory[i] <= clock
                                   /\ k < Len(agyHistory) => clock < agyHistory[k + 1]
        OBVIOUS
      <4>2. /\ H!InsertAt(agyHistory, after + 1, clock) \in Seq(H!Times)
            /\ InOrder(H!InsertAt(agyHistory, after + 1, clock))
        BY <3>2, <4>1, InsertedInOrder DEF AgyInv
      <4>3. H!Upserted(agyHistory, clock) =
              H!Trimmed(H!InsertAt(agyHistory, after + 1, clock), clock)
        BY <3>2, <4>1 DEF H!Upserted
      <4> QED
        BY <4>2, <4>3, TrimmedInOrder
    <3> QED
      BY <3>1, <3>2
  <2> QED
    BY <1>2, <2>1 DEF H!Record, AgyInv, InOrder
<1>3. CASE H!Sync
  <2>1. /\ H!Trimmed(agyHistory, clock) \in Seq(H!Times)
        /\ Len(H!Trimmed(agyHistory, clock)) <= AgyPoints
        /\ InOrder(H!Trimmed(agyHistory, clock))
    BY TrimmedInOrder DEF AgyInv
  <2> QED
    BY <1>3, <2>1 DEF H!Sync, AgyInv, InOrder
<1>4. ASSUME NEW t \in H!Times, H!ClockSet(t) PROVE AgyInv'
  BY <1>4 DEF H!ClockSet, AgyInv, InOrder
<1> QED
  BY <1>1, <1>2, <1>3, <1>4 DEF H!Next

-----------------------------------------------------------------------------
(* The histories as part of the monitor.                                   *)

\* A step of the monitor is one of each history or leaves it alone.
LEMMA HistoriesAct ==
  [Next]_vars => [U!Next]_usageVars /\ [H!Next]_agyVars
BY Zenon DEF Next, vars, Rest

\* The invariants give the order of every series.
LEMMA HistoriesInOrder ==
  UsageInv /\ AgyInv => U!SeriesInOrder /\ H!HistoryInOrder
<1>1. ASSUME UsageInv PROVE U!SeriesInOrder
  <2>1. PICK seen : Follows(seen)
    BY <1>1 DEF UsageInv
  <2> QED
    BY <2>1 DEF Follows, Sound, U!SeriesInOrder
<1>2. ASSUME AgyInv PROVE H!HistoryInOrder
  BY <1>2 DEF AgyInv, InOrder, H!HistoryInOrder
<1> QED
  BY <1>1, <1>2

\* A chart that was pieced together from deltas shows the history it was last
\* given the end of, whatever came in between, and every series is drawn in the
\* order of time, one point for a bucket.
THEOREM ChartsAreCompleteAlways == Spec => ChartsAreComplete
<1>1. Init => UsageInv /\ AgyInv
  BY UsageInit, AgyInit DEF Init
<1>2. UsageInv /\ AgyInv /\ [Next]_vars =>
        UsageInv' /\ AgyInv' /\ [Completes]_usageVars
  BY HistoriesAct, UsageStep, AgyStep
<1>3. UsageInv /\ AgyInv => U!SeriesInOrder /\ H!HistoryInOrder
  BY HistoriesInOrder
<1> QED
  BY <1>1, <1>2, <1>3, PTL
     DEF Spec, ChartsAreComplete, U!ChartIsComplete, Completes, U!vars, usageVars

-----------------------------------------------------------------------------
(* The set-up of the status line of Claude.                                *)

\* What is still to be written.
Plans ==
  {<<>>, <<"settings">>, <<"backup", "settings">>, <<"helper", "settings">>,
   <<"helper", "backup", "settings">>}
OurSettings == [keys |-> IF found = none THEN {} ELSE found.keys, line |-> "ours"]
Survives(c) == c \in K!Settings /\ found.keys \subseteq c.keys

SetupTypes ==
  /\ via \in {"local", "remote"} /\ runtime \in BOOLEAN
  /\ setupFiles \in [K!Files -> K!Settings \cup {none, half, "old", "new"}]
  /\ setupFiles["helper"] \in {none, "old", "new"}
  /\ setupFiles["settings"] \in K!Settings \cup {none}
  /\ setupFiles["backup"] \in K!Settings \cup {none, half}
  /\ beside \in [K!Files -> K!Settings \cup {none, half, "old", "new"}]
  /\ beside["settings"] \in K!Settings \cup {none, half}
  /\ beside["backup"] \in K!Settings \cup {none, half}
  /\ plan \in Plans
  /\ setupStep \in {"idle", "write", "unlink", "rename", "done", "failed"}
  /\ found \in K!Settings \cup {none}

\* What is to take the place of a file is beside it before that is touched; until
\* then the settings are as they were read, or have more.
SetupInv ==
  /\ SetupTypes
  /\ setupStep = "idle" => found = none /\ plan = <<>>
  /\ setupStep \in {"unlink", "rename"} =>
       /\ plan # <<>>
       /\ Head(plan) = "helper" => beside["helper"] = "new"
       /\ Head(plan) = "settings" => beside["settings"] = OurSettings
  /\ (found # none /\ (setupStep = "write"
                       \/ (setupStep \in {"unlink", "rename"} /\ Head(plan) # "settings")))
       => Survives(setupFiles["settings"])
  /\ (found # none /\ setupStep \in {"done", "failed"}) =>
       Survives(setupFiles["settings"]) \/ Survives(beside["settings"])
  /\ ~runtime => /\ setupStep \in {"idle", "done"}
                 /\ (setupFiles["settings"] # none /\ setupFiles["settings"].line = "ours")
                      => setupFiles["helper"] # none
  /\ (setupStep \in {"write", "unlink", "rename"} /\ (plan = <<>> \/ Head(plan) # "helper"))
       => setupFiles["helper"] = "new"
  /\ setupStep = "unlink" => via = "remote"
  /\ K!LineHasHelper

LEMMA SetupConstants ==
  /\ none # half /\ none \notin K!Settings /\ half \notin K!Settings
  /\ none \notin {"old", "new"} /\ half \notin {"old", "new"}
  /\ \A s \in K!Settings : /\ s.keys \subseteq Keys /\ s.line \in K!Lines
                           /\ s = [keys |-> s.keys, line |-> s.line]
  /\ OurSettings = [keys |-> IF found = none THEN {} ELSE found.keys, line |-> "ours"]
  BY MonitoringAssumption DEF K!SetupAssumption, K!Settings, OurSettings

LEMMA PlanCases ==
  ASSUME NEW p \in Plans
  PROVE  \/ p = <<>>
         \/ p = <<"settings">> /\ Head(p) = "settings" /\ Tail(p) = <<>>
         \/ p = <<"backup", "settings">> /\ Head(p) = "backup" /\ Tail(p) = <<"settings">>
         \/ p = <<"helper", "settings">> /\ Head(p) = "helper" /\ Tail(p) = <<"settings">>
         \/ /\ p = <<"helper", "backup", "settings">> /\ Head(p) = "helper"
            /\ Tail(p) = <<"backup", "settings">>
<1>1. Tail(<<"settings">>) = <<>> /\ Head(<<"settings">>) = "settings"
  OBVIOUS
<1>2. Tail(<<"backup", "settings">>) = <<"settings">> /\ Head(<<"backup", "settings">>) = "backup"
  OBVIOUS
<1>3. Tail(<<"helper", "settings">>) = <<"settings">> /\ Head(<<"helper", "settings">>) = "helper"
  OBVIOUS
<1>4. /\ Tail(<<"helper", "backup", "settings">>) = <<"backup", "settings">>
      /\ Head(<<"helper", "backup", "settings">>) = "helper"
  OBVIOUS
<1> QED
  BY <1>1, <1>2, <1>3, <1>4, Zenon DEF Plans

LEMMA HeadOfRest ==
  ASSUME NEW p \in Plans, p # <<>>
  PROVE  /\ Head(p) \in K!Files /\ Tail(p) \in Plans
         /\ Head(p) = "settings" => Tail(p) = <<>>
         /\ Head(p) = "helper" => Tail(p) # <<>> /\ Head(Tail(p)) # "helper"
         /\ Head(p) = "backup" => Tail(p) # <<>> /\ Head(Tail(p)) # "helper"
<1>1. Head(<<"settings">>) = "settings" /\ Head(<<"backup", "settings">>) = "backup"
  OBVIOUS
<1>2. <<"settings">> # <<>> /\ <<"backup", "settings">> # <<>>
  OBVIOUS
<1>3. <<>> \in Plans /\ <<"settings">> \in Plans /\ <<"backup", "settings">> \in Plans
  BY DEF Plans
<1>4. {"helper", "settings", "backup"} = K!Files
  BY DEF K!Files
<1>5. CASE p = <<"settings">> /\ Head(p) = "settings" /\ Tail(p) = <<>>
  BY <1>3, <1>4, <1>5
<1>6. CASE p = <<"backup", "settings">> /\ Head(p) = "backup" /\ Tail(p) = <<"settings">>
  BY <1>1, <1>2, <1>3, <1>4, <1>6
<1>7. CASE p = <<"helper", "settings">> /\ Head(p) = "helper" /\ Tail(p) = <<"settings">>
  BY <1>1, <1>2, <1>3, <1>4, <1>7
<1>8. CASE /\ p = <<"helper", "backup", "settings">> /\ Head(p) = "helper"
           /\ Tail(p) = <<"backup", "settings">>
  BY <1>1, <1>2, <1>3, <1>4, <1>8
<1> QED
  BY <1>5, <1>6, <1>7, <1>8, PlanCases

LEMMA OneAndOne ==
  ASSUME NEW S, NEW a \in S, NEW b \in S
  PROVE  <<a>> \o <<b>> = <<a, b>>
<1>1. <<a>> \in Seq(S) /\ <<b>> \in Seq(S) /\ <<a, b>> \in Seq(S)
  OBVIOUS
<1>2. Len(<<a>>) = 1 /\ Len(<<b>>) = 1 /\ Len(<<a, b>>) = 2
  OBVIOUS
<1>3. PICK s : s = <<a>> \o <<b>>
  OBVIOUS
<1>4. s \in Seq(S) /\ Len(s) = 2
  BY <1>1, <1>2, <1>3, ConcatProperties
<1>5. /\ 1 \in 1 .. Len(<<a>>) + Len(<<b>>) /\ 2 \in 1 .. Len(<<a>>) + Len(<<b>>) /\ ~(2 <= Len(<<a>>))
      /\ 1 <= Len(<<a>>) /\ 2 - Len(<<a>>) = 1
  BY <1>2
<1>6. \A i \in 1 .. Len(<<a>>) + Len(<<b>>) :
          s[i] = IF i <= Len(<<a>>) THEN <<a>>[i] ELSE <<b>>[i - Len(<<a>>)]
  BY <1>1, <1>3, ConcatProperties
<1>7. s[1] = a /\ s[2] = b
  BY <1>5, <1>6
<1>8. \A i \in 1 .. 2 : s[i] = <<a, b>>[i]
  BY <1>7
<1> QED
  BY <1>1, <1>2, <1>3, <1>4, <1>8, SeqEqual

LEMMA TwoAndOne ==
  ASSUME NEW S, NEW a \in S, NEW b \in S, NEW c \in S
  PROVE  <<a, b>> \o <<c>> = <<a, b, c>>
<1>1. <<a, b>> \in Seq(S) /\ <<c>> \in Seq(S) /\ <<a, b, c>> \in Seq(S)
  OBVIOUS
<1>2. Len(<<a, b>>) = 2 /\ Len(<<c>>) = 1 /\ Len(<<a, b, c>>) = 3
  OBVIOUS
<1>3. PICK s : s = <<a, b>> \o <<c>>
  OBVIOUS
<1>4. s \in Seq(S) /\ Len(s) = 3
  BY <1>1, <1>2, <1>3, ConcatProperties
<1>6. \A i \in 1 .. 3 : s[i] = IF i <= 2 THEN <<a, b>>[i] ELSE <<c>>[i - 2]
  BY <1>1, <1>2, <1>3, ConcatProperties
<1>7. s[1] = a /\ s[2] = b /\ s[3] = c
  BY <1>6
<1>8. \A i \in 1 .. 3 : s[i] = <<a, b, c>>[i]
  BY <1>7
<1> QED
  BY <1>1, <1>2, <1>3, <1>4, <1>8, SeqEqual

LEMMA FirstPlan ==
  ASSUME NEW a \in BOOLEAN
  PROVE  LET p == <<"helper">> \o (IF a THEN <<"backup">> ELSE <<>>) \o <<"settings">>
         IN p \in Plans /\ p # <<>> /\ Head(p) = "helper"
<1> DEFINE All == {"helper", "backup", "settings"}
<1>1. "helper" \in All /\ "backup" \in All /\ "settings" \in All /\ <<"helper">> \in Seq(All)
  OBVIOUS
<1> HIDE DEF All
<1>2. <<"helper">> \o <<>> = <<"helper">>
  BY <1>1, ConcatEmptySeq
<1>3. <<"helper">> \o <<"settings">> = <<"helper", "settings">>
  BY <1>1, OneAndOne
<1>4. <<"helper">> \o <<"backup">> = <<"helper", "backup">>
  BY <1>1, OneAndOne
<1>5. <<"helper", "backup">> \o <<"settings">> = <<"helper", "backup", "settings">>
  BY <1>1, TwoAndOne
<1>6. CASE a
  <2>1. <<"helper">> \o (IF a THEN <<"backup">> ELSE <<>>) \o <<"settings">>
          = <<"helper", "backup", "settings">>
    BY <1>4, <1>5, <1>6
  <2> QED
    BY <2>1 DEF Plans
<1>7. CASE ~a
  <2>1. <<"helper">> \o (IF a THEN <<"backup">> ELSE <<>>) \o <<"settings">>
          = <<"helper", "settings">>
    BY <1>2, <1>3, <1>7
  <2> QED
    BY <2>1 DEF Plans
<1> QED
  BY <1>6, <1>7

LEMMA SetupStart == K!Init => SetupInv
<1> SUFFICES ASSUME K!Init PROVE SetupInv
  OBVIOUS
<1>1. PICK s \in K!Settings \cup {none}, h \in {none, "old"} :
        /\ setupFiles = [helper |-> h, settings |-> s, backup |-> none]
        /\ (s # none /\ s.line = "ours") => h = "old"
  BY DEF K!Init
<1>2. setupFiles \in [K!Files -> K!Settings \cup {none, half, "old", "new"}]
  BY <1>1 DEF K!Files
<1>3. beside \in [K!Files -> K!Settings \cup {none, half, "old", "new"}]
  BY DEF K!Init
<1>4. SetupTypes
  BY <1>1, <1>2, <1>3 DEF SetupTypes, K!Init, K!Files, Plans
<1> QED
  BY <1>1, <1>4, SetupConstants DEF SetupInv, K!Init, K!LineHasHelper, K!Replacing

LEMMA SetupStep == SetupInv /\ [K!Next]_setupVars => SetupInv'
<1> SUFFICES ASSUME SetupInv, [K!Next]_setupVars PROVE SetupInv'
  OBVIOUS
<1> USE SetupConstants DEF K!LineHasHelper, K!Replacing
<1>1. CASE UNCHANGED setupVars
  BY <1>1 DEF SetupInv, SetupTypes, setupVars, Survives, OurSettings
<1>2. CASE K!Unsupported
  BY <1>2 DEF K!Unsupported, K!Answers, SetupInv, SetupTypes, Survives, OurSettings
<1>3. CASE K!Conflict
  BY <1>3 DEF K!Conflict, K!Answers, SetupInv, SetupTypes, Survives, OurSettings
<1>4. CASE K!Reads
  <2>1. PICK s \in K!Found :
          /\ found' = s
          /\ \E a \in BOOLEAN :
               plan' = <<"helper">> \o (IF a THEN <<"backup">> ELSE <<>>) \o <<"settings">>
    BY <1>4 DEF K!Reads, K!KeepsAside, K!HasLine
  <2>2. plan' \in Plans /\ plan' # <<>> /\ Head(plan') = "helper"
    BY <2>1, FirstPlan
  <2>3. s \in K!Settings \cup {none} /\ (s # none => s = setupFiles["settings"])
    BY <2>1 DEF K!Found, SetupInv, SetupTypes
  <2>4. setupStep' = "write" /\ runtime /\ UNCHANGED <<via, runtime, setupFiles, beside>>
    BY <1>4 DEF K!Reads
  <2>5. SetupTypes'
    BY <2>1, <2>2, <2>3, <2>4 DEF SetupInv, SetupTypes
  <2>6. found' # none => Survives(setupFiles["settings"])'
    BY <2>1, <2>3, <2>4 DEF Survives
  <2> QED
    BY <2>2, <2>4, <2>5, <2>6 DEF SetupInv
<1>5. CASE K!Writes
  <2>1. /\ setupStep = "write" /\ plan # <<>> /\ plan \in Plans /\ Head(plan) \in K!Files
        /\ UNCHANGED <<via, runtime, found, edits>>
    BY <1>5, HeadOfRest DEF K!Writes, SetupInv, SetupTypes
  <2>2. CASE /\ Head(plan) = "backup" /\ plan' = Tail(plan) /\ UNCHANGED <<setupStep, beside>>
             /\ setupFiles' = [setupFiles EXCEPT !["backup"] = setupFiles["settings"]]
    <3>1. plan' \in Plans /\ plan' # <<>> /\ Head(plan') # "helper"
      BY <2>1, <2>2, HeadOfRest
    <3>2. /\ setupFiles'["helper"] = setupFiles["helper"]
          /\ setupFiles'["settings"] = setupFiles["settings"]
          /\ setupFiles'["backup"] = setupFiles["settings"]
      BY <2>2 DEF SetupInv, SetupTypes, K!Files
    <3>3. SetupTypes'
      BY <2>1, <2>2, <3>1, <3>2 DEF SetupInv, SetupTypes
    <3> QED
      BY <2>1, <2>2, <3>1, <3>2, <3>3 DEF SetupInv, Survives
  <2>3. CASE /\ UNCHANGED <<plan, setupStep, beside>>
             /\ setupFiles' = [setupFiles EXCEPT !["backup"] = half]
    <3>2. /\ setupFiles'["helper"] = setupFiles["helper"]
          /\ setupFiles'["settings"] = setupFiles["settings"]
          /\ setupFiles'["backup"] = half
      BY <2>3 DEF SetupInv, SetupTypes, K!Files
    <3>3. SetupTypes'
      BY <2>1, <2>3, <3>2 DEF SetupInv, SetupTypes
    <3> QED
      BY <2>1, <2>3, <3>2, <3>3 DEF SetupInv, Survives
  <2>4. CASE /\ UNCHANGED <<setupFiles, plan, setupStep>>
             /\ beside' = [beside EXCEPT ![Head(plan)] = half]
    <3>1. SetupTypes'
      BY <2>1, <2>4 DEF SetupInv, SetupTypes, K!Files
    <3> QED
      BY <2>1, <2>4, <3>1 DEF SetupInv, Survives
  <2>5. CASE /\ UNCHANGED <<setupFiles, plan>> /\ setupStep' = "rename"
             /\ beside' = [beside EXCEPT ![Head(plan)] = K!Contents(Head(plan))]
    <3>1. /\ K!Contents("helper") = "new" /\ K!Contents("backup") = setupFiles["settings"]
          /\ K!Contents("settings") = OurSettings
      BY DEF K!Contents
    <3>2. OurSettings \in K!Settings
      <4>1. found # none => found.keys \subseteq Keys
        BY DEF SetupInv, SetupTypes
      <4> QED
        BY <4>1 DEF K!Settings, K!Lines
    <3>3. /\ Head(plan) = "helper" => beside'["helper"] = "new"
          /\ Head(plan) = "settings" => beside'["settings"] = OurSettings
      BY <2>1, <2>5, <3>1 DEF SetupInv, SetupTypes
    <3>4. SetupTypes'
      BY <2>1, <2>5, <3>1, <3>2 DEF SetupInv, SetupTypes, K!Files
    <3>5. OurSettings' = OurSettings
      BY <2>1 DEF OurSettings
    <3> QED
      BY <2>1, <2>5, <3>3, <3>4, <3>5 DEF SetupInv, Survives
  <2> QED
    BY <1>5, <2>2, <2>3, <2>4, <2>5 DEF K!Writes, K!Contents
<1>6. CASE K!Renames
  <2>1. /\ setupStep = "rename" /\ plan # <<>> /\ plan \in Plans /\ Head(plan) \in K!Files
        /\ UNCHANGED <<via, runtime, found, edits>>
        /\ setupStep' = "unlink" => via = "remote"
    BY <1>6, HeadOfRest DEF K!Renames, K!Placed, SetupInv, SetupTypes
  <2>2. CASE setupStep' = "unlink" /\ UNCHANGED <<setupFiles, beside, plan>>
    BY <2>1, <2>2 DEF SetupInv, SetupTypes, Survives, OurSettings
  <2>3. CASE K!Placed
    <3>1. /\ plan' = Tail(plan) /\ setupStep' = "write" /\ runtime
          /\ setupFiles' = [setupFiles EXCEPT ![Head(plan)] = beside[Head(plan)]]
          /\ beside' = [beside EXCEPT ![Head(plan)] = none]
      BY <2>1, <2>3 DEF K!Placed, SetupInv
    <3>2. plan' \in Plans
      BY <2>1, <3>1, HeadOfRest
    <3>3. OurSettings \in K!Settings
      <4>1. found # none => found.keys \subseteq Keys
        BY DEF SetupInv, SetupTypes
      <4> QED
        BY <4>1 DEF K!Settings, K!Lines
    <3>4. SetupTypes'
      BY <2>1, <3>1, <3>2, <3>3 DEF SetupInv, SetupTypes, K!Files
    <3>5. found' # none => Survives(setupFiles["settings"])'
      <4>1. CASE Head(plan) = "settings"
        BY <2>1, <3>1, <3>3, <4>1 DEF SetupInv, SetupTypes, Survives
      <4>2. CASE Head(plan) # "settings"
        BY <2>1, <3>1, <4>2 DEF SetupInv, SetupTypes, Survives, K!Files
      <4> QED
        BY <4>1, <4>2
    <3>6. plan' = <<>> \/ Head(plan') # "helper" => setupFiles'["helper"] = "new"
      BY <2>1, <3>1 DEF SetupInv, SetupTypes, K!Files
    <3> QED
      BY <3>1, <3>4, <3>5, <3>6, <2>1 DEF SetupInv
  <2> QED
    BY <1>6, <2>2, <2>3 DEF K!Renames
<1>7. CASE K!Unlinks
  <2>1. /\ setupStep = "unlink" /\ plan # <<>> /\ plan \in Plans /\ Head(plan) \in K!Files
        /\ UNCHANGED <<via, runtime, found, edits, beside, plan>>
        /\ setupStep' = "rename" /\ setupFiles' = [setupFiles EXCEPT ![Head(plan)] = none]
    BY <1>7, HeadOfRest DEF K!Unlinks, SetupInv, SetupTypes
  <2>2. SetupTypes' /\ OurSettings' = OurSettings
    BY <2>1 DEF SetupInv, SetupTypes, K!Files, OurSettings
  <2>3. /\ Head(plan) # "settings" => setupFiles'["settings"] = setupFiles["settings"]
        /\ Head(plan) # "helper" => setupFiles'["helper"] = setupFiles["helper"]
    BY <2>1 DEF SetupInv, SetupTypes, K!Files
  <2> QED
    BY <2>1, <2>2, <2>3 DEF SetupInv, Survives
<1>8. CASE K!Finishes
  <2>1. /\ setupStep = "write" /\ plan = <<>> /\ setupStep' = "done"
        /\ UNCHANGED <<via, runtime, setupFiles, beside, plan, found, edits>>
    BY <1>8 DEF K!Finishes, K!Answers
  <2>2. setupFiles["helper"] = "new" /\ runtime
    BY <2>1 DEF SetupInv
  <2> QED
    BY <2>1, <2>2 DEF SetupInv, SetupTypes, Survives
<1>9. CASE K!Fails
  <2>1. /\ setupStep \in {"write", "unlink", "rename"} /\ plan # <<>> /\ setupStep' = "failed"
        /\ UNCHANGED <<via, runtime, setupFiles, plan, found, edits>>
        /\ beside' = beside \/ beside' = [beside EXCEPT !["helper"] = none]
    BY <1>9 DEF K!Fails
  <2>2. beside'["settings"] = beside["settings"] /\ SetupTypes'
    BY <2>1 DEF SetupInv, SetupTypes, K!Files
  <2>3. found # none => Survives(setupFiles["settings"]) \/ Survives(beside["settings"])
    <3>1. found # none => found.keys \subseteq Keys
      BY DEF SetupInv, SetupTypes
    <3>2. found # none => Survives(OurSettings)
      BY <3>1 DEF Survives, K!Settings, K!Lines
    <3> QED
      BY <2>1, <3>2 DEF SetupInv
  <2> QED
    BY <2>1, <2>2, <2>3 DEF SetupInv, Survives
<1>10. CASE K!SkipsBackup
  <2>1. /\ setupStep = "write" /\ plan # <<>> /\ Head(plan) = "backup" /\ plan' = Tail(plan)
        /\ UNCHANGED <<via, runtime, setupFiles, beside, setupStep, found, edits>>
    BY <1>10 DEF K!SkipsBackup
  <2>2. plan' \in Plans /\ plan' # <<>> /\ Head(plan') # "helper"
    BY <2>1, HeadOfRest DEF SetupInv, SetupTypes
  <2> QED
    BY <2>1, <2>2 DEF SetupInv, SetupTypes, Survives
<1>11. CASE K!Again
  <2>1. /\ setupStep' = "idle" /\ plan' = <<>> /\ found' = none
        /\ UNCHANGED <<via, runtime, setupFiles, beside, due, edits>>
        /\ setupStep \in {"done", "failed"}
    BY <1>11 DEF K!Again
  <2>2. SetupTypes'
    BY <2>1 DEF SetupInv, SetupTypes, Plans
  <2> QED
    BY <2>1, <2>2 DEF SetupInv
<1>12. ASSUME NEW k \in Keys, K!Edits(k) PROVE SetupInv'
  <2>1. PICK s : /\ s = setupFiles["settings"] /\ s \in K!Settings
                 /\ setupFiles' = [setupFiles EXCEPT !["settings"] =
                                      [s EXCEPT !["keys"] = s["keys"] \cup {k}]]
                 /\ UNCHANGED <<via, runtime, beside, plan, setupStep, found, answered, due>>
    BY <1>12 DEF K!Edits, SetupInv, SetupTypes
  <2>2. PICK t : /\ t = [s EXCEPT !["keys"] = s["keys"] \cup {k}] /\ t \in K!Settings
                 /\ s.keys \subseteq t.keys /\ t.line = s.line
    <3>1. s.keys \subseteq Keys /\ s.line \in K!Lines
      BY <2>1
    <3>2. s = [keys |-> s.keys, line |-> s.line]
      BY <2>1
    <3>3. PICK t : t = [s EXCEPT !["keys"] = s["keys"] \cup {k}]
      OBVIOUS
    <3>4. t = [keys |-> s.keys \cup {k}, line |-> s.line]
      BY <3>2, <3>3
    <3>5. t \in K!Settings
      BY <3>1, <3>4 DEF K!Settings
    <3> QED
      BY <3>3, <3>4, <3>5
  <2>3. /\ setupFiles'["settings"] = t /\ setupFiles'["helper"] = setupFiles["helper"]
        /\ setupFiles'["backup"] = setupFiles["backup"]
    BY <2>1, <2>2 DEF SetupInv, SetupTypes, K!Files
  <2>4. SetupTypes' /\ OurSettings' = OurSettings
    BY <2>1, <2>2, <2>3 DEF SetupInv, SetupTypes, OurSettings
  <2>5. t # none /\ s # none /\ (Survives(s) => Survives(t))
    BY <2>1, <2>2 DEF Survives
  <2> QED
    BY <2>1, <2>2, <2>3, <2>4, <2>5 DEF SetupInv, Survives
<1> QED
  BY <1>1, <1>2, <1>3, <1>4, <1>5, <1>6, <1>7, <1>8, <1>9, <1>10, <1>11, <1>12 DEF K!Next

LEMMA SetupActs == [Next]_vars => [K!Next]_setupVars
  BY DEF Next, vars, Rest

LEMMA SetupTells == SetupInv => KeysAreSomewhere
<1> SUFFICES ASSUME SetupInv PROVE KeysAreSomewhere
  OBVIOUS
<1> USE SetupConstants
<1>1. K!NeverPartial
  BY DEF SetupInv, SetupTypes, K!NeverPartial
<1>2. K!LineHasHelper
  BY DEF SetupInv, K!LineHasHelper
<1>3. ASSUME setupStep # "idle", found # none
      PROVE  Survives(setupFiles["settings"]) \/ Survives(beside["settings"])
  <2>1. Survives(OurSettings)
    BY <1>3 DEF Survives, K!Settings, K!Lines, SetupInv, SetupTypes
  <2> QED
    BY <1>3, <2>1 DEF SetupInv, SetupTypes
<1>4. ASSUME NEW c, Survives(c) PROVE K!Whole(c) /\ found.keys \subseteq c.keys
  BY <1>4 DEF K!Whole, Survives
<1>5. K!KeysAreSomewhere
  BY <1>3, <1>4 DEF K!KeysAreSomewhere
<1> QED
  BY <1>1, <1>2, <1>5 DEF KeysAreSomewhere

\* Whatever step of a set-up of the status line fails, the settings of the agent are
\* whole, the keys they had when they were read are in them or beside them until the
\* next set-up, and a helper they name is there, but on a host whose helper is being
\* replaced or was when a set-up stopped (agent_monitor.rs, system_monitor.rs).
THEOREM KeysAreSomewhereAlways == Spec => []KeysAreSomewhere
<1>1. Init => SetupInv
  BY SetupStart DEF Init
<1>2. SetupInv /\ [Next]_vars => SetupInv'
  BY SetupStep, SetupActs
<1> QED
  BY <1>1, <1>2, SetupTells, PTL DEF Spec

-----------------------------------------------------------------------------
(* The polls of an LLM server.                                             *)

WorkTypes ==
  /\ llmNow \in Nat /\ work \in Nat /\ counted \in Nat
  /\ llmServer \in [up : BOOLEAN, count : Nat, waiting : BOOLEAN,
                    installed : SUBSET Models, loaded : SUBSET Models]
  /\ baseline \in [value : Nat, at : Nat] \cup {none}
  /\ begins \in [value : Nat, shown : Nat, restarted : BOOLEAN]

\* What the server counted since the last reading is work that was not shown; and a
\* server that has not been started again since has counted no less.
WorkInv ==
  /\ WorkTypes
  /\ counted <= work
  /\ baseline # none =>
       /\ llmServer.count >= baseline.value =>
            counted + (llmServer.count - baseline.value) <= work
       /\ ~begins.restarted =>
            /\ llmServer.count >= baseline.value
            /\ counted - begins.shown = baseline.value - begins.value

LEMMA PollConstants ==
  /\ none \notin Nat /\ none \notin [value : Nat, at : Nat]
  BY MonitoringAssumption DEF O!LlmReadingsAssumption

LEMMA PollsStart == O!Init => WorkInv
  BY PollConstants DEF O!Init, WorkInv, WorkTypes

\* What a scrape adds to what is shown, and what the next is compared with.
Scraped(value, when, added) ==
  LET o == O!Observed(value, when)
  IN /\ baseline' = o.base /\ counted' = counted + added
     /\ added = IF o.delta # none THEN o.delta ELSE 0
     /\ begins' = IF baseline # none /\ value >= baseline.value THEN begins
                  ELSE [value |-> value, shown |-> counted, restarted |-> FALSE]

LEMMA ScrapeCounts ==
  ASSUME WorkInv, NEW added, Scraped(llmServer.count, llmNow, added),
         UNCHANGED <<llmNow, llmServer, work>>
  PROVE  WorkInv'
<1> USE PollConstants
<1>1. PICK v, t : v = llmServer.count /\ t = llmNow /\ v \in Nat /\ t \in Nat
  BY DEF WorkInv, WorkTypes
<1> DEFINE o == O!Observed(v, t)
<1>2. /\ baseline' = o.base /\ counted' = counted + added
      /\ added = IF o.delta # none THEN o.delta ELSE 0
      /\ begins' = IF baseline # none /\ v >= baseline.value THEN begins
                   ELSE [value |-> v, shown |-> counted, restarted |-> FALSE]
  BY <1>1 DEF Scraped
<1>3. CASE baseline = none \/ (baseline # none /\ v < baseline.value)
  <2>1. o = [base |-> [value |-> v, at |-> t], delta |-> none]
    BY <1>3 DEF O!Observed, O!Reading
  <2>2. baseline' = [value |-> v, at |-> t] /\ added = 0
    BY <1>2, <2>1
  <2>3. begins' = [value |-> v, shown |-> counted, restarted |-> FALSE]
    BY <1>1, <1>2, <1>3 DEF WorkInv, WorkTypes
  <2>4. counted' = counted
    BY <1>2, <2>2 DEF WorkInv, WorkTypes
  <2>5. WorkTypes'
    BY <1>1, <2>2, <2>3, <2>4 DEF WorkInv, WorkTypes
  <2>6. baseline'.value = v /\ begins'.value = v /\ begins'.shown = counted /\ ~begins'.restarted
    BY <2>2, <2>3
  <2> QED
    BY <1>1, <2>4, <2>5, <2>6 DEF WorkInv, WorkTypes
<1>4. CASE baseline # none /\ ~(v < baseline.value)
  <2>1. PICK b : b = baseline /\ b \in [value : Nat, at : Nat] /\ b.value <= v /\ v >= b.value
    BY <1>1, <1>4 DEF WorkInv, WorkTypes
  <2>2. begins' = begins
    BY <1>2, <1>4, <2>1
  <2>3. CASE t <= b.at
    <3>1. o = [base |-> b, delta |-> none]
      BY <1>4, <2>1, <2>3 DEF O!Observed
    <3>2. baseline' = b /\ added = 0
      BY <1>2, <3>1
    <3>3. counted' = counted
      BY <1>2, <3>2 DEF WorkInv, WorkTypes
    <3> QED
      BY <2>1, <2>2, <3>2, <3>3 DEF WorkInv, WorkTypes
  <2>4. CASE ~(t <= b.at)
    <3>1. o = [base |-> [value |-> v, at |-> t], delta |-> v - b.value]
      BY <1>4, <2>1, <2>4 DEF O!Observed, O!Reading
    <3>2. PICK d : d = v - b.value /\ d \in Nat /\ d # none
      BY <1>1, <2>1
    <3>3. baseline' = [value |-> v, at |-> t] /\ added = d
      BY <1>2, <3>1, <3>2
    <3>4. counted' = counted + d /\ counted + d <= work
      BY <1>1, <1>2, <2>1, <1>4, <3>2, <3>3 DEF WorkInv
    <3>5. WorkTypes'
      BY <1>1, <2>2, <3>2, <3>3, <3>4 DEF WorkInv, WorkTypes
    <3>6. baseline'.value = v /\ baseline' # none
      BY <1>1, <3>3
    <3>7. ~begins.restarted => (counted + d) - begins.shown = v - begins.value
      <4>1. /\ counted \in Nat /\ begins.shown \in Nat /\ begins.value \in Nat /\ b.value \in Nat
            /\ ~begins.restarted => counted - begins.shown = b.value - begins.value
        BY <1>4, <2>1 DEF WorkInv, WorkTypes
      <4> QED
        BY <1>1, <3>2, <4>1
    <3>8. llmServer' = llmServer /\ work' = work /\ llmServer.count = v /\ work \in Nat
      BY <1>1 DEF WorkInv, WorkTypes
    <3>9. counted' <= work' /\ counted' + (v - v) <= work'
      BY <1>1, <3>4, <3>8 DEF WorkInv, WorkTypes
    <3> QED
      BY <1>1, <2>2, <3>4, <3>5, <3>6, <3>7, <3>8, <3>9 DEF WorkInv
  <2> QED
    BY <2>3, <2>4
<1> QED
  BY <1>3, <1>4 DEF WorkInv, WorkTypes

LEMMA PollCounts ==
  ASSUME WorkInv, NEW refresh, NEW healthy, NEW lists, NEW scrapes,
         O!Polls(refresh, healthy, lists, scrapes)
  PROVE  WorkInv'
<1>0. UNCHANGED <<llmNow, llmServer, work>>
  BY DEF O!Polls
<1>1. WorkInv'
  <2>1. CASE llmServer.up /\ healthy /\ serving /\ scrapes
    <3>1. \E added : Scraped(llmServer.count, llmNow, added)
      BY <2>1 DEF O!Polls, Scraped
    <3> QED
      BY <1>0, <3>1, ScrapeCounts
  <2>2. CASE ~(llmServer.up /\ healthy /\ serving /\ scrapes)
    <3>1. baseline' = baseline /\ begins' = begins /\ counted' = counted + 0
      BY <2>2 DEF O!Polls
    <3>2. counted' = counted
      BY <3>1 DEF WorkInv, WorkTypes
    <3> QED
      BY <1>0, <3>1, <3>2 DEF WorkInv, WorkTypes
  <2> QED
    BY <2>1, <2>2
<1> QED
  BY <1>1

LEMMA PollsStep == WorkInv /\ [O!Next]_llmVars => WorkInv'
<1> SUFFICES ASSUME WorkInv, [O!Next]_llmVars PROVE WorkInv'
  OBVIOUS
<1> USE PollConstants
<1>1. CASE UNCHANGED llmVars
  BY <1>1 DEF WorkInv, WorkTypes, llmVars
<1>2. CASE O!Counts
  <2>1. PICK n : n = llmServer.count /\ n \in Nat /\ n + 1 \in Nat
    BY DEF WorkInv, WorkTypes
  <2>2. /\ llmServer' = [llmServer EXCEPT !.count = n + 1] /\ work' = work + 1
        /\ UNCHANGED <<llmNow, baseline, counted, begins>>
    BY <1>2, <2>1 DEF O!Counts, O!states
  <2>3. llmServer'.count = n + 1 /\ llmServer'.loaded = llmServer.loaded /\ WorkTypes'
    BY <2>1, <2>2 DEF WorkInv, WorkTypes
  <2>4. WorkInv'
    BY <2>1, <2>2, <2>3 DEF WorkInv, WorkTypes
  <2> QED
    BY <2>4
<1>3. CASE O!GoesDown
  BY <1>3 DEF O!GoesDown, O!states, O!ghosts, WorkInv, WorkTypes
<1>4. CASE O!ComesUp
  <2>1. /\ llmServer' = [llmServer EXCEPT !.up = TRUE, !.count = 0, !.loaded = {}]
        /\ begins' = [begins EXCEPT !.restarted = TRUE]
        /\ UNCHANGED <<llmNow, baseline, counted, work>>
    BY <1>4 DEF O!ComesUp, O!states
  <2>2. llmServer'.count = 0 /\ llmServer'.loaded = {} /\ begins'.restarted /\ WorkTypes'
    BY <2>1 DEF WorkInv, WorkTypes
  <2>3. WorkInv'
    BY <2>1, <2>2 DEF WorkInv, WorkTypes
  <2> QED
    BY <2>3
<1>5. CASE O!QueueChanges
  BY <1>5 DEF O!QueueChanges, O!states, O!ghosts, WorkInv, WorkTypes
<1>6. CASE O!TimePasses
  BY <1>6 DEF O!TimePasses, O!states, O!ghosts, WorkInv, WorkTypes
<1>7. ASSUME NEW m \in Models, NEW i \in BOOLEAN, NEW l \in BOOLEAN, O!ModelChanges(m, i, l)
      PROVE  WorkInv'
  <2>1. PICK a, b : /\ llmServer' = [llmServer EXCEPT !.installed = a, !.loaded = b]
                    /\ a \in SUBSET Models /\ b \in SUBSET Models
                    /\ UNCHANGED <<llmNow, baseline, counted, work, begins>>
    <3>1. PICK a, b :
            /\ a = (IF i THEN llmServer.installed \cup {m} ELSE llmServer.installed \ {m})
            /\ b = (IF l THEN llmServer.loaded \cup {m} ELSE llmServer.loaded \ {m})
      OBVIOUS
    <3>2. a \in SUBSET Models /\ b \in SUBSET Models
      BY <3>1 DEF WorkInv, WorkTypes
    <3>3. llmServer' = [llmServer EXCEPT !.installed = a, !.loaded = b]
      BY <1>7, <3>1 DEF O!ModelChanges
    <3>4. UNCHANGED <<llmNow, baseline, counted, work, begins>>
      BY <1>7 DEF O!ModelChanges, O!states, O!ghosts
    <3> QED
      BY <3>2, <3>3, <3>4
  <2>2. llmServer'.count = llmServer.count /\ llmServer'.loaded = b /\ WorkTypes'
    BY <2>1 DEF WorkInv, WorkTypes
  <2>3. WorkInv'
    BY <2>1, <2>2 DEF WorkInv
  <2> QED
    BY <2>3
<1>8. ASSUME NEW refresh \in BOOLEAN, NEW healthy \in BOOLEAN, NEW lists \in BOOLEAN,
             NEW scrapes \in BOOLEAN, O!Polls(refresh, healthy, lists, scrapes)
      PROVE  WorkInv'
  BY <1>8, PollCounts
<1> QED
  BY <1>1, <1>2, <1>3, <1>4, <1>5, <1>6, <1>7, <1>8 DEF O!Next

LEMMA PollsAct == [Next]_vars => [O!Next]_llmVars
  BY DEF Next, vars, Rest

LEMMA PollsTell == WorkInv => WorkIsCounted
  BY DEF WorkInv, WorkIsCounted, O!CountsWhatWasDone

\* What the counters of an LLM server tell from poll to poll never adds up to more than
\* it did, and to all of it while it runs on (CounterState::observe, monitor.rs).
THEOREM WorkIsCountedAlways == Spec => []WorkIsCounted
<1>1. Init => WorkInv
  BY PollsStart DEF Init
<1>2. WorkInv /\ [Next]_vars => WorkInv'
  BY PollsStep, PollsAct
<1> QED
  BY <1>1, <1>2, PollsTell, PTL DEF Spec
=============================================================================
