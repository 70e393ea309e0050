----------------------------- MODULE Monitoring -----------------------------
(***************************************************************************)
(* What the monitor threads keep between two ticks: agent quotas and their *)
(* history, alerts, the usage history, the state of the connection and     *)
(* what polls of an LLM server add up to; and the set-up of the status     *)
(* line the limits of Claude are read from.  The code lets these parts     *)
(* share nothing but the tick, so an instance is chosen at the start and   *)
(* runs alone; the others rest.                                            *)
(***************************************************************************)
EXTENDS Naturals, Sequences

CONSTANTS
  Clis,            \* agents whose CLI is probed for quotas: "codex", "agy"
  Captures,        \* the times limits are found to have been captured at
  MaxProbes,       \* probes whose order is told apart: a bound
  Monitors,        \* threads that evaluate the readings of a session
  SessionRules,    \* the alert keys of a session
  LlmRules,        \* those of LLM instances
  Readings, MaxTime, MaxCalls,
  SessionSettings, \* settings with lines for the first, and for the others
  LlmSettings,
  none,
  AgyTime, AgyBucket, AgyWindow, AgyPoints,   \* those of AgyHistory
  UsageTime, UsageBucket, UsageWindow, UsagePoints,   \* and of UsageHistory
  UsageCount, UsagePolls,
  Keys, MayNotOpen, MaxEdits, half,           \* those of ClaudeSetup
  Models, LlmTime, MaxWork, MaxRun,           \* and of LlmReadings
  PollInterval, CatalogInterval, Steps, FailureLimit, SustainedTicks,
  LlmBucket, LlmWindow, LlmPoints

VARIABLES
  part,   \* the instance that runs
  present, todo, scanned, metadata, quotas, age, forced, requested, probeThreads,
  inFlight, finished, begun, latest,
  clock, agyHistory,
  now, scope, settings, phases, lastNotified, active, clears, forgets, eval, level,
  over, noticed,
  time, server, polls, chart,
  host, local, link, stop, at, backoff, waited, hostOs, gpuProbe, failures,
  reading, lately,
  via, runtime, setupFiles, beside, plan, setupStep, found, answered, due, edits,
  serving, llmNow, llmServer, baseline, metrics, models, status, llmFailures, streak,
  llmLevel, llmChart, nextPoll, nextCatalog, work, counted, begins, llmSeen

quotaVars == <<present, todo, scanned, metadata, quotas, age, forced, requested,
               probeThreads, inFlight, finished, begun, latest>>
agyVars == <<clock, agyHistory>>
alertVars == <<now, scope, settings, phases, lastNotified, active, clears, forgets,
               eval, level, over, noticed>>
usageVars == <<time, server, polls, chart>>
loopVars == <<host, local, link, stop, at, backoff, waited, hostOs, gpuProbe,
              failures, reading, lately>>
setupVars == <<via, runtime, setupFiles, beside, plan, setupStep, found, answered, due,
               edits>>
llmVars == <<serving, llmNow, llmServer, baseline, metrics, models, status, llmFailures,
             streak, llmLevel, llmChart, nextPoll, nextCatalog, work, counted, begins,
             llmSeen>>

\* Codex and AGY are probed, Claude is only read from logs: they meet in no field.
Q == INSTANCE AgentQuotas WITH
       Providers <- Clis
C == INSTANCE AgentQuotas WITH
       Providers <- {"claude"}
H == INSTANCE AgyHistory WITH
       MaxTime <- AgyTime, Bucket <- AgyBucket, Window <- AgyWindow,
       MaxPoints <- AgyPoints, now <- clock, history <- agyHistory

\* A rule of the session and one of an LLM instance meet only in the settings; one
\* thread folds in what polls tell of the instances.
Coordinator == {"coordinator"}
A == INSTANCE Alerts WITH
       Threads <- Monitors, Rules <- SessionRules, LlmRules <- {},
       Settings <- SessionSettings, None <- none
M == INSTANCE Alerts WITH
       Threads <- Coordinator, Rules <- LlmRules, LlmRules <- LlmRules,
       Settings <- LlmSettings, None <- none
U == INSTANCE UsageHistory WITH
       MaxTime <- UsageTime, Bucket <- UsageBucket, Window <- UsageWindow,
       MaxPoints <- UsagePoints, MaxCount <- UsageCount, MaxPolls <- UsagePolls,
       SetBack <- FALSE, now <- time
L == INSTANCE TelemetryLoop WITH
       Hosts <- {"linux", "macos", "windows"}, Tools <- {"nvidia"},
       BackoffInitial <- 1, BackoffMax <- 3, None <- none
K == INSTANCE ClaudeSetup WITH
       None <- none, Partial <- half, files <- setupFiles, step <- setupStep, read <- found,
       told <- answered, asked <- due
O == INSTANCE LlmReadings WITH
       MaxTime <- LlmTime, Bucket <- LlmBucket, Window <- LlmWindow,
       MaxPoints <- LlmPoints, None <- none, now <- llmNow, server <- llmServer,
       last <- baseline, failures <- llmFailures, level <- llmLevel, chart <- llmChart,
       shown <- counted, first <- begins, seen <- llmSeen

\* What each instance asks of its constants.
ASSUME MonitoringAssumption ==
  /\ Clis \subseteq {"codex", "agy"}
  /\ Q!QuotaAssumption /\ C!QuotaAssumption
  /\ H!AgyHistoryAssumption /\ U!HistoryAssumption
  /\ A!AlertAssumption /\ M!AlertAssumption
  /\ L!LoopAssumption
  /\ K!SetupAssumption /\ O!LlmReadingsAssumption

vars == <<part, quotaVars, agyVars, alertVars, usageVars, loopVars, setupVars,
          llmVars>>

\* A part that rests has one initial state.
Init ==
  /\ part \in {"probes", "claude", "agy", "alerts", "llm", "usage", "loop", "setup",
              "polls"}
  /\ IF part = "claude" THEN C!Init ELSE Q!Init
  /\ IF part = "llm" THEN M!Init ELSE A!Init
  /\ H!Init /\ U!Init /\ L!Init
  /\ part \notin {"alerts", "llm"} => settings = CHOOSE s \in SessionSettings : TRUE
  /\ part # "loop" => host = [os |-> "linux", tools |-> {}] /\ ~local
  /\ IF part = "setup" THEN TRUE
     ELSE via = "local" /\ runtime = FALSE
          /\ setupFiles = [helper |-> none, settings |-> none, backup |-> none]
  /\ K!Init
  /\ O!Init /\ (part # "polls" => ~serving)

Rest(p, v) == IF part \in p THEN TRUE ELSE UNCHANGED v

Next ==
  /\ UNCHANGED part
  /\ \/ part = "probes" /\ Q!Next
     \/ part = "claude" /\ C!Next
     \/ part = "agy" /\ H!Next
     \/ part = "alerts" /\ A!Next
     \/ part = "llm" /\ M!Next
     \/ part = "usage" /\ U!Next
     \/ part = "loop" /\ L!Next
     \/ part = "setup" /\ K!Next
     \/ part = "polls" /\ O!Next
  /\ Rest({"probes", "claude"}, quotaVars) /\ Rest({"agy"}, agyVars)
  /\ Rest({"alerts", "llm"}, alertVars) /\ Rest({"usage"}, usageVars)
  /\ Rest({"loop"}, loopVars) /\ Rest({"setup"}, setupVars)
  /\ Rest({"polls"}, llmVars)

Spec == Init /\ [][Next]_vars

TypeOK ==
  /\ IF part = "claude" THEN C!TypeOK ELSE Q!TypeOK
  /\ IF part = "llm" THEN M!TypeOK ELSE A!TypeOK
  /\ H!TypeOK /\ U!TypeOK /\ L!TypeOK /\ K!TypeOK /\ O!TypeOK

------------------------------------------------------------------------------
(* The properties of the modules                                           *)

\* What is shown of quotas never goes back to an older read, and passes for live
\* only while the last read worked (AgentQuotas).
QuotasAreCurrent ==
  /\ Q!AnswersInOrder /\ C!ClaudeNeverOlder
  /\ [](part = "probes" => Q!OneProbeEach /\ Q!LiveMeansLastReadWorked)

\* A rule that fires was read over its line for the time it is set to last, whatever
\* fails, changes or overlaps in between (Alerts).
FiresOnlySustained == [][part = "alerts" => A!SustainedStep]_phases

\* A rule notifies the user at most once in a cooldown, also one of an LLM server and
\* one of a session that was connected anew (Alerts).
NotifiesOnce ==
  [][IF part = "llm" THEN M!NotifiesOnceStep ELSE A!NotifiesOnceStep]_eval

\* Charts pieced together from deltas show every bucket of the history, once and
\* in the order of time, and so does the history of AGY (UsageHistory, AgyHistory).
ChartsAreComplete == U!ChartIsComplete /\ [](U!SeriesInOrder /\ H!HistoryInOrder)

\* The settings of an agent, as a setup read them, survive when it stops anywhere; the
\* helper they name is there, but on a host where it is being replaced, or was when a
\* setup stopped (ClaudeSetup).
KeysAreSomewhere == K!NeverPartial /\ K!KeysAreSomewhere /\ K!LineHasHelper

\* What the counters of an LLM server add up to from poll to poll is what it did,
\* through restarts, scrapes in one second and polls that fail (LlmReadings).
WorkIsCounted == O!CountsWhatWasDone

------------------------------------------------------------------------------
(* Settings for TLC: two lines, with and without a time to last.           *)

Judged(r, line, clear, sustain) ==
  [enabled |-> TRUE, on |-> {r}, line |-> line, clear |-> clear,
   sustain |-> sustain, cooldown |-> 2]
CpuSettings == {Judged("cpu", 2, 1, 1), Judged("cpu", 1, 1, 2)}
ServerSettings == {Judged("llm", 2, 1, 1), Judged("llm", 1, 1, 0)}
TwoSteps == <<1, 2>>
=============================================================================
