---------------------------- MODULE LlmReadings ----------------------------
(***************************************************************************)
(* What the polls of one LLM server add up to (llm/monitor.rs, run_probe   *)
(* and apply_outcome; llm/severity.rs): rates from cumulative counters,    *)
(* the list of models, the series that is charted and the level shown.     *)
(* One poll after the other: LlmMonitor shows that no two overlap.         *)
(***************************************************************************)
EXTENDS Naturals, Sequences, SequencesExt, FiniteSetsExt

CONSTANTS
  Models,            \* of an Ollama server
  MaxTime, MaxWork, MaxRun,  \* bounds on the clock, what is counted, and polls alike
  PollInterval, CatalogInterval,
  Steps,             \* BACKOFF_STEPS_SECS
  FailureLimit, SustainedTicks, \* CONSECUTIVE_FAILURE_LIMIT, WAITING_SUSTAINED_TICKS
  Bucket, Window, MaxPoints,
  None

LlmReadingsAssumption ==
  /\ PollInterval \in Nat \ {0} /\ Bucket \in Nat \ {0} /\ Window \in Nat
  /\ MaxPoints \in Nat \ {0} /\ Steps # <<>>
  /\ None \notin Nat \cup [value : Nat, at : Nat]
                  \cup [Models -> {"absent", "installed", "running"}]

VARIABLES
  serving,  \* a serving engine, whose counters are read, or Ollama
  now,
  server,   \* up; what it counted since it started, whether requests wait,
            \* the models installed and loaded
  last,     \* the reading the next is compared with (CounterState)
  metrics, models, status, failures, streak, level, chart, nextPoll, nextCatalog,
  work,     \* all that was ever counted,
  shown,    \* how much of it was shown,
  first,    \* the reading that begins a count, what was shown before it and
            \* whether the server was started again since: not in the code
  seen      \* polls on end that saw requests wait: not in the code

states == <<metrics, models, status, failures, streak, level, chart, nextPoll, nextCatalog>>
ghosts == <<work, shown, first, seen>>
vars == <<serving, now, server, last, states, ghosts>>

Levels == <<"unknown", "normal", "warning", "congested", "critical">>
Init ==
  /\ serving \in BOOLEAN /\ now = 0
  /\ server = [up |-> TRUE, count |-> 0, waiting |-> FALSE, installed |-> {}, loaded |-> {}]
  /\ last = None /\ metrics = None /\ status = None
  /\ models = [m \in Models |-> "absent"]
  /\ failures = 0 /\ streak = 0 /\ level = "unknown" /\ chart = <<>>
  /\ nextPoll = 0 /\ nextCatalog = 0
  /\ work = 0 /\ shown = 0 /\ first = [value |-> 0, shown |-> 0, restarted |-> FALSE]
  /\ seen = 0

------------------------------------------------------------------------------
(* The server                                                              *)

Counts ==
  /\ serving /\ server.up /\ work < MaxWork
  /\ server' = [server EXCEPT !.count = @ + 1] /\ work' = work + 1
  /\ UNCHANGED <<serving, now, last, states, shown, first, seen>>

GoesDown ==
  /\ server.up /\ server' = [server EXCEPT !.up = FALSE]
  /\ UNCHANGED <<serving, now, last, states, ghosts>>

\* It counts from zero again.
ComesUp ==
  /\ ~server.up /\ server' = [server EXCEPT !.up = TRUE, !.count = 0, !.loaded = {}]
  /\ first' = [first EXCEPT !.restarted = TRUE]
  /\ UNCHANGED <<serving, now, last, states, work, shown, seen>>

QueueChanges ==
  /\ serving /\ server' = [server EXCEPT !.waiting = ~@]
  /\ UNCHANGED <<serving, now, last, states, ghosts>>

ModelChanges(m, installed, loaded) ==
  /\ ~serving /\ loaded => installed
  /\ server' = [server EXCEPT !.installed = IF installed THEN @ \cup {m} ELSE @ \ {m},
                              !.loaded = IF loaded THEN @ \cup {m} ELSE @ \ {m}]
  /\ UNCHANGED <<serving, now, last, states, ghosts>>

TimePasses ==
  /\ now < MaxTime /\ now' = now + 1
  /\ UNCHANGED <<serving, server, last, states, ghosts>>

------------------------------------------------------------------------------
(* run_probe.  No other poll reads the server meanwhile, so that all is    *)
(* asked at once; each answer may be lost.                                 *)

\* merge_live_with_cache: what is not loaded any more is installed still.
MergeLive(live) ==
  [m \in Models |-> IF m \in live THEN "running"
                    ELSE IF models[m] = "running" THEN "installed" ELSE models[m]]

Catalog == [m \in Models |-> IF m \in server.loaded THEN "running"
                             ELSE IF m \in server.installed THEN "installed" ELSE "absent"]

\* All models when it is time for them, else those of Ollama that are loaded.
Listed(catalog, answered) ==
  IF ~answered \/ (serving /\ ~catalog) THEN None
  ELSE IF catalog THEN Catalog ELSE MergeLive(server.loaded)

Reading(value, at) == [value |-> value, at |-> at]

\* CounterState::observe: the new baseline and what it adds.  A count below the
\* last one is that of a server that was started again.
Observed_Restarts(value, at) ==
  IF last = None THEN [base |-> Reading(value, at), delta |-> None]
  ELSE [base |-> Reading(value, at),
        delta |-> IF value < last.value THEN value
                  ELSE IF at <= last.at THEN None ELSE value - last.value]

Observed(value, at) ==
  IF last = None \/ value < last.value
  THEN [base |-> Reading(value, at), delta |-> None]
  ELSE IF at <= last.at   \* twice in a second
  THEN [base |-> last, delta |-> None]
  ELSE [base |-> Reading(value, at), delta |-> value - last.value]

------------------------------------------------------------------------------
(* apply_outcome                                                           *)

Worst(S) == Levels[Max({i \in 1 .. Len(Levels) : Levels[i] \in S})]

\* severity::evaluate; a cache that fills up is left out.
Level(stat, failed, what, waits) ==
  IF stat = "offline"
  THEN IF serving \/ failed >= FailureLimit THEN "critical" ELSE "warning"
  ELSE Worst({"normal"}
    \cup (IF stat = "degraded" THEN {"warning"} ELSE {})
    \cup (IF what = None THEN {}
          ELSE (IF ~what.waiting THEN {}
                ELSE {IF waits >= SustainedTicks THEN "congested" ELSE "warning"})
               \cup (IF what.delta \notin {None, 0} THEN {"warning"} ELSE {})))

\* next_delay_secs: never sooner than the user asked for.
NextDelay(failed) ==
  IF failed = 0 THEN PollInterval
  ELSE Max({Steps[Min({failed, Len(Steps)})], PollInterval})

\* push_history and trim_history; what is drawn is what is known, of now or not.
Pushed(point) ==
  LET base == IF chart # <<>> /\ Last(chart).at = point.at THEN Front(chart) ELSE chart
      kept == SelectSeq(Append(base, point), LAMBDA p : p.at + Window >= now)
      n == Len(kept)
  IN SubSeq(kept, IF n > MaxPoints THEN n - MaxPoints + 1 ELSE 1, n)

Folded(stat, list, found, catalog) ==
  LET good == stat # "offline"
      known == IF good THEN found ELSE metrics
      failed == IF good THEN 0 ELSE failures + 1
      waits == IF known # None /\ known.waiting THEN streak + 1 ELSE 0
  IN /\ status' = stat /\ failures' = failed /\ metrics' = known /\ streak' = waits
     /\ models' = IF list = None THEN models ELSE list
     /\ nextCatalog' = IF catalog /\ good THEN now + CatalogInterval ELSE nextCatalog
     /\ level' = Level(stat, failed, known, waits)
     /\ chart' = Pushed([at |-> now - (now % Bucket),
                         delta |-> IF known = None THEN None ELSE known.delta,
                         up |-> good])
     /\ nextPoll' = now + NextDelay(failed)
     /\ seen' = IF found # None /\ found.waiting THEN seen + 1 ELSE 0

\* When it is time, or when the coordinator was told to refresh.  A server that
\* does not answer is not asked more.
Polls(forced, healthy, lists, scrapes) ==
  LET online == server.up /\ healthy
      due == now >= nextCatalog
      list == IF online THEN Listed(due, lists) ELSE None
      scraped == online /\ serving /\ scrapes
      degraded == (~lists /\ (due \/ ~serving)) \/ (serving /\ ~scrapes)
      o == Observed(server.count, now)
  IN /\ failures < MaxRun /\ streak < MaxRun /\ seen < MaxRun
     /\ forced \/ now >= nextPoll
     /\ ~lists => healthy /\ (due \/ ~serving)   \* what is not asked is not lost
     /\ ~scrapes => healthy /\ serving
     /\ Folded(IF ~online THEN "offline" ELSE IF degraded THEN "degraded" ELSE "online",
               list,
               IF scraped THEN [delta |-> o.delta, waiting |-> server.waiting]
               ELSE None,
               due /\ lists)
     /\ last' = IF scraped THEN o.base ELSE last
     /\ shown' = shown + (IF scraped /\ o.delta # None THEN o.delta ELSE 0)
     /\ first' = IF ~scraped \/ (last # None /\ server.count >= last.value) THEN first
                 ELSE [value |-> server.count, shown |-> shown, restarted |-> FALSE]
     /\ UNCHANGED <<serving, now, server, work>>

Next ==
  \/ Counts \/ GoesDown \/ ComesUp \/ QueueChanges \/ TimePasses
  \/ \E m \in Models, i, l \in BOOLEAN : ModelChanges(m, i, l)
  \/ \E forced, healthy, lists, scrapes \in BOOLEAN :
       Polls(forced, healthy, lists, scrapes)

Spec == Init /\ [][Next]_vars

------------------------------------------------------------------------------
TypeOK ==
  /\ serving \in BOOLEAN /\ now \in 0 .. MaxTime
  /\ server \in [up : BOOLEAN, count : 0 .. MaxWork, waiting : BOOLEAN,
                 installed : SUBSET Models, loaded : SUBSET Models]
  /\ last = None \/ last \in [value : 0 .. MaxWork, at : 0 .. MaxTime]
  /\ models \in [Models -> {"absent", "installed", "running"}]
  /\ level \in Range(Levels) /\ status \in {None, "online", "degraded", "offline"}
  /\ Len(chart) <= MaxPoints

\* What the counters tell from poll to poll never adds up to more than the server did,
\* through restarts, scrapes in one second and polls that fail; and while it runs on,
\* nothing it did between two readings is left out (CounterState::observe).  What of
\* it is drawn is another matter: see below.
CountsWhatWasDone ==
  /\ shown <= work
  /\ (last # None /\ ~first.restarted) => shown - first.shown = last.value - first.value

\* A queue is sustained when polls on end have seen it: "how many consecutive
\* polls have seen at least one waiting request" (severity.rs:54).  A poll that
\* fails counts the requests an earlier one saw.
StreakIsSeen == streak <= seen

\* What is drawn for the time of a poll that failed is what was known before, and a
\* second poll in a bucket takes the place of the first.
ChartIsOfItsTime == \A i \in 1 .. Len(chart) : chart[i].up \/ chart[i].delta = None
ChartKeepsAll ==
  [][\A i \in 1 .. Len(chart) :
       \/ chart[i].delta \in {None, 0} \/ chart[i].at + Window < now
       \/ chart[i] \in Range(chart')]_chart
=============================================================================
