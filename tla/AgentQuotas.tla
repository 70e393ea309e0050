---------------------------- MODULE AgentQuotas ----------------------------
(***************************************************************************)
(* The account quotas of coding agents that one monitor thread keeps       *)
(* (ssh/agent_monitor.rs): a tick lists the processes, reads the session   *)
(* logs of the providers it sees, folds in the answers of background       *)
(* probes and starts new ones.  A probe drives the CLI of its provider and *)
(* takes tens of seconds; it shares two locked fields with the tick.       *)
(***************************************************************************)
EXTENDS Naturals, FiniteSets, Sequences

CONSTANTS
  Providers,   \* a subset of {"codex", "agy", "claude"}
  Captures,    \* the times limits are found to have been captured at
  MaxProbes    \* probes whose order is told apart, for each provider: a bound

QuotaAssumption ==
  /\ Providers \subseteq {"codex", "agy", "claude"}
  /\ Captures \subseteq Nat /\ MaxProbes \in Nat \ {0}

VARIABLES
  present,   \* the providers the last tick saw running
  todo,      \* those the tick under way has not decided yet whether to probe
  scanned,   \* last_metadata_providers
  metadata,  \* what the session logs hold: nothing, sessions without limits,
             \* or the time of the newest limits
  quotas,    \* what is shown
  age,       \* last_quota_refresh, against the interval of the provider
  forced,    \* forced_quota_refresh
  requested, \* agent_quota_refreshes of the session
  probeThreads, \* those that ask a CLI
  inFlight, finished, \* QuotaProbes
  begun,     \* how many probes were started; not in the code
  latest     \* the last answer folded in; not in the code

vars == <<present, todo, scanned, metadata, quotas, age, forced,
          requested, probeThreads, inFlight, finished, begun, latest>>

Probed == Providers \cap {"codex", "agy"}
Nothing == [source |-> "absent", at |-> 0]
Unavailable == [source |-> "none", at |-> 0]
Log(holds, at) == [holds |-> holds, at |-> at]
Absent == Log("nothing", 0)
Bare == Log("sessions", 0)
Logs == {Absent, Bare} \cup {Log("limits", at) : at \in Captures}
\* Nothing depends on the time of a live read.
Live == [source |-> "live", at |-> 0]
Snapshot == [source : {"log"}, at : Captures] \cup {Nothing, Unavailable, Live}
Answer == [provider : Probed, ok : BOOLEAN, gen : 0 .. MaxProbes]

TypeOK ==
  /\ present \subseteq Providers /\ todo \subseteq Probed
  /\ scanned \subseteq Providers
  /\ metadata \in [Providers -> Logs]
  /\ quotas \in [Providers -> Snapshot]
  /\ age \in [Probed -> {"never", "fresh", "due"}]
  /\ forced \subseteq Probed /\ requested \subseteq Probed
  /\ probeThreads \subseteq [provider : Probed, gen : 0 .. MaxProbes,
                        at : {"asking", "told"}]
  /\ inFlight \subseteq Probed
  /\ finished \in Seq(Answer)
  /\ begun \in [Probed -> 0 .. MaxProbes]
  /\ latest \in [Probed -> [ok : BOOLEAN, gen : 0 .. MaxProbes]]

Init ==
  /\ present = {} /\ todo = {} /\ scanned = {}
  /\ metadata = [p \in Providers |-> Absent]
  /\ quotas = [p \in Providers |-> Nothing]
  /\ age = [p \in Probed |-> "never"]
  /\ forced = {} /\ requested = {} /\ probeThreads = {} /\ inFlight = {}
  /\ finished = <<>>
  /\ begun = [p \in Probed |-> 0]
  /\ latest = [p \in Probed |-> [ok |-> FALSE, gen |-> 0]]

-----------------------------------------------------------------------------
(* What the tick computes.                                                 *)

\* A log of Claude that replaces a newer one.
FromLog_AnyAge(p, meta, shown) ==
  IF shown.source # "live" THEN [source |-> "log", at |-> meta[p].at] ELSE shown

\* Limits found in a session log: Claude takes those that are not older, Codex
\* keeps what its app server said.
FromLog(p, meta, shown) ==
  LET newer == IF p = "claude" THEN meta[p].at >= shown.at ELSE shown.source # "live"
  IN IF shown = Nothing \/ newer THEN [source |-> "log", at |-> meta[p].at] ELSE shown

\* merge_metadata_quota_fallbacks: the quota of AGY never comes from a log.
Fallback(p, meta, shown) ==
  IF p = "agy" \/ meta[p] = Absent THEN IF shown = Nothing THEN Unavailable ELSE shown
  ELSE IF meta[p] = Bare THEN IF shown = Nothing THEN Unavailable ELSE shown
  ELSE FromLog(p, meta, shown)

Merged(seen, meta, shown) ==
  [p \in Providers |-> IF p \in seen THEN Fallback(p, meta, shown[p]) ELSE shown[p]]

\* An error that leaves the last live value in place.
Folded_ErrorKeepsLive(seen, meta, shown, a) ==
  IF a.ok THEN [shown EXCEPT ![a.provider] = Live]
  ELSE IF a.provider = "agy" THEN [shown EXCEPT !.agy = Unavailable]
       ELSE Merged(seen, meta, shown)

\* One answer of a probe.  A live read that failed leaves no live value: AGY is
\* unavailable, Codex falls back on its newest log.
Folded(seen, meta, shown, a) ==
  IF a.ok THEN [shown EXCEPT ![a.provider] = Live]
  ELSE IF a.provider = "agy" THEN [shown EXCEPT !.agy = Unavailable]
       ELSE LET fallen == Merged(seen, meta, [shown EXCEPT !.codex = Nothing])
            IN [fallen EXCEPT !.codex = IF @ = Nothing THEN Unavailable ELSE @]

\* apply_finished_quota_probes: the answers in the order they came.
AllFolded(seen, meta, merged) ==
  LET shown[n \in 0 .. Len(finished)] ==
        IF n = 0 THEN merged ELSE Folded(seen, meta, shown[n - 1], finished[n])
  IN shown[Len(finished)]

\* The newest answer of a provider.
LastAnswer(p) ==
  LET told == {i \in DOMAIN finished : finished[i].provider = p}
      a == finished[CHOOSE i \in told : \A j \in told : j <= i]
  IN IF told = {} THEN latest[p] ELSE [ok |-> a.ok, gen |-> a.gen]

\* refresh_metadata_if_due: providers that changed make a scan due at once; one
\* that fails keeps what the last one found, and what is shown is worked out
\* again all the same.
Scan(seen, how, meta) ==
  \/ how = "skipped" /\ seen = scanned /\ meta = metadata
  \/ how = "failed" /\ meta = metadata
  \/ how = "done" /\ meta \in {[p \in Providers |-> IF p \in seen THEN found[p] ELSE Absent] :
                               found \in [seen -> Logs]}

-----------------------------------------------------------------------------
(* The tick.                                                               *)

\* apply_agent_quota_refreshes comes first in the tick, agents or not.
TakesRequests == forced' = forced \cup requested /\ requested' = {}

\* No agent runs: nothing is read, and answers wait.
NoAgents ==
  /\ todo = {} /\ TakesRequests
  /\ present' = {}
  /\ UNCHANGED <<todo, scanned, metadata, quotas, age, probeThreads, inFlight,
                 finished, begun, latest>>

\* Metadata if due, then the answers of the probes in the order they came.
Collects(seen, how, meta) ==
  /\ todo = {} /\ seen # {} /\ TakesRequests
  /\ present' = seen /\ scanned' = seen
  /\ Scan(seen, how, meta) /\ metadata' = meta
  /\ quotas' = AllFolded(seen, meta, IF how = "skipped" THEN quotas
                                     ELSE Merged(seen, meta, quotas))
  /\ latest' = [p \in Probed |-> LastAnswer(p)]
  /\ finished' = <<>>
  /\ todo' = seen \cap Probed
  /\ UNCHANGED <<age, probeThreads, inFlight, begun>>

\* Codex is decided before AGY.
Turn(p) == p \in todo /\ (p = "codex" \/ "codex" \notin todo)

NotDue(p) ==
  /\ Turn(p) /\ p \notin forced /\ age[p] = "fresh"
  /\ todo' = todo \ {p}
  /\ UNCHANGED <<present, scanned, metadata, quotas, age, forced, requested,
                 probeThreads, inFlight, finished, begun, latest>>

\* A tick that does not look whether a probe is still out.
Probe_Another(p) ==
  /\ Turn(p) /\ (p \in forced \/ age[p] # "fresh")
  /\ todo' = todo \ {p}
  /\ forced' = forced \ {p} /\ age' = [age EXCEPT ![p] = "fresh"]
  /\ begun' = [begun EXCEPT ![p] = IF @ < MaxProbes THEN @ + 1 ELSE @]
  /\ probeThreads' = probeThreads \cup {[provider |-> p, gen |-> begun'[p], at |-> "asking"]}
  /\ inFlight' = inFlight \cup {p}
  /\ UNCHANGED <<present, scanned, metadata, quotas, requested, finished, latest>>

\* A request and the interval count as served even if a probe is still out.
Probe(p) ==
  /\ Turn(p) /\ (p \in forced \/ age[p] # "fresh")
  /\ todo' = todo \ {p}
  /\ forced' = forced \ {p} /\ age' = [age EXCEPT ![p] = "fresh"]
  /\ IF p \in inFlight THEN UNCHANGED <<begun, probeThreads, inFlight>>
     ELSE /\ begun' = [begun EXCEPT ![p] = IF @ < MaxProbes THEN @ + 1 ELSE @]
          /\ probeThreads' = probeThreads \cup
               {[provider |-> p, gen |-> begun'[p], at |-> "asking"]}
          /\ inFlight' = inFlight \cup {p}
  /\ UNCHANGED <<present, scanned, metadata, quotas, requested, finished, latest>>

-----------------------------------------------------------------------------
(* A probe thread, the user and the time.                                  *)

\* A thread that frees its provider before it has told its answer.
Tells_Last(t, ok) ==
  /\ t \in probeThreads
  /\ \/ /\ t.at = "asking" /\ inFlight' = inFlight \ {t.provider}
        /\ probeThreads' = (probeThreads \ {t}) \cup {[t EXCEPT !.at = "told"]}
        /\ UNCHANGED finished
     \/ /\ t.at = "told" /\ UNCHANGED inFlight
        /\ probeThreads' = probeThreads \ {t}
        /\ finished' = Append(finished, [provider |-> t.provider, ok |-> ok,
                                         gen |-> t.gen])
  /\ UNCHANGED <<present, todo, scanned, metadata, quotas, age, forced,
                 requested, begun, latest>>

Tells(t, ok) ==
  /\ t \in probeThreads /\ t.at = "asking"
  /\ finished' = Append(finished, [provider |-> t.provider, ok |-> ok,
                                   gen |-> t.gen])
  /\ probeThreads' = (probeThreads \ {t}) \cup {[t EXCEPT !.at = "told"]}
  /\ UNCHANGED <<present, todo, scanned, metadata, quotas, age, forced,
                 requested, inFlight, begun, latest>>

\* A thread that leaves its provider marked.
Frees_Not(t) ==
  /\ t \in probeThreads /\ t.at = "told"
  /\ probeThreads' = probeThreads \ {t}
  /\ UNCHANGED <<present, todo, scanned, metadata, quotas, age, forced,
                 requested, inFlight, finished, begun, latest>>

Frees(t) ==
  /\ t \in probeThreads /\ t.at = "told"
  /\ inFlight' = inFlight \ {t.provider}
  /\ probeThreads' = probeThreads \ {t}
  /\ UNCHANGED <<present, todo, scanned, metadata, quotas, age, forced,
                 requested, finished, begun, latest>>

\* refresh_agent_quota; a request for Claude is kept and never looked at.
Request(p) ==
  /\ requested' = requested \cup {p}
  /\ UNCHANGED <<present, todo, scanned, metadata, quotas, age, forced,
                 probeThreads, inFlight, finished, begun, latest>>

IntervalPasses(p) ==
  /\ age[p] = "fresh" /\ age' = [age EXCEPT ![p] = "due"]
  /\ UNCHANGED <<present, todo, scanned, metadata, quotas, forced,
                 requested, probeThreads, inFlight, finished, begun, latest>>

-----------------------------------------------------------------------------
Tick ==
  \/ NoAgents
  \/ \E seen \in SUBSET Providers, how \in {"skipped", "failed", "done"},
        meta \in [Providers -> Logs] : Collects(seen, how, meta)
  \/ \E p \in Probed : NotDue(p) \/ Probe(p)

Thread(p) ==
  \E t \in probeThreads : t.provider = p /\ ((\E ok \in BOOLEAN : Tells(t, ok)) \/ Frees(t))

Next ==
  \/ Tick
  \/ \E p \in Probed : Thread(p) \/ IntervalPasses(p) \/ Request(p)

Spec == Init /\ [][Next]_vars

\* The monitor ticks, time passes, and a probe ends: each of its steps has a
\* time limit of its own.
Fairness ==
  /\ WF_vars(Tick)
  /\ \A p \in Probed : WF_vars(Thread(p)) /\ WF_vars(IntervalPasses(p))

FairSpec == Spec /\ Fairness

-----------------------------------------------------------------------------
(* Properties.                                                             *)

\* A request, a passing interval and a slow probe never put two probes of one
\* provider to work at once: each would drive a CLI of its own
\* (spawn_quota_probe).
OneProbeEach ==
  \A p \in Probed : Cardinality({t \in probeThreads : t.provider = p /\ t.at = "asking"}) <= 1

\* However the two locks of QuotaProbes interleave with the ticks, answers are
\* folded in in the order of the questions: what is shown never falls back on
\* an older read.
AnswersInOrder ==
  [][\A p \in DOMAIN latest : latest'[p].gen >= latest[p].gen]_latest

\* "A failed live read must not leave an arbitrarily old app-server value
\* looking current", and a log "must never masquerade as a successful live
\* quota read" (apply_finished_quota_probes, merge_metadata_quota_fallbacks).
LiveMeansLastReadWorked ==
  \A p \in Probed : quotas[p].source = "live" => latest[p].ok

\* The limits of Claude come from logs that are scanned again and again and may
\* disappear: once limits are shown no older ones replace them.
ClaudeNeverOlder ==
  [][\A p \in DOMAIN quotas \cap {"claude"} :
       quotas[p].source = "log" => quotas'[p].source = "log" /\ quotas'[p].at >= quotas[p].at]_quotas

\* While an agent runs its quota is read again and again; no thread that ends
\* in an unlucky moment leaves it marked as being read for ever.
QuotaKeepsComing ==
  \A p \in Probed : <>[](p \in present) => []<>(\E i \in DOMAIN finished : finished[i].provider = p)
=============================================================================
