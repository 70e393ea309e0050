----------------------------- MODULE MCThreads -----------------------------
(***************************************************************************)
(* The threads that have to come to an end, or to go on: the reader and    *)
(* the monitor of a session (SessionLifecycle), the polling of the monitor *)
(* (TelemetryLoop), the probes it starts (AgentQuotas) and what each of    *)
(* them waits for (QuotaProbe), its collectors on the machine of the user  *)
(* (LocalCommand), the thread of an MCP call (McpActions) and the forwards *)
(* on one connection (Channels).  One of them runs, the others rest.       *)
(***************************************************************************)
EXTENDS SessionLifecycle, Naturals, Sequences

CONSTANTS call, persistent, local1

VARIABLES
  part,
  present, todo, scanned, metadata, quotas, age, forced, requested, probeThreads,
  inFlight, finished, begun, latest,
  host, local, link, loopStop, at, backoff, waited, hostOs, gpuProbe, failures,
  reading, lately,
  server, actions, linked, callPc, process, starts, marker, pending, channel,
  callTaken, events, queue, shown, pressed, outcome, reply, looked, killed,
  hop, flight, lock, loops, slots, openFailures, hopDead, strayed, gaveUp,
  tool, via, phase, probeWaited, rested, asked, unread, screen, alive, sshSession, result,
  output, wedged, child, pipe, written, pollsWaited, got

quotaVars == <<present, todo, scanned, metadata, quotas, age, forced, requested,
               probeThreads, inFlight, finished, begun, latest>>
loopVars == <<host, local, link, loopStop, at, backoff, waited, hostOs, gpuProbe,
              failures, reading, lately>>
callVars == <<server, actions, linked, callPc, process, starts, marker, pending,
              channel, callTaken, events, queue, shown, pressed, outcome, reply,
             looked, killed>>
hopVars == <<hop, flight, lock, loops, slots, openFailures, hopDead, strayed, gaveUp>>
probeVars == <<tool, via, phase, probeWaited, rested, asked, unread, screen, alive,
               sshSession, result>>
commandVars == <<output, wedged, child, pipe, written, pollsWaited, got>>

Q == INSTANCE AgentQuotas WITH
       Providers <- {"agy"}, Captures <- {1}, MaxProbes <- 2
L == INSTANCE TelemetryLoop WITH
       Hosts <- {"linux", "macos", "windows"}, Tools <- {"nvidia"},
       BackoffInitial <- 1, BackoffMax <- 3, stop <- loopStop
A == INSTANCE McpActions WITH
       Calls <- {call}, MaxStarts <- 2, pc <- callPc, taken <- callTaken
C == INSTANCE Channels WITH
       Persistent <- {persistent}, Local <- {local1}, Socks <- {},
       MaxSlots <- 1, MaxFailures <- 2, pc <- loops, failures <- openFailures
P == INSTANCE QuotaProbe WITH
       StartTimeout <- 2, AnswerTimeout <- 2, MaxUnread <- 2, waited <- probeWaited,
       shown <- screen, session <- sshSession
O == INSTANCE LocalCommand WITH
       PipeSize <- 2, Outputs <- {0, 2, 3}, Budget <- 3, waited <- pollsWaited,
       result <- got

ASSUME Q!QuotaAssumption /\ L!LoopAssumption
ASSUME A!McpActionsAssumption /\ C!ChannelsAssumption /\ P!ProbeAssumption
ASSUME O!CommandAssumption

threadVars == <<part, vars, quotaVars, loopVars, callVars, hopVars, probeVars,
                commandVars>>

\* A part that rests has one initial state.
ThreadsInit ==
  /\ part \in {"session", "probes", "loop", "call", "hop", "probe", "command"}
  /\ Init /\ Q!Init /\ L!Init /\ A!Init /\ C!Init /\ P!Init /\ O!Init
  /\ part # "loop" => host = [os |-> "linux", tools |-> {}] /\ ~local
  /\ part # "call" => ~server /\ ~actions /\ process = 0
  /\ part # "session" => profiles = {}
  /\ part # "probe" => tool = "agy" /\ via = "local"
  /\ part # "command" => output = 0 /\ ~wedged

Rest(p, v) == IF part = p THEN TRUE ELSE UNCHANGED v

ThreadsNext ==
  /\ \/ part = "session" /\ Next
     \/ part = "probes" /\ Q!Next
     \/ part = "loop" /\ L!Next
     \/ part = "call" /\ A!Next
     \/ part = "hop" /\ C!Next
     \/ part = "probe" /\ P!Next
     \/ part = "command" /\ O!Next
  /\ UNCHANGED part
  /\ Rest("session", vars) /\ Rest("probes", quotaVars) /\ Rest("loop", loopVars)
  /\ Rest("call", callVars) /\ Rest("hop", hopVars)
  /\ Rest("probe", probeVars) /\ Rest("command", commandVars)

\* The fairness of the modules, for the part that runs.
Session(step) == part = "session" /\ step
Probe(step) == part = "probe" /\ step
ThreadsFairness ==
  /\ \A c \in Commands : WF_vars(Session(CommandStep(c)))
  /\ \A p \in Panes : /\ WF_vars(Session(p \in stop /\ ReaderEnds(p)))
                      /\ WF_vars(Session(ReaderStep(p)))
                      /\ WF_vars(Session(MonitorStep(p)))
                      /\ WF_vars(Session(ForwardJobStep(p)))
  /\ WF_quotaVars(part = "probes" /\ Q!Tick)
  /\ WF_quotaVars(part = "probes" /\ Q!Thread("agy"))
  /\ WF_quotaVars(part = "probes" /\ Q!IntervalPasses("agy"))
  /\ WF_loopVars(part = "loop" /\ L!Thread)
  /\ WF_callVars(part = "call" /\ A!Call(call))
  /\ WF_callVars(part = "call" /\ A!Receives)
  /\ WF_hopVars(part = "hop" /\ C!Accepts(persistent))
  /\ \A f \in {persistent, local1} :
       /\ WF_hopVars(part = "hop" /\ C!Opens(f))
       /\ WF_hopVars(part = "hop" /\ C!Probes(f))
       /\ WF_hopVars(part = "hop" /\ C!Finishes(f))
       /\ WF_hopVars(part = "hop" /\ hop = "down" /\ C!PumpEnds(f))
  /\ WF_probeVars(Probe(P!CannotStart \/ P!Starts)) /\ WF_probeVars(Probe(P!ReadsLine))
  /\ WF_probeVars(Probe(P!ReadsStartup)) /\ WF_probeVars(Probe(P!AsksUsage))
  /\ WF_probeVars(Probe(P!ReadsUsage)) /\ WF_probeVars(Probe(P!SeesEnd))
  /\ WF_probeVars(Probe(P!TimesOut)) /\ WF_probeVars(Probe(P!Tick))
  /\ WF_commandVars(part = "command" /\ O!Next)

ThreadsSpec == ThreadsInit /\ [][ThreadsNext]_threadVars /\ ThreadsFairness

------------------------------------------------------------------------------
(* The properties of the other modules                                     *)

\* The quota of an agent that runs is read again and again, and each read of a
\* program that goes on printing ends and leaves nothing running (AgentQuotas,
\* QuotaProbe).
QuotasKeepComing == Q!QuotaKeepsComing /\ (part = "probe" => P!ProbeEnds /\ []P!NothingIsLeft)

\* A connection that stays dead is given up, one that replies is kept, the waits
\* between attempts grow, and a command on the machine of the user keeps the
\* thread no longer than its time (TelemetryLoop, LocalCommand).
LinkFollowsHost ==
  /\ L!DeadIsDropped /\ L!LiveIsKept /\ L!WaitsGrow
  /\ part = "command" => O!CollectorReturns

\* A call gets its reply and leaves the dialog whatever the user does (McpActions).
EveryCallIsAnswered == A!EveryCallIsAnswered /\ A!SettledLeavesDialog

\* On a hop that is gone each forward of the monitor ends, and unless an attempt
\* was given up half-way no channel goes where another was asked (Channels).
DeadHopIsNoticed == C!DeadHopIsNoticed /\ []C!ApartUnlessGivenUp
=============================================================================
