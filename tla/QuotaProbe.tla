----------------------------- MODULE QuotaProbe -----------------------------
(***************************************************************************)
(* One probe of an account quota (query_codex_quota_local and _remote,     *)
(* query_agy_quota_local and _remote, ssh/agent_monitor.rs): a program is  *)
(* started, here or on a host, asked for the quota and stopped.  Codex is  *)
(* asked twice on its standard input; AGY draws on a terminal, and is      *)
(* asked when it has come to rest.                                         *)
(***************************************************************************)
EXTENDS Naturals, Sequences

CONSTANTS
  StartTimeout,    \* AGY_STARTUP_TIMEOUT, in ticks
  AnswerTimeout,   \* CODEX_QUOTA_TIMEOUT, AGY_QUOTA_TIMEOUT
  MaxUnread,       \* what the program prints and nobody has read: a bound
  None

ProbeAssumption == StartTimeout \in Nat /\ AnswerTimeout \in Nat /\ MaxUnread >= 1

VARIABLES
  tool, via,    \* "codex" or "agy", "local" or "remote"
  phase,        \* what the probe waits for; "ended"
  waited,       \* ticks since it began to wait, for a remote Codex since
                \* something was read
  rested,       \* whether a tick has passed since AGY showed something; None
                \* before it does
  asked,        \* what the program was asked
  unread,       \* what it printed
  shown,        \* the parts of the quota that were read
  alive,        \* whether the program runs
  session,      \* the SSH session of a remote probe: blocking, and its timeout
  result        \* None, "quota" or "failed"

vars == <<tool, via, phase, waited, rested, asked, unread, shown, alive, session, result>>

AsBefore == [blocking |-> TRUE, timeout |-> "before"]
Parts == {"gemini", "claude"}   \* the two groups of models AGY shows
Lines == {"noise", "ready", "limits", "error"} \cup Parts

TypeOK ==
  /\ tool \in {"codex", "agy"} /\ via \in {"local", "remote"}
  /\ phase \in {"idle", "startup", "initialize", "limits", "usage", "ended"}
  /\ waited \in 0 .. StartTimeout + AnswerTimeout /\ rested \in BOOLEAN \cup {None}
  /\ asked \subseteq {"initialize", "limits", "usage"}
  /\ unread \in UNION {[1 .. n -> Lines] : n \in 0 .. MaxUnread}
  /\ shown \subseteq Parts /\ alive \in BOOLEAN
  /\ session \in [blocking : BOOLEAN, timeout : {"before", "probe"}]
  /\ result \in {None, "quota", "failed"}

Init ==
  /\ tool \in {"codex", "agy"} /\ via \in {"local", "remote"}
  /\ phase = "idle" /\ waited = 0 /\ rested = None /\ asked = {} /\ unread = <<>>
  /\ shown = {} /\ alive = FALSE /\ session = AsBefore /\ result = None

-----------------------------------------------------------------------------
(* The program: it prints when it likes, answers what it was asked, and may *)
(* end by itself.                                                           *)

Prints(line) ==
  /\ alive /\ Len(unread) < MaxUnread
  /\ tool = "codex" => /\ line \notin Parts
                       /\ line = "ready" => "initialize" \in asked
                       /\ line \in {"limits", "error"} => "limits" \in asked
  /\ tool = "agy" => /\ line \in Parts \cup {"noise"}
                     /\ line \in Parts => "usage" \in asked
  /\ unread' = Append(unread, line)
  /\ UNCHANGED <<tool, via, phase, waited, rested, asked, shown, alive, session, result>>

Exits ==
  /\ alive /\ alive' = FALSE
  /\ UNCHANGED <<tool, via, phase, waited, rested, asked, unread, shown, session, result>>

-----------------------------------------------------------------------------
(* The probe                                                               *)

\* However the conversation goes, the program is stopped and the session is
\* as it was.
Ends_NotBlocking(how) ==
  /\ phase' = "ended" /\ result' = how /\ alive' = FALSE
  /\ session' = [session EXCEPT !.timeout = "before"]
  /\ waited' = 0 /\ unread' = <<>> /\ UNCHANGED <<tool, via, rested, asked, shown>>

Ends(how) ==
  /\ phase' = "ended" /\ result' = how /\ alive' = FALSE /\ session' = AsBefore
  /\ waited' = 0 /\ unread' = <<>> /\ UNCHANGED <<tool, via, rested, asked, shown>>

\* A program that cannot be started, a channel that cannot be opened.
CannotStart == phase = "idle" /\ Ends("failed")

\* AGY over SSH is read without blocking.
Starts ==
  /\ phase = "idle" /\ alive' = TRUE /\ waited' = 0
  /\ phase' = IF tool = "agy" THEN "startup" ELSE "initialize"
  /\ asked' = IF tool = "agy" THEN {} ELSE {"initialize"}
  /\ session' = IF via = "local" THEN session
                ELSE [blocking |-> tool = "codex", timeout |-> "probe"]
  /\ UNCHANGED <<tool, via, rested, unread, shown, result>>

\* The next question; a program that has ended cannot be asked.
Asks(next) ==
  IF ~alive THEN Ends("failed")
  ELSE /\ phase' = next /\ asked' = asked \cup {next} /\ waited' = 0
       /\ UNCHANGED <<tool, via, rested, alive, session, result, shown>>

\* A look at what was printed, while there is time: a read of a remote Codex
\* has the timeout to itself.
Limit == IF phase = "startup" THEN StartTimeout ELSE AnswerTimeout
MayRead == unread # <<>> /\ (waited < Limit \/ (tool = "codex" /\ via = "remote"))

\* The deadline of an answer: passing over a line starts it again.
AfterOther_Restarts == 0

\* It does not move, but for a remote Codex.
AfterOther == IF via = "remote" THEN 0 ELSE waited

\* wait_for_json_response: an answer to another request is passed over.
ReadsLine ==
  /\ tool = "codex" /\ phase \in {"initialize", "limits"} /\ MayRead
  /\ LET line == Head(unread)
     IN CASE line = "ready" /\ phase = "initialize" ->
               Asks("limits") /\ (alive => unread' = Tail(unread))
          [] line = "limits" /\ phase = "limits" -> Ends("quota")
          [] line = "error" /\ phase = "limits" -> Ends("failed")
          [] OTHER -> /\ waited' = AfterOther /\ unread' = Tail(unread)
                      /\ UNCHANGED <<tool, via, phase, rested, asked, shown, alive, session, result>>

\* wait_for_agy_startup: what is drawn while AGY starts is not kept.
ReadsStartup ==
  /\ phase = "startup" /\ MayRead
  /\ unread' = Tail(unread) /\ rested' = FALSE
  /\ UNCHANGED <<tool, via, phase, waited, asked, shown, alive, session, result>>

\* AGY has drawn and come to rest, or has drawn and the time is up.
AsksUsage ==
  /\ phase = "startup"
  /\ \/ alive /\ rested = TRUE /\ unread = <<>>
     \/ waited = StartTimeout /\ rested # None
  /\ Asks("usage") /\ (alive => unread' = unread)

\* collect_pty_probe_output, until both groups are there.
ReadsUsage ==
  /\ phase = "usage" /\ MayRead
  /\ LET now == shown \cup ({Head(unread)} \cap Parts)
     IN IF now = Parts THEN Ends("quota")
        ELSE /\ shown' = now /\ unread' = Tail(unread)
             /\ UNCHANGED <<tool, via, phase, waited, rested, asked, alive, session, result>>

\* Nothing more to read: the program has ended.
SeesEnd ==
  /\ phase \notin {"idle", "ended"} /\ ~alive /\ unread = <<>>
  /\ Ends("failed")

\* Nothing came in time.
TimesOut ==
  /\ phase \notin {"idle", "ended"} /\ waited >= Limit
  /\ phase = "startup" => rested = None
  /\ tool = "codex" /\ via = "remote" => unread = <<>>
  /\ Ends("failed")

Tick ==
  /\ phase \notin {"idle", "ended"} /\ waited < Limit
  /\ waited' = waited + 1
  /\ rested' = IF rested = None THEN None ELSE unread = <<>>
  /\ UNCHANGED <<tool, via, phase, asked, unread, shown, alive, session, result>>

Next ==
  \/ \E line \in Lines : Prints(line)
  \/ Exits \/ CannotStart \/ Starts \/ ReadsLine \/ ReadsStartup \/ AsksUsage
  \/ ReadsUsage \/ SeesEnd \/ TimesOut \/ Tick

\* The clock runs, and the probe's thread with it.
Fairness ==
  /\ WF_vars(CannotStart \/ Starts) /\ WF_vars(ReadsLine) /\ WF_vars(ReadsStartup)
  /\ WF_vars(AsksUsage) /\ WF_vars(ReadsUsage) /\ WF_vars(SeesEnd) /\ WF_vars(TimesOut)
  /\ WF_vars(Tick)

Spec == Init /\ [][Next]_vars /\ Fairness

-----------------------------------------------------------------------------
(* Properties.                                                             *)

\* However a probe ends, the program it started is stopped and the session is
\* blocking and has its timeout again (agent_monitor.rs:1598): the session goes
\* on to serve the monitor.
NothingIsLeft == phase = "ended" => ~alive /\ session = AsBefore

\* A probe of a program that goes on printing ends (agent_monitor.rs:1269).
ProbeEnds == (via = "local" \/ tool = "agy") ~> (phase = "ended")

-----------------------------------------------------------------------------
(* One that does not hold.                                                 *)

\* A remote Codex is waited for as long as it prints: each read starts the
\* timeout again (agent_monitor.rs:1330).
RemoteProbeEnds == (via = "remote") ~> (phase = "ended")
=============================================================================
