--------------------------- MODULE TelemetryLoop ---------------------------
(***************************************************************************)
(* The monitor thread of one session (ssh/system_monitor.rs): it connects, *)
(* finds out what the host is and what tools it has, and polls; it has to  *)
(* tell a host that is busy from a connection that is dead.  A local       *)
(* session polls without a connection.  What a session starts and stops is *)
(* in module SessionLifecycle, what becomes of a reading in Alerts and     *)
(* UsageHistory.                                                           *)
(***************************************************************************)
EXTENDS Naturals, Sequences

CONSTANTS
  Hosts,        \* operating systems the host may have
  Tools,        \* GPU tools a POSIX or Windows probe may find
  BackoffInitial, BackoffMax,   \* RECONNECT_BACKOFF_*
  None

MAX_TOTAL_FAILURES == 2

LoopAssumption ==
  /\ Hosts \subseteq {"linux", "macos", "windows"}
  /\ "apple" \notin Tools /\ None \notin Hosts
  /\ BackoffInitial \in Nat \ {0} /\ BackoffMax \in Nat
  /\ BackoffInitial <= BackoffMax

VARIABLES
  host,      \* what the host is, and the GPU tools it has
  local,     \* whether this is the monitor of a local session
  link,      \* whether commands get through: "up" or "dead"
  stop,      \* the stop flag
  at,        \* where the thread is
  backoff,   \* how long it waits after the next failed connect
  waited,    \* how long it waited after the last one, None if it connected
  hostOs, gpuProbe,  \* what is remembered for the connection
  failures,  \* consecutive_total_failures
  reading,   \* the last reading: whether all of it failed, and the tools heard
  lately     \* the last two readings of the connection; not in the code

vars == <<host, local, link, stop, at, backoff, waited, hostOs, gpuProbe,
          failures, reading, lately>>

Host == [os : Hosts, tools : SUBSET Tools]
Probe == SUBSET (Tools \cup {"apple"})

TypeOK ==
  /\ host \in Host /\ local \in BOOLEAN /\ link \in {"up", "dead"}
  /\ stop \in BOOLEAN
  /\ at \in {"connect", "backoff", "detect", "collect", "judge", "sleep", "ended"}
  /\ backoff \in BackoffInitial .. BackoffMax
  /\ waited \in (BackoffInitial .. BackoffMax) \cup {None}
  /\ hostOs \in Hosts \cup {None}
  /\ gpuProbe = None \/ gpuProbe \in Probe
  /\ failures \in 0 .. MAX_TOTAL_FAILURES
  /\ reading \in [failed : BOOLEAN, gpu : Probe]
  /\ lately \in Seq(BOOLEAN) /\ Len(lately) <= 2

Init ==
  /\ host \in Host /\ local \in BOOLEAN /\ link = "up" /\ stop = FALSE
  /\ at = IF local THEN "collect" ELSE "connect"
  /\ backoff = BackoffInitial /\ waited = None
  /\ hostOs = IF local THEN host.os ELSE None
  /\ gpuProbe = IF local /\ host.os = "macos" THEN {"apple"} ELSE None
  /\ failures = 0
  /\ reading = [failed |-> TRUE, gpu |-> {}] /\ lately = <<>>

-----------------------------------------------------------------------------
(* Connecting.                                                             *)

Doubled(b) == IF 2 * b < BackoffMax THEN 2 * b ELSE BackoffMax

\* The stop flag is looked at at the top of both loops.
Stops ==
  /\ stop /\ at \in {"connect", "detect"} \cup (IF local THEN {"collect"} ELSE {})
  /\ at' = "ended"
  /\ UNCHANGED <<host, local, link, stop, backoff, waited, hostOs, gpuProbe,
                 failures, reading, lately>>

\* A new connection knows nothing of the last.
Connects ==
  /\ at = "connect" /\ ~stop /\ link = "up"
  /\ at' = "detect" /\ backoff' = BackoffInitial /\ waited' = None
  /\ hostOs' = None /\ gpuProbe' = None
  /\ failures' = 0 /\ lately' = <<>>
  /\ UNCHANGED <<host, local, link, stop, reading>>

\* A thread whose every failure starts the backoff afresh.
ConnectFails_Restarts(interactive) ==
  /\ at = "connect" /\ ~stop
  /\ reading' = [failed |-> TRUE, gpu |-> {}]
  /\ waited' = IF interactive THEN BackoffMax ELSE BackoffInitial
  /\ backoff' = Doubled(waited')
  /\ at' = "backoff"
  /\ UNCHANGED <<host, local, link, stop, hostOs, gpuProbe, failures, lately>>

\* emit_connection_error_telemetry, and a wait; a server that asks for a code
\* is not asked again soon.
ConnectFails(interactive) ==
  /\ at = "connect" /\ ~stop
  /\ reading' = [failed |-> TRUE, gpu |-> {}]
  /\ waited' = IF interactive THEN BackoffMax ELSE backoff
  /\ backoff' = Doubled(waited')
  /\ at' = "backoff"
  /\ UNCHANGED <<host, local, link, stop, hostOs, gpuProbe, failures, lately>>

\* sleep_with_stop
Wakes ==
  /\ \/ at = "backoff" /\ at' = "connect"
     \/ at = "sleep" /\ at' = IF local THEN "collect" ELSE "detect"
  /\ UNCHANGED <<host, local, link, stop, backoff, waited, hostOs, gpuProbe,
                 failures, reading, lately>>

-----------------------------------------------------------------------------
(* Polling.                                                                *)

\* Commands may time out on a busy host, and get nowhere on a dead connection.
Answers == IF link = "up" THEN BOOLEAN ELSE {FALSE}

\* detect_remote_os: what it finds is kept, that it failed is not.
Detect ==
  /\ at = "detect" /\ ~stop
  /\ \E answered \in Answers :
       /\ hostOs' = IF hostOs = None /\ answered THEN host.os ELSE hostOs
       /\ gpuProbe' = IF hostOs = None /\ hostOs' = "macos" /\ gpuProbe = None
                      THEN {"apple"} ELSE gpuProbe
  /\ at' = "collect"
  /\ UNCHANGED <<host, local, link, stop, backoff, waited, failures,
                 reading, lately>>

\* unwrap_or(RemoteOs::Linux)
AssumedOs == IF hostOs = None THEN "linux" ELSE hostOs

\* Whether commands for the system that is assumed mean anything to the host.
Understood == AssumedOs = "windows" <=> host.os = "windows"

\* Which sections have data: on Windows one command brings all but the agents,
\* elsewhere each section is a command of its own.  "ps" and "hostname" work on
\* any POSIX host, /proc only on Linux.
Sections == {"hostname", "cpu", "memory", "disk", "users", "agents"}

Readable ==
  CASE ~Understood -> {}
    [] AssumedOs = host.os -> Sections
    [] OTHER -> {"hostname", "users", "agents"}

Collected ==
  IF link = "dead" /\ ~local THEN {{}}
  ELSE IF AssumedOs = "windows"
       THEN {s \in SUBSET Readable :
               Sections \ {"agents"} \subseteq s \/ s \subseteq {"agents"}}
       ELSE SUBSET Readable

\* telemetry_all_failed: temperatures have no say, as some hosts answer without
\* a command and others have no sensors.
AllFailed_Thermal(data) == data = {} /\ AssumedOs = "linux"

AllFailed(data) == data = {}

\* detect_gpu_probe: a command that fails finds no tools.
Probes ==
  IF gpuProbe # None THEN {gpuProbe}
  ELSE {{}} \cup (IF Understood /\ (link = "up" \/ local)
                  THEN {host.tools} ELSE {})

\* collect_gpu_metrics_with: each tool that was found is asked, and may fail.
GpuRead(probe) ==
  IF link = "dead" /\ ~local THEN {{}}
  ELSE SUBSET (probe \cap
         (host.tools \cup IF host.os = "macos" THEN {"apple"} ELSE {}))

\* A loop that forgets to start its count afresh.
Collect_Counts ==
  /\ at = "collect" /\ (local => ~stop)
  /\ \E data \in Collected, probe \in Probes : \E gpu \in GpuRead(probe) :
       LET failed == AllFailed(data) /\ gpu = {}
       IN /\ gpuProbe' = probe
          /\ reading' = [failed |-> failed, gpu |-> gpu]
          /\ failures' = IF failed /\ failures < MAX_TOTAL_FAILURES
                         THEN failures + 1 ELSE failures
          /\ lately' = <<failed>> \o SubSeq(lately, 1, IF lately = <<>> THEN 0 ELSE 1)
  /\ at' = IF local THEN "sleep" ELSE "judge"
  /\ UNCHANGED <<host, local, link, stop, backoff, waited, hostOs>>

\* collect_remote_telemetry or collect_local_telemetry, and emit_telemetry.
Collect ==
  /\ at = "collect" /\ (local => ~stop)
  /\ \E data \in Collected, probe \in Probes : \E gpu \in GpuRead(probe) :
       LET failed == AllFailed(data) /\ gpu = {}
       IN /\ gpuProbe' = probe
          /\ reading' = [failed |-> failed, gpu |-> gpu]
          /\ failures' = IF failed /\ ~local THEN failures + 1 ELSE 0
          /\ lately' = <<failed>> \o SubSeq(lately, 1, IF lately = <<>> THEN 0 ELSE 1)
  /\ at' = IF local THEN "sleep" ELSE "judge"
  /\ UNCHANGED <<host, local, link, stop, backoff, waited, hostOs>>

\* connection_answers is asked only after a reading that failed.
Drops == reading.failed /\ (link = "dead" \/ failures >= MAX_TOTAL_FAILURES)

Judge ==
  /\ at = "judge"
  /\ at' = IF Drops THEN "connect" ELSE "sleep"
  /\ UNCHANGED <<host, local, link, stop, backoff, waited, hostOs, gpuProbe,
                 failures, reading, lately>>

-----------------------------------------------------------------------------
LinkChanges ==
  /\ ~local /\ link' = IF link = "up" THEN "dead" ELSE "up"
  /\ UNCHANGED <<host, local, stop, at, backoff, waited, hostOs, gpuProbe,
                 failures, reading, lately>>

Stop ==
  /\ stop' = TRUE
  /\ UNCHANGED <<host, local, link, at, backoff, waited, hostOs, gpuProbe,
                 failures, reading, lately>>

Thread ==
  \/ Stops \/ Connects \/ Wakes \/ Detect \/ Collect \/ Judge
  \/ \E interactive \in BOOLEAN : ConnectFails(interactive)

Next == Thread \/ LinkChanges \/ Stop

Spec == Init /\ [][Next]_vars

\* Every step of the thread has a time limit of its own.
FairSpec == Spec /\ WF_vars(Thread)

-----------------------------------------------------------------------------
(* Properties.                                                             *)

\* "A dead transport keeps looking like total failure": a connection that stays
\* dead is given up and opened again, whatever the host is and whatever it
\* remembers of it (telemetry_all_failed: a section that always answers would
\* keep a dead connection for ever).
DeadIsDropped ==
  <>[](link = "dead" /\ ~local /\ ~stop) =>
    <>[](at \in {"connect", "backoff"})

\* "One cycle where everything failed may be a busy host": a connection that
\* replies is dropped only if the last two readings both failed.
LiveIsKept ==
  [][at = "judge" /\ at' = "connect" /\ link = "up" => lately = <<TRUE, TRUE>>]_at

\* A host that cannot be reached, or asks for a code nobody can give, is tried
\* less and less often until it is reached: no wait is shorter than the one
\* before it ("retry rarely rather than spin through backoff steps").
WaitsGrow ==
  [][waited # None /\ waited' # None => waited' >= waited]_waited

\* collect_gpu_metrics "detects available GPU tools once per connection": once a
\* host is known and polled, the tools it has are asked.  A probe that times
\* out, or one for Linux while the host is not known yet, is remembered as well.
GpuToolsFound ==
  at = "sleep" /\ hostOs # None /\ gpuProbe # None =>
    \/ host.tools \subseteq gpuProbe
    \/ hostOs = "macos" /\ "apple" \in gpuProbe
=============================================================================
