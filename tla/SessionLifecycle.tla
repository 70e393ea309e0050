------------------------- MODULE SessionLifecycle -------------------------
(***************************************************************************)
(* The terminal sessions of the backend (src-tauri/src/ssh/terminal.rs     *)
(* with the AppState of session.rs, the forwarding registry and the        *)
(* telemetry hub).                                                         *)
(*                                                                         *)
(* A session is identified by its profile.  It owns panes, one shell each; *)
(* one reader thread per pane; one telemetry monitor thread per connect;   *)
(* and entries in several maps of AppState, each behind a mutex of its     *)
(* own.  No operation holds two of these mutexes together, so one action   *)
(* below is the critical section of ONE mutex and everything else may      *)
(* happen between two of them.  The removals from the pools and caches of  *)
(* a session, which a teardown makes one after the other, are one action:  *)
(* nothing reads one of these maps to decide what to do with another, so   *)
(* their order among themselves cannot be told.                            *)
(***************************************************************************)
EXTENDS FiniteSets

CONSTANTS
  Sessions,       \* profile ids
  LocalSessions,  \* profiles with is_local
  Panes,          \* terminal ids; each is used once, as uuid::new_v4 promises
  Commands,       \* Tauri commands that run at the same time
  Issued,         \* the operations an instance issues: a bound of the model
  None

ASSUME SessionsAssumption ==
  /\ LocalSessions \subseteq Sessions
  /\ None \notin Sessions \cup Panes

VARIABLES
  profiles,     \* sessions.json
  terminals,    \* AppState.terminals: the registered panes
  paneSession,  \* session_id of the handle of a pane; None: id not yet used
  stop,         \* panes whose TerminalHandle.stop is set
  active,       \* AppState.active_connections: its keys
  telemetry,    \* AppState.telemetry_stops: the connect whose flag it holds
  monitorStop,  \* monitors whose stop flag is set
  ops,          \* AppState.kindssessions: its keys
  forwards,     \* ForwardManager.sets: its keys
  history,      \* sessions with telemetry_history, latest_telemetry, alerts
  reader,       \* the reader thread of each pane
  monitor,      \* the monitor thread started by the connect of each pane
  forwardJob,   \* the thread of start_saved_forwards of that connect
  pc, op, target, pane, taken, \* the commands in flight
  crossed,      \* sessions a command was opening something of while they were
                \* deleted,
  unsettled     \* and those whose saved forwards were starting when they were:
                \* neither is in the code

threads  == <<reader, monitor, forwardJob>>
commands == <<pc, op, target, pane, taken>>
pools    == <<ops, forwards, history>>
registry == <<terminals, paneSession, stop, active>>
monitors == <<telemetry, monitorStop>>
deleted  == <<crossed, unsettled>>
vars     == <<profiles, registry, monitors, pools, threads, commands, deleted>>

-----------------------------------------------------------------------------
ReaderStates  == {"none", "running", "closing", "wipeActive", "wipeMonitor",
                  "wipePools", "done"}
MonitorStates == {"none", "running", "collecting", "recording", "ended"}
JobStates     == {"none", "opening", "done"}
Operations    == {"connect", "split", "close", "disconnect", "delete",
                  "operation", "forward"}
Locations     == {"idle", "open", "pools", "monitor", "terminals", "handles",
                  "activate", "reader", "startMonitor"}

TypeOK ==
  /\ profiles \subseteq Sessions
  /\ terminals \subseteq Panes
  /\ paneSession \in [Panes -> Sessions \cup {None}]
  /\ stop \subseteq Panes
  /\ active \subseteq Sessions
  /\ telemetry \in [Sessions -> Panes \cup {None}]
  /\ monitorStop \subseteq Panes
  /\ ops \subseteq Sessions
  /\ forwards \subseteq Sessions
  /\ history \subseteq Sessions
  /\ reader \in [Panes -> ReaderStates]
  /\ monitor \in [Panes -> MonitorStates]
  /\ forwardJob \in [Panes -> JobStates]
  /\ pc \in [Commands -> Locations]
  /\ op \in [Commands -> Operations \cup {None}]
  /\ target \in [Commands -> Sessions \cup {None}]
  /\ pane \in [Commands -> Panes \cup {None}]
  /\ taken \in [Commands -> SUBSET Panes]
  /\ crossed \subseteq Sessions
  /\ unsettled \subseteq Sessions

\* A fresh process: the stored profiles and nothing else.
Init ==
  /\ profiles \in SUBSET Sessions
  /\ terminals = {} /\ stop = {} /\ active = {} /\ monitorStop = {}
  /\ paneSession = [p \in Panes |-> None]
  /\ telemetry = [s \in Sessions |-> None]
  /\ ops = {} /\ forwards = {} /\ history = {}
  /\ reader = [p \in Panes |-> "none"]
  /\ monitor = [p \in Panes |-> "none"]
  /\ forwardJob = [p \in Panes |-> "none"]
  /\ pc = [c \in Commands |-> "idle"]
  /\ op = [c \in Commands |-> None]
  /\ target = [c \in Commands |-> None]
  /\ pane = [c \in Commands |-> None]
  /\ taken = [c \in Commands |-> {}]
  /\ crossed = {} /\ unsettled = {}

PanesOf(s) == {p \in Panes : paneSession[p] = s}
Registered(s) == terminals \cap PanesOf(s)

-----------------------------------------------------------------------------
(* Commands: how they start, move on and return.                           *)

\* What brings something of a session up.
Opening == {"connect", "split", "operation", "forward"}
Underway(s, kinds) == \E c \in Commands : target[c] = s /\ op[c] \in kinds

\* What a deletion of s meets, and what meets a deletion of it.
Meets(operation, s) ==
  LET crosses == IF operation = "delete" THEN Underway(s, Opening)
                 ELSE operation \in Opening /\ Underway(s, {"delete"})
  IN /\ crossed' = IF crosses THEN crossed \cup {s}
                   ELSE IF operation = "delete" THEN crossed \ {s} ELSE crossed
     /\ unsettled' =
          IF operation # "delete" THEN unsettled
          ELSE IF \E p \in PanesOf(s) : forwardJob[p] = "opening" THEN unsettled \cup {s}
          ELSE unsettled \ {s}

Begin(c, operation, s, next) ==
  /\ operation \in Issued
  /\ pc[c] = "idle"
  /\ pc' = [pc EXCEPT ![c] = next]
  /\ op' = [op EXCEPT ![c] = operation]
  /\ target' = [target EXCEPT ![c] = s]
  /\ Meets(operation, s)

Goto(c, next) ==
  /\ pc' = [pc EXCEPT ![c] = next]
  /\ UNCHANGED <<op, target, pane, taken, deleted>>

Return(c) ==
  /\ pc' = [pc EXCEPT ![c] = "idle"]
  /\ op' = [op EXCEPT ![c] = None]
  /\ target' = [target EXCEPT ![c] = None]
  /\ pane' = [pane EXCEPT ![c] = None]
  /\ UNCHANGED <<taken, deleted>>

\* connect_terminal, connect_local_terminal.  Nothing shared is read or
\* written until the shell is open (if that or the write of sessions.json
\* fails, the command returns); then the profile is saved, before any live
\* pane is replaced.
ConnectStart(c, s, p) ==
  /\ Begin(c, "connect", s, "pools")
  /\ paneSession[p] = None
  /\ paneSession' = [paneSession EXCEPT ![p] = s]
  /\ pane' = [pane EXCEPT ![c] = p]
  /\ profiles' = profiles \cup {s}
  /\ UNCHANGED <<terminals, stop, active, monitors, pools, threads, taken>>

\* create_terminal_split looks at active_connections once, before it opens.
SplitStart(c, s) ==
  /\ s \in active
  /\ Begin(c, "split", s, "open")
  /\ UNCHANGED <<profiles, registry, monitors, pools, threads, pane, taken>>

\* disconnect_terminal.
DisconnectStart(c, s) ==
  /\ Begin(c, "disconnect", s, "pools")
  /\ UNCHANGED <<profiles, registry, monitors, pools, threads, pane, taken>>

\* Mutant: the delete forgets stop_existing_session.
DeleteStart_NoTeardown(c, s) ==
  /\ s \in profiles
  /\ Begin(c, "delete", s, "handles")
  /\ profiles' = profiles \ {s}
  /\ UNCHANGED <<registry, monitors, pools, threads, pane, taken>>

\* delete_session: the profile goes first, the teardown follows.  A refused
\* delete changes nothing.
DeleteStart(c, s) ==
  /\ s \in profiles
  /\ Begin(c, "delete", s, "pools")
  /\ profiles' = profiles \ {s}
  /\ UNCHANGED <<registry, monitors, pools, threads, pane, taken>>

\* Mutant: the handle is taken out of the registry and dropped, not stopped.
PaneCloseStart_NotStopped(c, p) ==
  /\ p \in terminals
  /\ Begin(c, "close", paneSession[p], "handles")
  /\ terminals' = terminals \ {p}
  /\ UNCHANGED <<profiles, paneSession, stop, active, monitors, pools,
                 threads, pane, taken>>

\* disconnect_terminal_pane takes the handle out of the registry.
PaneCloseStart(c, p) ==
  /\ p \in terminals
  /\ Begin(c, "close", paneSession[p], "handles")
  /\ taken' = [taken EXCEPT ![c] = {p}]
  /\ terminals' = terminals \ {p}
  /\ UNCHANGED <<profiles, paneSession, stop, active, monitors, pools,
                 threads, pane>>

\* with_kindssession and start_forward / restart_profile_forwards: the target
\* is that of an active remote session, looked up before the connection opens.
UseStart(c, s) ==
  /\ s \in active \ LocalSessions
  /\ \E use \in {"operation", "forward"} : Begin(c, use, s, "open")
  /\ UNCHANGED <<profiles, registry, monitors, pools, threads, pane, taken>>

\* The handshake or the channel failed.
OpenFails(c) ==
  /\ pc[c] = "open"
  /\ Return(c)
  /\ UNCHANGED <<profiles, registry, monitors, pools, threads>>

SplitOpened(c, p) ==
  /\ pc[c] = "open" /\ op[c] = "split"
  /\ paneSession[p] = None
  /\ paneSession' = [paneSession EXCEPT ![p] = target[c]]
  /\ pane' = [pane EXCEPT ![c] = p]
  /\ pc' = [pc EXCEPT ![c] = "handles"]
  /\ UNCHANGED <<profiles, terminals, stop, active, monitors, pools, threads,
                 op, target, taken, deleted>>

\* The new connection goes into its pool without a second look at `active`.
UseOpened(c) ==
  /\ pc[c] = "open"
  /\ \/ /\ op[c] = "operation"
        /\ ops' = ops \cup {target[c]}
        /\ UNCHANGED forwards
     \/ /\ op[c] = "forward"
        /\ forwards' = forwards \cup {target[c]}
        /\ UNCHANGED ops
  /\ Return(c)
  /\ UNCHANGED <<profiles, registry, monitors, history, threads>>

-----------------------------------------------------------------------------
(* stop_existing_session, one mutex after the other.                       *)

\* Mutant: the forwards of the session go on.
DropPools_KeepsForwards(s) ==
  /\ ops' = ops \ {s}
  /\ forwards' = forwards
  /\ history' = history \ {s}

\* The ops session, the forwards, the OS and GPU caches, the history, the
\* latest reading, the alert scope and the queued quota refreshes.
DropPools(s) ==
  /\ ops' = ops \ {s}
  /\ forwards' = forwards \ {s}
  /\ history' = history \ {s}

StopPools(c) ==
  /\ pc[c] = "pools"
  /\ DropPools(target[c])
  /\ Goto(c, "monitor")
  /\ UNCHANGED <<profiles, registry, monitors, threads>>

\* Mutant: a missing entry is not told from a present one.
TakeMonitor_Missing(s) ==
  /\ monitorStop' = monitorStop \cup {telemetry[s]}
  /\ telemetry' = [telemetry EXCEPT ![s] = None]

\* telemetry_stops.remove(s), and the flag it held is set.
TakeMonitor(s) ==
  /\ monitorStop' = monitorStop \cup ({telemetry[s]} \ {None})
  /\ telemetry' = [telemetry EXCEPT ![s] = None]

StopMonitor(c) ==
  /\ pc[c] = "monitor"
  /\ TakeMonitor(target[c])
  /\ Goto(c, "terminals")
  /\ UNCHANGED <<profiles, registry, pools, threads>>

TakeTerminals(c) ==
  /\ pc[c] = "terminals"
  /\ taken' = [taken EXCEPT ![c] = Registered(target[c])]
  /\ terminals' = terminals \ Registered(target[c])
  /\ pc' = [pc EXCEPT ![c] = "handles"]
  /\ UNCHANGED <<profiles, paneSession, stop, active, monitors, pools,
                 threads, op, target, pane, deleted>>

\* stop_terminal_handle: the flag is set, then the channel (or the child) and
\* the connection are closed, outside every lock of the registry.
StopHandle(c, p) ==
  /\ pc[c] = "handles"
  /\ p \in taken[c]
  /\ stop' = stop \cup {p}
  /\ taken' = [taken EXCEPT ![c] = @ \ {p}]
  /\ UNCHANGED <<profiles, terminals, paneSession, active, monitors, pools,
                 threads, pc, op, target, pane, deleted>>

PaneClosed(c) ==
  /\ pc[c] = "handles" /\ op[c] = "close" /\ taken[c] = {}
  /\ Return(c)
  /\ UNCHANGED <<profiles, registry, monitors, pools, threads>>

\* The end of disconnect_terminal and of teardown_session.
Deactivate(c) ==
  /\ pc[c] = "handles" /\ op[c] \in {"disconnect", "delete"} /\ taken[c] = {}
  /\ active' = active \ {target[c]}
  /\ Return(c)
  /\ UNCHANGED <<profiles, terminals, paneSession, stop, monitors, pools,
                 threads>>

-----------------------------------------------------------------------------
(* The second half of a connect or split.                                  *)

Register(c) ==
  /\ pc[c] = "handles" /\ op[c] \in {"connect", "split"} /\ taken[c] = {}
  /\ terminals' = terminals \cup {pane[c]}
  /\ Goto(c, IF op[c] = "connect" THEN "activate" ELSE "reader")
  /\ UNCHANGED <<profiles, paneSession, stop, active, monitors, pools,
                 threads>>

Activate(c) ==
  /\ pc[c] = "activate"
  /\ active' = active \cup {target[c]}
  /\ Goto(c, "reader")
  /\ UNCHANGED <<profiles, terminals, paneSession, stop, monitors, pools,
                 threads>>

\* The reader thread, and for a remote connect the thread that brings the
\* saved forwards up.
StartReader(c) ==
  /\ pc[c] = "reader"
  /\ reader' = [reader EXCEPT ![pane[c]] = "running"]
  /\ \/ /\ op[c] = "connect"
        /\ forwardJob' = IF target[c] \in LocalSessions THEN forwardJob
                         ELSE [forwardJob EXCEPT ![pane[c]] = "opening"]
        /\ Goto(c, "startMonitor")
     \/ /\ op[c] = "split"
        /\ Return(c)
        /\ UNCHANGED forwardJob
  /\ UNCHANGED <<profiles, registry, monitors, pools, monitor>>

\* Mutant: the entry is overwritten without setting the previous flag.
StartMonitor_KeepsPrevious(c) ==
  /\ pc[c] = "startMonitor"
  /\ telemetry' = [telemetry EXCEPT ![target[c]] = pane[c]]
  /\ monitor' = [monitor EXCEPT ![pane[c]] = "running"]
  /\ Return(c)
  /\ UNCHANGED <<profiles, registry, monitorStop, pools, reader, forwardJob>>

\* start_system_monitor, start_local_system_monitor: the previous flag of the
\* session is set when the new one takes its place, under one lock.
StartMonitor(c) ==
  /\ pc[c] = "startMonitor"
  /\ monitorStop' = monitorStop \cup ({telemetry[target[c]]} \ {None})
  /\ telemetry' = [telemetry EXCEPT ![target[c]] = pane[c]]
  /\ monitor' = [monitor EXCEPT ![pane[c]] = "running"]
  /\ Return(c)
  /\ UNCHANGED <<profiles, registry, pools, reader, forwardJob>>

-----------------------------------------------------------------------------
(* The reader thread of a pane and finish_terminal_reader.                 *)

ReaderGoto(p, next) == reader' = [reader EXCEPT ![p] = next]

\* The loop ends: the stop flag is seen, the shell exits, or the transport
\* fails.
ReaderEnds(p) ==
  /\ reader[p] = "running"
  /\ ReaderGoto(p, "closing")
  /\ UNCHANGED <<profiles, registry, monitors, pools, monitor, forwardJob,
                 commands, deleted>>

\* Mutant: the registry is searched before the pane itself is removed.
ReaderDecides_TooEarly(p) ==
  /\ reader[p] = "closing"
  /\ terminals' = terminals \ {p}
  /\ ReaderGoto(p, IF \E q \in terminals : paneSession[q] = paneSession[p]
                   THEN "done" ELSE "wipeActive")
  /\ UNCHANGED <<profiles, paneSession, stop, active, monitors, pools,
                 monitor, forwardJob, commands, deleted>>

\* Remove the pane and decide session_closed, under one lock.
ReaderDecides(p) ==
  /\ reader[p] = "closing"
  /\ terminals' = terminals \ {p}
  /\ ReaderGoto(p, IF \E q \in terminals' : paneSession[q] = paneSession[p]
                   THEN "done" ELSE "wipeActive")
  /\ UNCHANGED <<profiles, paneSession, stop, active, monitors, pools,
                 monitor, forwardJob, commands, deleted>>

ReaderWipesActive(p) ==
  /\ reader[p] = "wipeActive"
  /\ active' = active \ {paneSession[p]}
  /\ ReaderGoto(p, "wipeMonitor")
  /\ UNCHANGED <<profiles, terminals, paneSession, stop, monitors, pools,
                 monitor, forwardJob, commands, deleted>>

ReaderWipesMonitor(p) ==
  /\ reader[p] = "wipeMonitor"
  /\ TakeMonitor(paneSession[p])
  /\ ReaderGoto(p, "wipePools")
  /\ UNCHANGED <<profiles, registry, pools, monitor, forwardJob, commands, deleted>>

ReaderWipesPools(p) ==
  /\ reader[p] = "wipePools"
  /\ DropPools(paneSession[p])
  /\ ReaderGoto(p, "done")
  /\ UNCHANGED <<profiles, registry, monitors, monitor, forwardJob, commands, deleted>>

ReaderStep(p) ==
  \/ ReaderDecides(p) \/ ReaderWipesActive(p) \/ ReaderWipesMonitor(p)
  \/ ReaderWipesPools(p)

-----------------------------------------------------------------------------
(* The monitor thread and telemetry_hub::observe, and the forwards thread. *)

MonitorGoto(p, next) == monitor' = [monitor EXCEPT ![p] = next]

\* Mutant: the loop does not look at its flag.
MonitorCollects_Unstoppable(p) ==
  /\ monitor[p] = "running"
  /\ MonitorGoto(p, "collecting")
  /\ UNCHANGED <<profiles, registry, monitors, pools, reader, forwardJob,
                 commands, deleted>>

\* One turn of the loop: the flag is read at the top, then a reading taken.
MonitorCollects(p) ==
  /\ monitor[p] = "running"
  /\ MonitorGoto(p, IF p \in monitorStop THEN "ended" ELSE "collecting")
  /\ UNCHANGED <<profiles, registry, monitors, pools, reader, forwardJob,
                 commands, deleted>>

\* observe() looks the session up in active_connections ...
MonitorLooksUp(p) ==
  /\ monitor[p] = "collecting"
  /\ MonitorGoto(p, IF paneSession[p] \in active THEN "recording"
                    ELSE "running")
  /\ UNCHANGED <<profiles, registry, monitors, pools, reader, forwardJob,
                 commands, deleted>>

\* ... and, that lock released, records the reading.
MonitorRecords(p) ==
  /\ monitor[p] = "recording"
  /\ history' = history \cup {paneSession[p]}
  /\ MonitorGoto(p, "running")
  /\ UNCHANGED <<profiles, registry, monitors, ops, forwards, reader,
                 forwardJob, commands, deleted>>

MonitorStep(p) == MonitorCollects(p) \/ MonitorLooksUp(p) \/ MonitorRecords(p)

\* start_profile_forwards of a connect: no saved rule or no connection ...
SavedForwardsNone(p) ==
  /\ forwardJob[p] = "opening"
  /\ forwardJob' = [forwardJob EXCEPT ![p] = "done"]
  /\ UNCHANGED <<profiles, registry, monitors, pools, reader, monitor,
                 commands, deleted>>

\* ... or the set of the profile is created once the connection is open.
SavedForwardsStart(p) ==
  /\ forwardJob[p] = "opening"
  /\ forwardJob' = [forwardJob EXCEPT ![p] = "done"]
  /\ forwards' = forwards \cup {paneSession[p]}
  /\ UNCHANGED <<profiles, registry, monitors, ops, history, reader, monitor,
                 commands, deleted>>

\* stop_forward of the last rule removes the set.
StopForward(s) ==
  /\ s \in forwards
  /\ forwards' = forwards \ {s}
  /\ UNCHANGED <<profiles, registry, monitors, ops, history, threads,
                 commands, deleted>>

-----------------------------------------------------------------------------
CommandStart(c) ==
  \/ \E s \in Sessions : \/ \E p \in Panes : ConnectStart(c, s, p)
                         \/ SplitStart(c, s)
                         \/ DisconnectStart(c, s) \/ DeleteStart(c, s)
                         \/ UseStart(c, s)
  \/ \E p \in Panes : PaneCloseStart(c, p)

CommandStep(c) ==
  \/ OpenFails(c) \/ UseOpened(c)
  \/ \E p \in Panes : SplitOpened(c, p) \/ StopHandle(c, p)
  \/ StopPools(c) \/ StopMonitor(c) \/ TakeTerminals(c)
  \/ PaneClosed(c) \/ Deactivate(c)
  \/ Register(c) \/ Activate(c) \/ StartReader(c) \/ StartMonitor(c)

ForwardJobStep(p) == SavedForwardsNone(p) \/ SavedForwardsStart(p)

Next ==
  \/ \E c \in Commands : CommandStart(c) \/ CommandStep(c)
  \/ \E p \in Panes : \/ ReaderEnds(p) \/ ReaderStep(p) \/ MonitorStep(p)
                      \/ ForwardJobStep(p)
  \/ \E s \in Sessions : StopForward(s)

\* The threads are scheduled, every network call has a timeout, and a reader
\* whose stop flag is set sees it within 30 ms (a local reader is released
\* when its child is killed).  Nobody has to start a command, and a shell that
\* is not stopped need not end.
Fairness ==
  /\ \A c \in Commands : WF_vars(CommandStep(c))
  /\ \A p \in Panes : /\ WF_vars(p \in stop /\ ReaderEnds(p))
                      /\ WF_vars(ReaderStep(p))
                      /\ WF_vars(MonitorStep(p))
                      /\ WF_vars(ForwardJobStep(p))

Spec == Init /\ [][Next]_vars
FairSpec == Spec /\ Fairness

-----------------------------------------------------------------------------
(* What the maps, the flags and the threads promise each other.            *)

MonitorAlive(p) == monitor[p] \in {"running", "collecting", "recording"}

\* A telemetry thread that nobody has told to stop is the one whose flag
\* telemetry_stops holds for its session.  So one session never has two live
\* monitors, and the next disconnect or connect can always stop it, whatever
\* connects, disconnects and closing panes overlap.
MonitorTracked ==
  \A p \in Panes : MonitorAlive(p) /\ p \notin monitorStop
                   => telemetry[paneSession[p]] = p

\* A command between registering a pane and starting its reader.
StartsReaderOf(p) ==
  \E c \in Commands : pane[c] = p /\ pc[c] \in {"activate", "reader"}

\* No shell is lost from sight: a pane whose reader runs, or is about to, is
\* in the registry, or its stop flag is set, or a command that took its
\* handle out is about to set it.  A running shell the application can neither
\* list nor stop would break this.
ReaderReachable ==
  \A p \in Panes : reader[p] = "running" \/ StartsReaderOf(p)
                   => \/ p \in terminals \cup stop
                      \/ \E c \in Commands : p \in taken[c]

\* The reader will still look whether its session has another pane, and
\* remove the session's entry from active_connections if not.
WillDecide(p) ==
  \/ reader[p] \in {"running", "closing", "wipeActive"}
  \/ StartsReaderOf(p)

\* A connected session is never stranded: as long as active_connections holds
\* it, some pane of it has yet to make its closing decision, even when panes
\* close, split and reconnect at once.
ActiveWatched ==
  \A s \in active : \E p \in PanesOf(s) : WillDecide(p)

\* A session left without registered panes, and without a connect or split on
\* its way, leaves active_connections by itself.
PanelessSessionDeactivates ==
  \A s \in Sessions :
    (s \in active /\ Registered(s) = {})
      ~> (s \notin active \/ Registered(s) # {})

\* A monitor thread that was told to stop ends; it does not stay in its
\* reconnect loop.
StoppedMonitorEnds ==
  \A p \in Panes : (p \in monitorStop /\ MonitorAlive(p))
                     ~> monitor[p] = "ended"

\* Nothing is under way for the session: no command, no pane on its way out,
\* no forwards starting.
Quiet(s) ==
  /\ \A c \in Commands : target[c] # s
  /\ \A p \in PanesOf(s) : /\ reader[p] \in {"none", "running", "done"}
                           /\ p \in stop => reader[p] # "running"
                           /\ forwardJob[p] # "opening"

\* README: "successful deletion tears down terminals, forwards, monitoring
\* connections".  Once all is quiet, a deleted profile has no shell, no entry and
\* no operations connection, and whatever monitor of it still runs was told to
\* stop, unless a command was opening something of it meanwhile; and it has no
\* forwards, unless their thread was out when the deletion began.  A last reading
\* a monitor records is not looked at: see HistoryStaysForgotten.
DeletedProfileTornDown ==
  \A s \in Sessions : Quiet(s) /\ s \notin profiles \cup crossed =>
    /\ Registered(s) = {} /\ s \notin active \cup ops
    /\ \A p \in PanesOf(s) : /\ reader[p] # "running"
                             /\ MonitorAlive(p) => p \in monitorStop
    /\ s \in forwards => s \in unsettled

-----------------------------------------------------------------------------
(* What the comments and the README say and the code does not keep.        *)

\* terminal.rs, connect_terminal: because the replacement pane is registered
\* first, "a reader from the previous connection can then never mistake the
\* replacement handshake for a session with no remaining terminal panes".
\* So a reader thread never takes a session with a registered pane out of
\* active_connections.
ReplacementNotMistaken ==
  [][\A p \in Panes :
       (reader[p] = "wipeActive" /\ reader'[p] # reader[p])
         => (paneSession[p] \in active => Registered(paneSession[p]) = {})]_vars

\* telemetry_hub.rs, observe: "a monitor thread that was just stopped can
\* deliver one last reading after its session is torn down; it must not bring
\* the history back".
HistoryStaysForgotten ==
  [][\A s \in Sessions : s \in history' \ history => s \in active]_vars

\* forwarding.rs: forwards "last until stopped or disconnected", and
\* stop_profile "stops every forward of a profile; called when it
\* disconnects".
ForwardsEndWithSession ==
  \A s \in Sessions : Quiet(s) /\ s \notin active => s \notin forwards

\* The README's sentence as it stands: a connect goes on after its profile was
\* deleted, forwards come up late and a last reading is recorded.
NothingLeftOfDeleted ==
  \A s \in Sessions : Quiet(s) /\ s \notin profiles
                        => s \notin active \cup ops \cup forwards \cup history
=============================================================================
