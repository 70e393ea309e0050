---------------------- MODULE SessionLifecycleProofs ----------------------
(***************************************************************************)
(* Proofs about SessionLifecycle for any number of sessions, panes and     *)
(* concurrent commands.                                                    *)
(***************************************************************************)
EXTENDS SessionLifecycle, TLAPS

\* What a command carries at each of its locations.
CommandsOK ==
  \A c \in Commands :
    /\ pc[c] = "idle" => pane[c] = None
    /\ pc[c] # "idle" => target[c] \in Sessions
    /\ pc[c] = "open" => pane[c] = None /\ op[c] # "connect"
    /\ pc[c] \in {"activate", "startMonitor"} => op[c] = "connect"
    /\ pc[c] = "reader" => op[c] \in {"connect", "split"}
    /\ pc[c] # "idle" /\ op[c] = "connect" => pane[c] \in Panes
    /\ pc[c] \notin {"idle", "open"} /\ op[c] = "split" => pane[c] \in Panes
    /\ pc[c] # "handles" => taken[c] = {}

\* The pane a command opened is its own, and its reader has not started
\* before the command starts it.
PanesOK ==
  /\ \A c, d \in Commands : pane[c] # None /\ pane[c] = pane[d] => c = d
  /\ \A c \in Commands : pane[c] # None =>
       /\ paneSession[pane[c]] = target[c]
       /\ pc[c] # "startMonitor" => reader[pane[c]] = "none"

\* An id that no shell was opened for has no trace anywhere.
UnusedPanes ==
  \A p \in Panes : paneSession[p] = None
                   => /\ p \notin terminals
                      /\ reader[p] = "none" /\ monitor[p] = "none"
                      /\ forwardJob[p] = "none"

\* A registered pane has yet to make its closing decision.
RegisteredWatched ==
  \A p \in terminals : reader[p] \in {"running", "closing"} \/ StartsReaderOf(p)

IInv ==
  /\ TypeOK /\ CommandsOK /\ PanesOK /\ UnusedPanes
  /\ MonitorTracked /\ ReaderReachable /\ RegisteredWatched /\ ActiveWatched

-----------------------------------------------------------------------------
\* Every variable keeps its type.
LEMMA TypeStep ==
  ASSUME TypeOK, CommandsOK, UnusedPanes, [Next]_vars
  PROVE  TypeOK'
<1> USE SessionsAssumption DEF TypeOK, CommandsOK, UnusedPanes, threads,
  commands, pools, registry, monitors, vars, ReaderStates, MonitorStates,
  JobStates, Operations, Locations, deleted, Meets
<1>1. ASSUME NEW c \in Commands, NEW s \in Sessions, NEW p \in Panes, ConnectStart(c, s, p)
      PROVE  TypeOK'
  BY <1>1 DEF ConnectStart, Begin
<1>2. ASSUME NEW c \in Commands, NEW s \in Sessions, SplitStart(c, s)
      PROVE  TypeOK'
  BY <1>2 DEF SplitStart, Begin
<1>3. ASSUME NEW c \in Commands, NEW s \in Sessions, DisconnectStart(c, s)
      PROVE  TypeOK'
  BY <1>3 DEF DisconnectStart, Begin
<1>4. ASSUME NEW c \in Commands, NEW s \in Sessions, DeleteStart(c, s)
      PROVE  TypeOK'
  BY <1>4 DEF DeleteStart, Begin
<1>5. ASSUME NEW c \in Commands, NEW p \in Panes, PaneCloseStart(c, p)
      PROVE  TypeOK'
  BY <1>5 DEF PaneCloseStart, Begin
<1>6. ASSUME NEW c \in Commands, NEW s \in Sessions, UseStart(c, s)
      PROVE  TypeOK'
  BY <1>6 DEF UseStart, Begin
<1>7. ASSUME NEW c \in Commands, OpenFails(c)
      PROVE  TypeOK'
  BY <1>7 DEF OpenFails, Return
<1>8. ASSUME NEW c \in Commands, NEW p \in Panes, SplitOpened(c, p)
      PROVE  TypeOK'
  BY <1>8 DEF SplitOpened
<1>9. ASSUME NEW c \in Commands, UseOpened(c)
      PROVE  TypeOK'
  BY <1>9 DEF UseOpened, Return
<1>10. ASSUME NEW c \in Commands, StopPools(c)
      PROVE  TypeOK'
  BY <1>10 DEF StopPools, Goto, DropPools
<1>11. ASSUME NEW c \in Commands, StopMonitor(c)
      PROVE  TypeOK'
  BY <1>11 DEF StopMonitor, Goto, TakeMonitor
<1>12. ASSUME NEW c \in Commands, TakeTerminals(c)
      PROVE  TypeOK'
  BY <1>12 DEF TakeTerminals, Registered, PanesOf
<1>13. ASSUME NEW c \in Commands, NEW p \in Panes, StopHandle(c, p)
      PROVE  TypeOK'
  BY <1>13 DEF StopHandle
<1>14. ASSUME NEW c \in Commands, PaneClosed(c)
      PROVE  TypeOK'
  BY <1>14 DEF PaneClosed, Return
<1>15. ASSUME NEW c \in Commands, Deactivate(c)
      PROVE  TypeOK'
  BY <1>15 DEF Deactivate, Return
<1>16. ASSUME NEW c \in Commands, Register(c)
      PROVE  TypeOK'
  BY <1>16 DEF Register, Goto
<1>17. ASSUME NEW c \in Commands, Activate(c)
      PROVE  TypeOK'
  BY <1>17 DEF Activate, Goto
<1>18. ASSUME NEW c \in Commands, StartReader(c)
      PROVE  TypeOK'
  BY <1>18 DEF StartReader, Goto, Return
<1>19. ASSUME NEW c \in Commands, StartMonitor(c)
      PROVE  TypeOK'
  BY <1>19 DEF StartMonitor, Return
<1>20. ASSUME NEW p \in Panes, ReaderEnds(p)
      PROVE  TypeOK'
  BY <1>20 DEF ReaderEnds, ReaderGoto
<1>21. ASSUME NEW p \in Panes, ReaderDecides(p)
      PROVE  TypeOK'
  BY <1>21 DEF ReaderDecides, ReaderGoto
<1>22. ASSUME NEW p \in Panes, ReaderWipesActive(p)
      PROVE  TypeOK'
  BY <1>22 DEF ReaderWipesActive, ReaderGoto
<1>23. ASSUME NEW p \in Panes, ReaderWipesMonitor(p)
      PROVE  TypeOK'
  BY <1>23 DEF ReaderWipesMonitor, ReaderGoto, TakeMonitor
<1>24. ASSUME NEW p \in Panes, ReaderWipesPools(p)
      PROVE  TypeOK'
  BY <1>24 DEF ReaderWipesPools, ReaderGoto, DropPools
<1>25. ASSUME NEW p \in Panes, MonitorCollects(p)
      PROVE  TypeOK'
  BY <1>25 DEF MonitorCollects, MonitorGoto
<1>26. ASSUME NEW p \in Panes, MonitorLooksUp(p)
      PROVE  TypeOK'
  BY <1>26 DEF MonitorLooksUp, MonitorGoto
<1>27. ASSUME NEW p \in Panes, MonitorRecords(p)
      PROVE  TypeOK'
  BY <1>27 DEF MonitorRecords, MonitorGoto
<1>28. ASSUME NEW p \in Panes, SavedForwardsNone(p)
      PROVE  TypeOK'
  BY <1>28 DEF SavedForwardsNone
<1>29. ASSUME NEW p \in Panes, SavedForwardsStart(p)
      PROVE  TypeOK'
  BY <1>29 DEF SavedForwardsStart
<1>30. ASSUME NEW s \in Sessions, StopForward(s)
      PROVE  TypeOK'
  BY <1>30 DEF StopForward
<1>31. CASE UNCHANGED vars
  BY <1>31
<1>32. QED
  BY <1>1, <1>2, <1>3, <1>4, <1>5, <1>6, <1>7, <1>8, <1>9, <1>10, <1>11,
    <1>12, <1>13, <1>14, <1>15, <1>16, <1>17, <1>18, <1>19, <1>20, <1>21,
    <1>22, <1>23, <1>24, <1>25, <1>26, <1>27, <1>28, <1>29, <1>30, <1>31 DEF
    Next, CommandStart, CommandStep, ReaderStep, MonitorStep, ForwardJobStep

\* A command reaches each location with what it needs there.
LEMMA CommandsStep ==
  ASSUME TypeOK, CommandsOK, UnusedPanes, [Next]_vars
  PROVE  CommandsOK'
<1> USE SessionsAssumption DEF TypeOK, CommandsOK, UnusedPanes, threads,
  commands, pools, registry, monitors, vars, Operations, Locations
<1>1. ASSUME NEW c \in Commands, NEW s \in Sessions, NEW p \in Panes, ConnectStart(c, s, p)
      PROVE  CommandsOK'
  BY <1>1 DEF ConnectStart, Begin
<1>2. ASSUME NEW c \in Commands, NEW s \in Sessions, SplitStart(c, s)
      PROVE  CommandsOK'
  BY <1>2 DEF SplitStart, Begin
<1>3. ASSUME NEW c \in Commands, NEW s \in Sessions, DisconnectStart(c, s)
      PROVE  CommandsOK'
  BY <1>3 DEF DisconnectStart, Begin
<1>4. ASSUME NEW c \in Commands, NEW s \in Sessions, DeleteStart(c, s)
      PROVE  CommandsOK'
  BY <1>4 DEF DeleteStart, Begin
<1>5. ASSUME NEW c \in Commands, NEW p \in Panes, PaneCloseStart(c, p)
      PROVE  CommandsOK'
  BY <1>5 DEF PaneCloseStart, Begin
<1>6. ASSUME NEW c \in Commands, NEW s \in Sessions, UseStart(c, s)
      PROVE  CommandsOK'
  BY <1>6 DEF UseStart, Begin
<1>7. ASSUME NEW c \in Commands, OpenFails(c)
      PROVE  CommandsOK'
  BY <1>7 DEF OpenFails, Return
<1>8. ASSUME NEW c \in Commands, NEW p \in Panes, SplitOpened(c, p)
      PROVE  CommandsOK'
  BY <1>8 DEF SplitOpened
<1>9. ASSUME NEW c \in Commands, UseOpened(c)
      PROVE  CommandsOK'
  BY <1>9 DEF UseOpened, Return
<1>10. ASSUME NEW c \in Commands, StopPools(c)
      PROVE  CommandsOK'
  BY <1>10 DEF StopPools, Goto, DropPools
<1>11. ASSUME NEW c \in Commands, StopMonitor(c)
      PROVE  CommandsOK'
  BY <1>11 DEF StopMonitor, Goto, TakeMonitor
<1>12. ASSUME NEW c \in Commands, TakeTerminals(c)
      PROVE  CommandsOK'
  BY <1>12 DEF TakeTerminals, Registered, PanesOf
<1>13. ASSUME NEW c \in Commands, NEW p \in Panes, StopHandle(c, p)
      PROVE  CommandsOK'
  BY <1>13 DEF StopHandle
<1>14. ASSUME NEW c \in Commands, PaneClosed(c)
      PROVE  CommandsOK'
  BY <1>14 DEF PaneClosed, Return
<1>15. ASSUME NEW c \in Commands, Deactivate(c)
      PROVE  CommandsOK'
  BY <1>15 DEF Deactivate, Return
<1>16. ASSUME NEW c \in Commands, Register(c)
      PROVE  CommandsOK'
  BY <1>16 DEF Register, Goto
<1>17. ASSUME NEW c \in Commands, Activate(c)
      PROVE  CommandsOK'
  BY <1>17 DEF Activate, Goto
<1>18. ASSUME NEW c \in Commands, StartReader(c)
      PROVE  CommandsOK'
  BY <1>18 DEF StartReader, Goto, Return
<1>19. ASSUME NEW c \in Commands, StartMonitor(c)
      PROVE  CommandsOK'
  BY <1>19 DEF StartMonitor, Return
<1>20. CASE UNCHANGED <<pc, op, target, pane, taken>>
  BY <1>20
<1>21. QED
  BY <1>1, <1>2, <1>3, <1>4, <1>5, <1>6, <1>7, <1>8, <1>9, <1>10, <1>11,
    <1>12, <1>13, <1>14, <1>15, <1>16, <1>17, <1>18, <1>19, <1>20 DEF Next,
    CommandStart, CommandStep, ReaderStep, MonitorStep, ForwardJobStep,
    ReaderEnds, ReaderGoto, ReaderDecides, ReaderWipesActive,
    ReaderWipesMonitor, TakeMonitor, ReaderWipesPools, DropPools,
    MonitorCollects, MonitorGoto, MonitorLooksUp, MonitorRecords,
    SavedForwardsNone, SavedForwardsStart, StopForward, threads, commands,
    pools, registry, monitors, vars

\* No two commands share a pane and no pane is started twice.
LEMMA PanesStep ==
  ASSUME TypeOK, CommandsOK, PanesOK, UnusedPanes, [Next]_vars
  PROVE  PanesOK'
<1> USE SessionsAssumption DEF TypeOK, CommandsOK, PanesOK, UnusedPanes,
  threads, commands, pools, registry, monitors, vars, Operations, Locations
<1>1. ASSUME NEW c \in Commands, NEW s \in Sessions, NEW p \in Panes, ConnectStart(c, s, p)
      PROVE  PanesOK'
  BY <1>1 DEF ConnectStart, Begin
<1>2. ASSUME NEW c \in Commands, NEW s \in Sessions, SplitStart(c, s)
      PROVE  PanesOK'
  BY <1>2 DEF SplitStart, Begin
<1>3. ASSUME NEW c \in Commands, NEW s \in Sessions, DisconnectStart(c, s)
      PROVE  PanesOK'
  BY <1>3 DEF DisconnectStart, Begin
<1>4. ASSUME NEW c \in Commands, NEW s \in Sessions, DeleteStart(c, s)
      PROVE  PanesOK'
  BY <1>4 DEF DeleteStart, Begin
<1>5. ASSUME NEW c \in Commands, NEW p \in Panes, PaneCloseStart(c, p)
      PROVE  PanesOK'
  BY <1>5 DEF PaneCloseStart, Begin
<1>6. ASSUME NEW c \in Commands, NEW s \in Sessions, UseStart(c, s)
      PROVE  PanesOK'
  BY <1>6 DEF UseStart, Begin
<1>7. ASSUME NEW c \in Commands, OpenFails(c)
      PROVE  PanesOK'
  BY <1>7 DEF OpenFails, Return
<1>8. ASSUME NEW c \in Commands, NEW p \in Panes, SplitOpened(c, p)
      PROVE  PanesOK'
  BY <1>8 DEF SplitOpened
<1>9. ASSUME NEW c \in Commands, UseOpened(c)
      PROVE  PanesOK'
  BY <1>9 DEF UseOpened, Return
<1>10. ASSUME NEW c \in Commands, StopPools(c)
      PROVE  PanesOK'
  BY <1>10 DEF StopPools, Goto, DropPools
<1>11. ASSUME NEW c \in Commands, StopMonitor(c)
      PROVE  PanesOK'
  BY <1>11 DEF StopMonitor, Goto, TakeMonitor
<1>12. ASSUME NEW c \in Commands, TakeTerminals(c)
      PROVE  PanesOK'
  BY <1>12 DEF TakeTerminals, Registered, PanesOf
<1>13. ASSUME NEW c \in Commands, NEW p \in Panes, StopHandle(c, p)
      PROVE  PanesOK'
  BY <1>13 DEF StopHandle
<1>14. ASSUME NEW c \in Commands, PaneClosed(c)
      PROVE  PanesOK'
  BY <1>14 DEF PaneClosed, Return
<1>15. ASSUME NEW c \in Commands, Deactivate(c)
      PROVE  PanesOK'
  BY <1>15 DEF Deactivate, Return
<1>16. ASSUME NEW c \in Commands, Register(c)
      PROVE  PanesOK'
  BY <1>16 DEF Register, Goto
<1>17. ASSUME NEW c \in Commands, Activate(c)
      PROVE  PanesOK'
  BY <1>17 DEF Activate, Goto
<1>18. ASSUME NEW c \in Commands, StartReader(c)
      PROVE  PanesOK'
  BY <1>18 DEF StartReader, Goto, Return
<1>19. ASSUME NEW c \in Commands, StartMonitor(c)
      PROVE  PanesOK'
  BY <1>19 DEF StartMonitor, Return
<1>20. ASSUME NEW p \in Panes, ReaderEnds(p)
      PROVE  PanesOK'
  BY <1>20 DEF ReaderEnds, ReaderGoto
<1>21. ASSUME NEW p \in Panes, ReaderDecides(p)
      PROVE  PanesOK'
  BY <1>21 DEF ReaderDecides, ReaderGoto
<1>22. ASSUME NEW p \in Panes, ReaderWipesActive(p)
      PROVE  PanesOK'
  BY <1>22 DEF ReaderWipesActive, ReaderGoto
<1>23. ASSUME NEW p \in Panes, ReaderWipesMonitor(p)
      PROVE  PanesOK'
  BY <1>23 DEF ReaderWipesMonitor, ReaderGoto, TakeMonitor
<1>24. ASSUME NEW p \in Panes, ReaderWipesPools(p)
      PROVE  PanesOK'
  BY <1>24 DEF ReaderWipesPools, ReaderGoto, DropPools
<1>25. CASE UNCHANGED <<pc, target, pane, paneSession, reader>>
  BY <1>25
<1>26. QED
  BY <1>1, <1>2, <1>3, <1>4, <1>5, <1>6, <1>7, <1>8, <1>9, <1>10, <1>11,
    <1>12, <1>13, <1>14, <1>15, <1>16, <1>17, <1>18, <1>19, <1>20, <1>21,
    <1>22, <1>23, <1>24, <1>25 DEF Next, CommandStart, CommandStep,
    ReaderStep, MonitorStep, ForwardJobStep, MonitorCollects, MonitorGoto,
    MonitorLooksUp, MonitorRecords, SavedForwardsNone, SavedForwardsStart,
    StopForward, threads, commands, pools, registry, monitors, vars

\* An unused id stays without a trace until a shell is opened for it.
LEMMA UnusedStep ==
  ASSUME TypeOK, CommandsOK, PanesOK, UnusedPanes, [Next]_vars
  PROVE  UnusedPanes'
<1> USE SessionsAssumption DEF TypeOK, CommandsOK, PanesOK, UnusedPanes,
  threads, commands, pools, registry, monitors, vars
<1>1. ASSUME NEW c \in Commands, NEW s \in Sessions, NEW p \in Panes, ConnectStart(c, s, p)
      PROVE  UnusedPanes'
  BY <1>1 DEF ConnectStart, Begin
<1>2. ASSUME NEW c \in Commands, NEW p \in Panes, PaneCloseStart(c, p)
      PROVE  UnusedPanes'
  BY <1>2 DEF PaneCloseStart, Begin
<1>3. ASSUME NEW c \in Commands, NEW p \in Panes, SplitOpened(c, p)
      PROVE  UnusedPanes'
  BY <1>3 DEF SplitOpened
<1>4. ASSUME NEW c \in Commands, TakeTerminals(c)
      PROVE  UnusedPanes'
  BY <1>4 DEF TakeTerminals, Registered, PanesOf
<1>5. ASSUME NEW c \in Commands, Register(c)
      PROVE  UnusedPanes'
  BY <1>5 DEF Register, Goto
<1>6. ASSUME NEW c \in Commands, StartReader(c)
      PROVE  UnusedPanes'
  BY <1>6 DEF StartReader, Goto, Return
<1>7. ASSUME NEW c \in Commands, StartMonitor(c)
      PROVE  UnusedPanes'
  BY <1>7 DEF StartMonitor, Return
<1>8. ASSUME NEW p \in Panes, ReaderEnds(p)
      PROVE  UnusedPanes'
  BY <1>8 DEF ReaderEnds, ReaderGoto
<1>9. ASSUME NEW p \in Panes, ReaderDecides(p)
      PROVE  UnusedPanes'
  BY <1>9 DEF ReaderDecides, ReaderGoto
<1>10. ASSUME NEW p \in Panes, ReaderWipesActive(p)
      PROVE  UnusedPanes'
  BY <1>10 DEF ReaderWipesActive, ReaderGoto
<1>11. ASSUME NEW p \in Panes, ReaderWipesMonitor(p)
      PROVE  UnusedPanes'
  BY <1>11 DEF ReaderWipesMonitor, ReaderGoto, TakeMonitor
<1>12. ASSUME NEW p \in Panes, ReaderWipesPools(p)
      PROVE  UnusedPanes'
  BY <1>12 DEF ReaderWipesPools, ReaderGoto, DropPools
<1>13. ASSUME NEW p \in Panes, MonitorCollects(p)
      PROVE  UnusedPanes'
  BY <1>13 DEF MonitorCollects, MonitorGoto
<1>14. ASSUME NEW p \in Panes, MonitorLooksUp(p)
      PROVE  UnusedPanes'
  BY <1>14 DEF MonitorLooksUp, MonitorGoto
<1>15. ASSUME NEW p \in Panes, MonitorRecords(p)
      PROVE  UnusedPanes'
  BY <1>15 DEF MonitorRecords, MonitorGoto
<1>16. ASSUME NEW p \in Panes, SavedForwardsNone(p)
      PROVE  UnusedPanes'
  BY <1>16 DEF SavedForwardsNone
<1>17. ASSUME NEW p \in Panes, SavedForwardsStart(p)
      PROVE  UnusedPanes'
  BY <1>17 DEF SavedForwardsStart
<1>18. CASE UNCHANGED <<terminals, paneSession, reader, monitor, forwardJob>>
  BY <1>18
<1>19. QED
  BY <1>1, <1>2, <1>3, <1>4, <1>5, <1>6, <1>7, <1>8, <1>9, <1>10, <1>11,
    <1>12, <1>13, <1>14, <1>15, <1>16, <1>17, <1>18 DEF Next, CommandStart,
    CommandStep, ReaderStep, MonitorStep, ForwardJobStep, SplitStart, Begin,
    DisconnectStart, DeleteStart, UseStart, OpenFails, Return, UseOpened,
    StopPools, Goto, DropPools, StopMonitor, TakeMonitor, StopHandle,
    PaneClosed, Deactivate, Activate, StopForward, threads, commands, pools,
    registry, monitors, vars

\* A live monitor stays the tracked one of its session or is told to stop.
LEMMA MonitorStepTracked ==
  ASSUME TypeOK, CommandsOK, PanesOK, UnusedPanes, MonitorTracked, [Next]_vars
  PROVE  MonitorTracked'
<1> USE SessionsAssumption DEF TypeOK, CommandsOK, PanesOK, UnusedPanes,
  MonitorTracked, MonitorAlive, threads, commands, pools, registry, monitors,
  vars
<1>1. ASSUME NEW c \in Commands, NEW s \in Sessions, NEW p \in Panes, ConnectStart(c, s, p)
      PROVE  MonitorTracked'
  BY <1>1 DEF ConnectStart, Begin
<1>2. ASSUME NEW c \in Commands, NEW p \in Panes, SplitOpened(c, p)
      PROVE  MonitorTracked'
  BY <1>2 DEF SplitOpened
<1>3. ASSUME NEW c \in Commands, StopMonitor(c)
      PROVE  MonitorTracked'
  BY <1>3 DEF StopMonitor, Goto, TakeMonitor
<1>4. ASSUME NEW c \in Commands, StartMonitor(c)
      PROVE  MonitorTracked'
  BY <1>4 DEF StartMonitor, Return
<1>5. ASSUME NEW p \in Panes, ReaderWipesMonitor(p)
      PROVE  MonitorTracked'
  BY <1>5 DEF ReaderWipesMonitor, ReaderGoto, TakeMonitor
<1>6. ASSUME NEW p \in Panes, MonitorCollects(p)
      PROVE  MonitorTracked'
  BY <1>6 DEF MonitorCollects, MonitorGoto
<1>7. ASSUME NEW p \in Panes, MonitorLooksUp(p)
      PROVE  MonitorTracked'
  BY <1>7 DEF MonitorLooksUp, MonitorGoto
<1>8. ASSUME NEW p \in Panes, MonitorRecords(p)
      PROVE  MonitorTracked'
  BY <1>8 DEF MonitorRecords, MonitorGoto
<1>9. CASE UNCHANGED <<paneSession, monitor, monitorStop, telemetry>>
  BY <1>9
<1>10. QED
  BY <1>1, <1>2, <1>3, <1>4, <1>5, <1>6, <1>7, <1>8, <1>9 DEF Next,
    CommandStart, CommandStep, ReaderStep, MonitorStep, ForwardJobStep,
    SplitStart, Begin, DisconnectStart, DeleteStart, PaneCloseStart,
    UseStart, OpenFails, Return, UseOpened, StopPools, Goto, DropPools,
    TakeTerminals, Registered, PanesOf, StopHandle, PaneClosed, Deactivate,
    Register, Activate, StartReader, ReaderEnds, ReaderGoto, ReaderDecides,
    ReaderWipesActive, ReaderWipesPools, SavedForwardsNone,
    SavedForwardsStart, StopForward, threads, commands, pools, registry,
    monitors, vars

\* A running shell stays within reach.
LEMMA ReaderStepReachable ==
  ASSUME TypeOK, CommandsOK, PanesOK, UnusedPanes, ReaderReachable, [Next]_vars
  PROVE  ReaderReachable'
<1> USE SessionsAssumption DEF TypeOK, CommandsOK, PanesOK, UnusedPanes,
  ReaderReachable, StartsReaderOf, threads, commands, pools, registry,
  monitors, vars
<1>1. ASSUME NEW c \in Commands, NEW s \in Sessions, NEW p \in Panes, ConnectStart(c, s, p)
      PROVE  ReaderReachable'
  BY <1>1 DEF ConnectStart, Begin
<1>2. ASSUME NEW c \in Commands, NEW s \in Sessions, SplitStart(c, s)
      PROVE  ReaderReachable'
  BY <1>2 DEF SplitStart, Begin
<1>3. ASSUME NEW c \in Commands, NEW s \in Sessions, DisconnectStart(c, s)
      PROVE  ReaderReachable'
  BY <1>3 DEF DisconnectStart, Begin
<1>4. ASSUME NEW c \in Commands, NEW s \in Sessions, DeleteStart(c, s)
      PROVE  ReaderReachable'
  BY <1>4 DEF DeleteStart, Begin
<1>5. ASSUME NEW c \in Commands, NEW p \in Panes, PaneCloseStart(c, p)
      PROVE  ReaderReachable'
  BY <1>5 DEF PaneCloseStart, Begin
<1>6. ASSUME NEW c \in Commands, NEW s \in Sessions, UseStart(c, s)
      PROVE  ReaderReachable'
  BY <1>6 DEF UseStart, Begin
<1>7. ASSUME NEW c \in Commands, OpenFails(c)
      PROVE  ReaderReachable'
  BY <1>7 DEF OpenFails, Return
<1>8. ASSUME NEW c \in Commands, NEW p \in Panes, SplitOpened(c, p)
      PROVE  ReaderReachable'
  BY <1>8 DEF SplitOpened
<1>9. ASSUME NEW c \in Commands, UseOpened(c)
      PROVE  ReaderReachable'
  BY <1>9 DEF UseOpened, Return
<1>10. ASSUME NEW c \in Commands, StopPools(c)
      PROVE  ReaderReachable'
  BY <1>10 DEF StopPools, Goto, DropPools
<1>11. ASSUME NEW c \in Commands, StopMonitor(c)
      PROVE  ReaderReachable'
  BY <1>11 DEF StopMonitor, Goto, TakeMonitor
<1>12. ASSUME NEW c \in Commands, TakeTerminals(c)
      PROVE  ReaderReachable'
  BY <1>12 DEF TakeTerminals, Registered, PanesOf
<1>13. ASSUME NEW c \in Commands, NEW p \in Panes, StopHandle(c, p)
      PROVE  ReaderReachable'
  BY <1>13 DEF StopHandle
<1>14. ASSUME NEW c \in Commands, PaneClosed(c)
      PROVE  ReaderReachable'
  BY <1>14 DEF PaneClosed, Return
<1>15. ASSUME NEW c \in Commands, Deactivate(c)
      PROVE  ReaderReachable'
  BY <1>15 DEF Deactivate, Return
<1>16. ASSUME NEW c \in Commands, Register(c)
      PROVE  ReaderReachable'
  BY <1>16 DEF Register, Goto
<1>17. ASSUME NEW c \in Commands, Activate(c)
      PROVE  ReaderReachable'
  BY <1>17 DEF Activate, Goto
<1>18. ASSUME NEW c \in Commands, StartReader(c)
      PROVE  ReaderReachable'
  BY <1>18 DEF StartReader, Goto, Return
<1>19. ASSUME NEW c \in Commands, StartMonitor(c)
      PROVE  ReaderReachable'
  BY <1>19 DEF StartMonitor, Return
<1>20. ASSUME NEW p \in Panes, ReaderEnds(p)
      PROVE  ReaderReachable'
  BY <1>20 DEF ReaderEnds, ReaderGoto
<1>21. ASSUME NEW p \in Panes, ReaderDecides(p)
      PROVE  ReaderReachable'
  BY <1>21 DEF ReaderDecides, ReaderGoto
<1>22. ASSUME NEW p \in Panes, ReaderWipesActive(p)
      PROVE  ReaderReachable'
  BY <1>22 DEF ReaderWipesActive, ReaderGoto
<1>23. ASSUME NEW p \in Panes, ReaderWipesMonitor(p)
      PROVE  ReaderReachable'
  BY <1>23 DEF ReaderWipesMonitor, ReaderGoto, TakeMonitor
<1>24. ASSUME NEW p \in Panes, ReaderWipesPools(p)
      PROVE  ReaderReachable'
  BY <1>24 DEF ReaderWipesPools, ReaderGoto, DropPools
<1>25. CASE UNCHANGED <<terminals, stop, reader, pc, pane, taken>>
  BY <1>25
<1>26. QED
  BY <1>1, <1>2, <1>3, <1>4, <1>5, <1>6, <1>7, <1>8, <1>9, <1>10, <1>11,
    <1>12, <1>13, <1>14, <1>15, <1>16, <1>17, <1>18, <1>19, <1>20, <1>21,
    <1>22, <1>23, <1>24, <1>25 DEF Next, CommandStart, CommandStep,
    ReaderStep, MonitorStep, ForwardJobStep, MonitorCollects, MonitorGoto,
    MonitorLooksUp, MonitorRecords, SavedForwardsNone, SavedForwardsStart,
    StopForward, threads, commands, pools, registry, monitors, vars

\* A registered pane keeps a pending decision.
LEMMA RegisteredStep ==
  ASSUME TypeOK, CommandsOK, PanesOK, UnusedPanes, RegisteredWatched, [Next]_vars
  PROVE  RegisteredWatched'
<1> USE SessionsAssumption DEF TypeOK, CommandsOK, PanesOK, UnusedPanes,
  RegisteredWatched, StartsReaderOf, threads, commands, pools, registry,
  monitors, vars
<1>1. ASSUME NEW c \in Commands, NEW s \in Sessions, NEW p \in Panes, ConnectStart(c, s, p)
      PROVE  RegisteredWatched'
  BY <1>1 DEF ConnectStart, Begin
<1>2. ASSUME NEW c \in Commands, NEW s \in Sessions, SplitStart(c, s)
      PROVE  RegisteredWatched'
  BY <1>2 DEF SplitStart, Begin
<1>3. ASSUME NEW c \in Commands, NEW s \in Sessions, DisconnectStart(c, s)
      PROVE  RegisteredWatched'
  BY <1>3 DEF DisconnectStart, Begin
<1>4. ASSUME NEW c \in Commands, NEW s \in Sessions, DeleteStart(c, s)
      PROVE  RegisteredWatched'
  BY <1>4 DEF DeleteStart, Begin
<1>5. ASSUME NEW c \in Commands, NEW p \in Panes, PaneCloseStart(c, p)
      PROVE  RegisteredWatched'
  BY <1>5 DEF PaneCloseStart, Begin
<1>6. ASSUME NEW c \in Commands, NEW s \in Sessions, UseStart(c, s)
      PROVE  RegisteredWatched'
  BY <1>6 DEF UseStart, Begin
<1>7. ASSUME NEW c \in Commands, OpenFails(c)
      PROVE  RegisteredWatched'
  BY <1>7 DEF OpenFails, Return
<1>8. ASSUME NEW c \in Commands, NEW p \in Panes, SplitOpened(c, p)
      PROVE  RegisteredWatched'
  BY <1>8 DEF SplitOpened
<1>9. ASSUME NEW c \in Commands, UseOpened(c)
      PROVE  RegisteredWatched'
  BY <1>9 DEF UseOpened, Return
<1>10. ASSUME NEW c \in Commands, StopPools(c)
      PROVE  RegisteredWatched'
  BY <1>10 DEF StopPools, Goto, DropPools
<1>11. ASSUME NEW c \in Commands, StopMonitor(c)
      PROVE  RegisteredWatched'
  BY <1>11 DEF StopMonitor, Goto, TakeMonitor
<1>12. ASSUME NEW c \in Commands, TakeTerminals(c)
      PROVE  RegisteredWatched'
  BY <1>12 DEF TakeTerminals, Registered, PanesOf
<1>13. ASSUME NEW c \in Commands, NEW p \in Panes, StopHandle(c, p)
      PROVE  RegisteredWatched'
  BY <1>13 DEF StopHandle
<1>14. ASSUME NEW c \in Commands, PaneClosed(c)
      PROVE  RegisteredWatched'
  BY <1>14 DEF PaneClosed, Return
<1>15. ASSUME NEW c \in Commands, Deactivate(c)
      PROVE  RegisteredWatched'
  BY <1>15 DEF Deactivate, Return
<1>16. ASSUME NEW c \in Commands, Register(c)
      PROVE  RegisteredWatched'
  BY <1>16 DEF Register, Goto
<1>17. ASSUME NEW c \in Commands, Activate(c)
      PROVE  RegisteredWatched'
  BY <1>17 DEF Activate, Goto
<1>18. ASSUME NEW c \in Commands, StartReader(c)
      PROVE  RegisteredWatched'
  BY <1>18 DEF StartReader, Goto, Return
<1>19. ASSUME NEW c \in Commands, StartMonitor(c)
      PROVE  RegisteredWatched'
  BY <1>19 DEF StartMonitor, Return
<1>20. ASSUME NEW p \in Panes, ReaderEnds(p)
      PROVE  RegisteredWatched'
  BY <1>20 DEF ReaderEnds, ReaderGoto
<1>21. ASSUME NEW p \in Panes, ReaderDecides(p)
      PROVE  RegisteredWatched'
  BY <1>21 DEF ReaderDecides, ReaderGoto
<1>22. ASSUME NEW p \in Panes, ReaderWipesActive(p)
      PROVE  RegisteredWatched'
  BY <1>22 DEF ReaderWipesActive, ReaderGoto
<1>23. ASSUME NEW p \in Panes, ReaderWipesMonitor(p)
      PROVE  RegisteredWatched'
  BY <1>23 DEF ReaderWipesMonitor, ReaderGoto, TakeMonitor
<1>24. ASSUME NEW p \in Panes, ReaderWipesPools(p)
      PROVE  RegisteredWatched'
  BY <1>24 DEF ReaderWipesPools, ReaderGoto, DropPools
<1>25. CASE UNCHANGED <<terminals, reader, pc, pane>>
  BY <1>25
<1>26. QED
  BY <1>1, <1>2, <1>3, <1>4, <1>5, <1>6, <1>7, <1>8, <1>9, <1>10, <1>11,
    <1>12, <1>13, <1>14, <1>15, <1>16, <1>17, <1>18, <1>19, <1>20, <1>21,
    <1>22, <1>23, <1>24, <1>25 DEF Next, CommandStart, CommandStep,
    ReaderStep, MonitorStep, ForwardJobStep, MonitorCollects, MonitorGoto,
    MonitorLooksUp, MonitorRecords, SavedForwardsNone, SavedForwardsStart,
    StopForward, threads, commands, pools, registry, monitors, vars

\* A connected session keeps a pane with a pending decision.
LEMMA ActiveStep ==
  ASSUME TypeOK, CommandsOK, PanesOK, UnusedPanes, RegisteredWatched, ActiveWatched, [Next]_vars
  PROVE  ActiveWatched'
<1> USE SessionsAssumption DEF TypeOK, CommandsOK, PanesOK, UnusedPanes,
  RegisteredWatched, ActiveWatched, WillDecide, StartsReaderOf, PanesOf,
  threads, commands, pools, registry, monitors, vars
<1>1. ASSUME NEW c \in Commands, NEW s \in Sessions, NEW p \in Panes, ConnectStart(c, s, p)
      PROVE  ActiveWatched'
  BY <1>1 DEF ConnectStart, Begin
<1>2. ASSUME NEW c \in Commands, NEW s \in Sessions, SplitStart(c, s)
      PROVE  ActiveWatched'
  BY <1>2 DEF SplitStart, Begin
<1>3. ASSUME NEW c \in Commands, NEW s \in Sessions, DisconnectStart(c, s)
      PROVE  ActiveWatched'
  BY <1>3 DEF DisconnectStart, Begin
<1>4. ASSUME NEW c \in Commands, NEW s \in Sessions, DeleteStart(c, s)
      PROVE  ActiveWatched'
  BY <1>4 DEF DeleteStart, Begin
<1>5. ASSUME NEW c \in Commands, NEW p \in Panes, PaneCloseStart(c, p)
      PROVE  ActiveWatched'
  BY <1>5 DEF PaneCloseStart, Begin
<1>6. ASSUME NEW c \in Commands, NEW s \in Sessions, UseStart(c, s)
      PROVE  ActiveWatched'
  BY <1>6 DEF UseStart, Begin
<1>7. ASSUME NEW c \in Commands, OpenFails(c)
      PROVE  ActiveWatched'
  BY <1>7 DEF OpenFails, Return
<1>8. ASSUME NEW c \in Commands, NEW p \in Panes, SplitOpened(c, p)
      PROVE  ActiveWatched'
  BY <1>8 DEF SplitOpened
<1>9. ASSUME NEW c \in Commands, UseOpened(c)
      PROVE  ActiveWatched'
  BY <1>9 DEF UseOpened, Return
<1>10. ASSUME NEW c \in Commands, StopPools(c)
      PROVE  ActiveWatched'
  BY <1>10 DEF StopPools, Goto, DropPools
<1>11. ASSUME NEW c \in Commands, StopMonitor(c)
      PROVE  ActiveWatched'
  BY <1>11 DEF StopMonitor, Goto, TakeMonitor
<1>12. ASSUME NEW c \in Commands, TakeTerminals(c)
      PROVE  ActiveWatched'
  BY <1>12 DEF TakeTerminals, Registered, PanesOf
<1>13. ASSUME NEW c \in Commands, NEW p \in Panes, StopHandle(c, p)
      PROVE  ActiveWatched'
  BY <1>13 DEF StopHandle
<1>14. ASSUME NEW c \in Commands, PaneClosed(c)
      PROVE  ActiveWatched'
  BY <1>14 DEF PaneClosed, Return
<1>15. ASSUME NEW c \in Commands, Deactivate(c)
      PROVE  ActiveWatched'
  BY <1>15 DEF Deactivate, Return
<1>16. ASSUME NEW c \in Commands, Register(c)
      PROVE  ActiveWatched'
  BY <1>16 DEF Register, Goto
<1>17. ASSUME NEW c \in Commands, Activate(c)
      PROVE  ActiveWatched'
  BY <1>17 DEF Activate, Goto
<1>18. ASSUME NEW c \in Commands, StartReader(c)
      PROVE  ActiveWatched'
  BY <1>18 DEF StartReader, Goto, Return
<1>19. ASSUME NEW c \in Commands, StartMonitor(c)
      PROVE  ActiveWatched'
  BY <1>19 DEF StartMonitor, Return
<1>20. ASSUME NEW p \in Panes, ReaderEnds(p)
      PROVE  ActiveWatched'
  BY <1>20 DEF ReaderEnds, ReaderGoto
<1>21. ASSUME NEW p \in Panes, ReaderDecides(p)
      PROVE  ActiveWatched'
  BY <1>21 DEF ReaderDecides, ReaderGoto
<1>22. ASSUME NEW p \in Panes, ReaderWipesActive(p)
      PROVE  ActiveWatched'
  BY <1>22 DEF ReaderWipesActive, ReaderGoto
<1>23. ASSUME NEW p \in Panes, ReaderWipesMonitor(p)
      PROVE  ActiveWatched'
  BY <1>23 DEF ReaderWipesMonitor, ReaderGoto, TakeMonitor
<1>24. ASSUME NEW p \in Panes, ReaderWipesPools(p)
      PROVE  ActiveWatched'
  BY <1>24 DEF ReaderWipesPools, ReaderGoto, DropPools
<1>25. CASE UNCHANGED <<active, paneSession, reader, pc, pane>>
  BY <1>25
<1>26. QED
  BY <1>1, <1>2, <1>3, <1>4, <1>5, <1>6, <1>7, <1>8, <1>9, <1>10, <1>11,
    <1>12, <1>13, <1>14, <1>15, <1>16, <1>17, <1>18, <1>19, <1>20, <1>21,
    <1>22, <1>23, <1>24, <1>25 DEF Next, CommandStart, CommandStep,
    ReaderStep, MonitorStep, ForwardJobStep, MonitorCollects, MonitorGoto,
    MonitorLooksUp, MonitorRecords, SavedForwardsNone, SavedForwardsStart,
    StopForward, threads, commands, pools, registry, monitors, vars

\* The strengthening is an inductive invariant of the specification.
LEMMA Inductive == Spec => []IInv
<1>1. Init => IInv
  <2> SUFFICES ASSUME Init PROVE IInv
    OBVIOUS
  <2> USE SessionsAssumption DEF Init
  <2>1. TypeOK
    BY DEF TypeOK, ReaderStates, MonitorStates, JobStates, Operations,
       Locations
  <2>2. CommandsOK /\ PanesOK /\ UnusedPanes
    BY DEF CommandsOK, PanesOK, UnusedPanes
  <2>3. MonitorTracked /\ ReaderReachable
    BY DEF MonitorTracked, MonitorAlive, ReaderReachable, StartsReaderOf
  <2>4. RegisteredWatched /\ ActiveWatched
    BY DEF RegisteredWatched, ActiveWatched
  <2>5. QED
    BY <2>1, <2>2, <2>3, <2>4 DEF IInv
<1>2. IInv /\ [Next]_vars => IInv'
  BY TypeStep, CommandsStep, PanesStep, UnusedStep, MonitorStepTracked,
     ReaderStepReachable, RegisteredStep, ActiveStep DEF IInv
<1>3. QED
  BY <1>1, <1>2, PTL DEF Spec

\* Type correctness.
THEOREM TypeCorrect == Spec => []TypeOK
<1>1. IInv => TypeOK
  BY DEF IInv
<1>2. QED
  BY <1>1, Inductive, PTL

\* However connects, disconnects and closing panes of a session overlap, every
\* telemetry thread that was not told to stop is the one that
\* AppState.telemetry_stops can stop.
THEOREM MonitorsAreTracked == Spec => []MonitorTracked
<1>1. IInv => MonitorTracked
  BY DEF IInv
<1>2. QED
  BY <1>1, Inductive, PTL

\* One session never has two telemetry threads that were not told to stop.
THEOREM OneMonitorPerSession ==
  Spec => [](\A p, q \in {m \in Panes : MonitorAlive(m)} \ monitorStop :
               paneSession[p] = paneSession[q] => p = q)
<1>1. IInv => \A p, q \in {m \in Panes : MonitorAlive(m)} \ monitorStop :
               paneSession[p] = paneSession[q] => p = q
  BY DEF IInv, MonitorTracked
<1>2. QED
  BY <1>1, Inductive, PTL

\* No shell runs that the application can neither list nor stop.
THEOREM ReadersAreReachable == Spec => []ReaderReachable
<1>1. IInv => ReaderReachable
  BY DEF IInv
<1>2. QED
  BY <1>1, Inductive, PTL

\* A connected session always has a pane whose reader will still decide
\* whether the session ends with it.
THEOREM ActiveIsWatched == Spec => []ActiveWatched
<1>1. IInv => ActiveWatched
  BY DEF IInv
<1>2. QED
  BY <1>1, Inductive, PTL

-----------------------------------------------------------------------------
(* Deleting a profile.                                                     *)

\* What a command that closes a pane holds is of its session.
TakenOK == \A c \in Commands : \A p \in taken[c] : paneSession[p] = target[c]

\* A delete that has yet to come past one of its places.
TearsDown(s, places) ==
  \E c \in Commands : target[c] = s /\ op[c] = "delete" /\ pc[c] \in places

\* What is not a profile any more, and was not crossed, is down or taken down, and
\* nobody opens it.
DeletedOK ==
  \A s \in Sessions \ (profiles \cup crossed) :
    /\ ~Underway(s, Opening)
    /\ \A p \in PanesOf(s) : forwardJob[p] = "opening" => s \in unsettled
    /\ \/ s \notin ops /\ (s \in forwards => s \in unsettled)
       \/ TearsDown(s, {"pools"})
    /\ telemetry[s] = None \/ TearsDown(s, {"pools", "monitor"})
    /\ Registered(s) = {} \/ TearsDown(s, {"pools", "monitor", "terminals"})
    /\ s \notin active \/ TearsDown(s, {"pools", "monitor", "terminals", "handles"})

\* A step that changes no command, and takes away only.
LEMMA ThreadsKeepDeleted ==
  ASSUME DeletedOK, terminals' \subseteq terminals, active' \subseteq active,
         ops' \subseteq ops,
         \A s \in Sessions : /\ telemetry'[s] \in {telemetry[s], None}
                             /\ s \in forwards' \ forwards =>
                                  \E p \in PanesOf(s) : forwardJob[p] = "opening",
         \A p \in Panes : forwardJob'[p] = "opening" => forwardJob[p] = "opening",
         UNCHANGED <<profiles, paneSession, commands, deleted>>
  PROVE  DeletedOK'
BY DEF DeletedOK, TearsDown, Underway, Registered, PanesOf, commands, deleted

\* A command that goes on and opens nothing.
LEMMA TakenStep ==
  ASSUME IInv, TakenOK, [Next]_vars
  PROVE  TakenOK'
<1> USE SessionsAssumption DEF IInv, TypeOK, CommandsOK, PanesOK, UnusedPanes, TakenOK,
  commands, registry
<1>1. ASSUME NEW c \in Commands, CommandStart(c) PROVE TakenOK'
  BY <1>1 DEF CommandStart, ConnectStart, SplitStart, DisconnectStart, DeleteStart, UseStart,
              PaneCloseStart, Begin
<1>2. ASSUME NEW c \in Commands, NEW p \in Panes, SplitOpened(c, p) \/ StopHandle(c, p)
      PROVE  TakenOK'
  BY <1>2 DEF SplitOpened, StopHandle
<1>3. ASSUME NEW c \in Commands, TakeTerminals(c) PROVE TakenOK'
  BY <1>3 DEF TakeTerminals, Registered, PanesOf
<1>4. ASSUME NEW c \in Commands, OpenFails(c) \/ UseOpened(c) \/ PaneClosed(c) \/ Deactivate(c)
      PROVE  TakenOK'
  BY <1>4 DEF OpenFails, UseOpened, PaneClosed, Deactivate, Return
<1>5. ASSUME NEW c \in Commands, \/ StopPools(c) \/ StopMonitor(c) \/ Register(c) \/ Activate(c)
      PROVE  TakenOK'
  BY <1>5 DEF StopPools, StopMonitor, Register, Activate, Goto
<1>6. ASSUME NEW c \in Commands, StartReader(c) \/ StartMonitor(c) PROVE TakenOK'
  BY <1>6 DEF StartReader, StartMonitor, Goto, Return
<1>7. ASSUME UNCHANGED <<paneSession, commands>> PROVE TakenOK'
  BY <1>7
<1>8. ASSUME NEW p \in Panes, ReaderEnds(p) \/ ReaderStep(p) \/ MonitorStep(p) \/ ForwardJobStep(p)
      PROVE  TakenOK'
  BY <1>7, <1>8
  DEF ReaderEnds, ReaderStep, ReaderDecides, ReaderWipesActive, ReaderWipesMonitor,
      ReaderWipesPools, MonitorStep, MonitorCollects, MonitorLooksUp, MonitorRecords,
      ForwardJobStep, SavedForwardsNone, SavedForwardsStart
<1>9. ASSUME NEW s \in Sessions, StopForward(s) PROVE TakenOK'
  BY <1>7, <1>9 DEF StopForward
<1>10. CASE UNCHANGED vars
  BY <1>7, <1>10 DEF vars
<1> QED
  BY <1>1, <1>2, <1>3, <1>4, <1>5, <1>6, <1>8, <1>9, <1>10 DEF Next, CommandStep

LEMMA DeletedStep ==
  ASSUME IInv, DeletedOK, [Next]_vars
  PROVE  DeletedOK'
<1> USE SessionsAssumption DEF IInv, TypeOK, CommandsOK, PanesOK, UnusedPanes,
  TearsDown, Registered, PanesOf, commands, pools, registry, monitors, threads, deleted,
  Underway, Opening
<1>1. ASSUME NEW c \in Commands, NEW s \in Sessions, NEW p \in Panes, ConnectStart(c, s, p)
      PROVE  DeletedOK'
  BY <1>1 DEF ConnectStart, Begin, Meets, DeletedOK
<1>2. ASSUME NEW c \in Commands, NEW s \in Sessions, SplitStart(c, s) PROVE DeletedOK'
  BY <1>2 DEF SplitStart, Begin, Meets, DeletedOK
<1>3. ASSUME NEW c \in Commands, NEW s \in Sessions, DisconnectStart(c, s) PROVE DeletedOK'
  BY <1>3 DEF DisconnectStart, Begin, Meets, DeletedOK
<1>4. ASSUME NEW c \in Commands, NEW s \in Sessions, DeleteStart(c, s) PROVE DeletedOK'
  BY <1>4 DEF DeleteStart, Begin, Meets, DeletedOK
<1>5. ASSUME NEW c \in Commands, NEW p \in Panes, PaneCloseStart(c, p) PROVE DeletedOK'
  BY <1>5 DEF PaneCloseStart, Begin, Meets, DeletedOK
<1>6. ASSUME NEW c \in Commands, NEW s \in Sessions, UseStart(c, s) PROVE DeletedOK'
  BY <1>6 DEF UseStart, Begin, Meets, DeletedOK
<1>7. ASSUME NEW c \in Commands, OpenFails(c) PROVE DeletedOK'
  BY <1>7 DEF OpenFails, Return, DeletedOK
<1>20. ASSUME NEW c \in Commands, UseOpened(c) PROVE DeletedOK'
  BY <1>20 DEF UseOpened, Return, DeletedOK
<1>8. ASSUME NEW c \in Commands, NEW p \in Panes, SplitOpened(c, p) PROVE DeletedOK'
  BY <1>8 DEF SplitOpened, DeletedOK
<1>9. ASSUME NEW c \in Commands, StopPools(c) PROVE DeletedOK'
  BY <1>9 DEF StopPools, DropPools, Goto, DeletedOK
<1>21. ASSUME NEW c \in Commands, StopMonitor(c) PROVE DeletedOK'
  BY <1>21 DEF StopMonitor, TakeMonitor, Goto, DeletedOK
<1>10. ASSUME NEW c \in Commands, TakeTerminals(c) PROVE DeletedOK'
  BY <1>10 DEF TakeTerminals, DeletedOK
<1>11. ASSUME NEW c \in Commands, NEW p \in Panes, StopHandle(c, p) PROVE DeletedOK'
  BY <1>11 DEF StopHandle, DeletedOK
<1>12. ASSUME NEW c \in Commands, PaneClosed(c) PROVE DeletedOK'
  BY <1>12 DEF PaneClosed, Return, DeletedOK
<1>13. ASSUME NEW c \in Commands, Deactivate(c) PROVE DeletedOK'
  BY <1>13 DEF Deactivate, Return, DeletedOK
<1>14. ASSUME NEW c \in Commands, Register(c) PROVE DeletedOK'
  BY <1>14 DEF Register, Goto, DeletedOK
<1>15. ASSUME NEW c \in Commands, Activate(c) PROVE DeletedOK'
  BY <1>15 DEF Activate, Goto, DeletedOK
<1>16. ASSUME NEW c \in Commands, StartReader(c) PROVE DeletedOK'
  BY <1>16 DEF StartReader, Goto, Return, DeletedOK
<1>22. ASSUME NEW c \in Commands, StartMonitor(c) PROVE DeletedOK'
  BY <1>22 DEF StartMonitor, Return, DeletedOK
<1>17. ASSUME NEW p \in Panes, ReaderEnds(p) \/ ReaderStep(p) \/ MonitorStep(p)
       PROVE  DeletedOK'
  BY <1>17, ThreadsKeepDeleted
  DEF ReaderEnds, ReaderStep, ReaderDecides, ReaderWipesActive, ReaderWipesMonitor,
      ReaderWipesPools, MonitorStep, MonitorCollects, MonitorLooksUp, MonitorRecords,
      TakeMonitor, DropPools
<1>23. ASSUME NEW p \in Panes, ForwardJobStep(p) PROVE DeletedOK'
  BY <1>23, ThreadsKeepDeleted DEF ForwardJobStep, SavedForwardsNone, SavedForwardsStart
<1>18. ASSUME NEW s \in Sessions, StopForward(s) PROVE DeletedOK'
  BY <1>18, ThreadsKeepDeleted DEF StopForward
<1>19. CASE UNCHANGED vars
  BY <1>19, ThreadsKeepDeleted DEF vars
<1> QED
  BY <1>1, <1>2, <1>3, <1>4, <1>5, <1>6, <1>7, <1>8, <1>9, <1>10, <1>11, <1>12, <1>13,
     <1>14, <1>15, <1>16, <1>17, <1>18, <1>19, <1>20, <1>21, <1>22, <1>23
  DEF Next, CommandStart, CommandStep

\* Once all is quiet a deleted profile has no shell, no entry in active_connections, no
\* operations connection and no monitor that was not told to stop, unless a command was
\* opening something of it while it was deleted, and no forwards, unless their thread
\* was out then (delete_session, teardown_session); for any commands at once.
THEOREM DeletedIsTornDown == Spec => []DeletedProfileTornDown
<1>1. Init => DeletedOK /\ TakenOK
  BY SessionsAssumption DEF Init, DeletedOK, TakenOK, Registered, Underway, Opening, PanesOf
<1>2. IInv /\ DeletedOK /\ TakenOK /\ [Next]_vars => DeletedOK' /\ TakenOK'
  BY DeletedStep, TakenStep
<1>3. IInv /\ DeletedOK /\ TakenOK => DeletedProfileTornDown
  <2> SUFFICES ASSUME IInv, DeletedOK, TakenOK, NEW s \in Sessions, Quiet(s),
                      s \notin profiles \cup crossed
               PROVE  /\ Registered(s) = {} /\ s \notin active \cup ops
                      /\ \A p \in PanesOf(s) : /\ reader[p] # "running"
                                               /\ MonitorAlive(p) => p \in monitorStop
                      /\ s \in forwards => s \in unsettled
    BY DEF DeletedProfileTornDown
  <2>1. \A places : ~TearsDown(s, places)
    BY DEF TearsDown, Quiet
  <2>2. /\ Registered(s) = {} /\ s \notin active \cup ops /\ telemetry[s] = None
        /\ s \in forwards => s \in unsettled
    BY <2>1 DEF DeletedOK
  <2>3. ASSUME NEW p \in PanesOf(s), MonitorAlive(p) PROVE p \in monitorStop
    BY <2>2, <2>3, SessionsAssumption DEF IInv, MonitorTracked, PanesOf
  <2>4. ASSUME NEW p \in PanesOf(s), reader[p] = "running" PROVE FALSE
    <3>1. p \notin stop
      BY <2>4 DEF Quiet
    <3>2. p \notin terminals
      BY <2>2, <2>4 DEF Registered, PanesOf
    <3>3. \A c \in Commands : p \notin taken[c]
      BY <2>4 DEF TakenOK, Quiet, PanesOf
    <3> QED
      BY <2>4, <3>1, <3>2, <3>3 DEF IInv, ReaderReachable, PanesOf
  <2> QED
    BY <2>2, <2>3, <2>4
<1>4. QED
  BY <1>1, <1>2, <1>3, Inductive, PTL DEF Spec
=============================================================================
