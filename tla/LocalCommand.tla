---------------------------- MODULE LocalCommand ----------------------------
(***************************************************************************)
(* One collector command run on the machine of the user                    *)
(* (run_local_command_with_timeout, ssh/system_monitor.rs): the telemetry  *)
(* thread polls the child until it has exited and only then reads what it  *)
(* wrote.  The child writes into a pipe that holds so much and no more.    *)
(***************************************************************************)
EXTENDS Naturals

CONSTANTS
  PipeSize,   \* what the pipe holds
  Outputs,    \* how much commands write
  Budget      \* the timeout, in polls

CommandAssumption ==
  PipeSize \in Nat \ {0} /\ Outputs \subseteq Nat /\ Budget \in Nat \ {0}

VARIABLES
  output,   \* what the command is going to write
  wedged,   \* whether it never comes to an end (a hung mount)
  child,    \* "running", "exited" or "killed"
  pipe,     \* what is in the pipe
  written,  \* what it has written
  waited,   \* polls since the start
  result    \* what the thread got

vars == <<output, wedged, child, pipe, written, waited, result>>

TypeOK ==
  /\ output \in Outputs /\ wedged \in BOOLEAN
  /\ child \in {"running", "exited", "killed"}
  /\ written \in 0 .. output /\ pipe \in 0 .. written /\ pipe <= PipeSize
  /\ waited \in 0 .. Budget
  /\ result \in {"none", "read", "failed", "timed out"}

Init ==
  /\ output \in Outputs /\ wedged \in BOOLEAN
  /\ child = "running" /\ pipe = 0 /\ written = 0 /\ waited = 0
  /\ result = "none"

-----------------------------------------------------------------------------
\* A write into a full pipe blocks.
Writes ==
  /\ child = "running" /\ written < output /\ pipe < PipeSize
  /\ written' = written + 1 /\ pipe' = pipe + 1
  /\ UNCHANGED <<output, wedged, child, waited, result>>

Exits ==
  /\ child = "running" /\ written = output /\ ~wedged
  /\ child' = "exited"
  /\ UNCHANGED <<output, wedged, pipe, written, waited, result>>

\* The command is quick: a poll finds it running only if it cannot go on.
Stuck ==
  child = "running" /\ IF written < output THEN pipe = PipeSize ELSE wedged

\* A loop without a deadline.
PollsRunning_Forever ==
  /\ result = "none" /\ Stuck
  /\ waited' = IF waited < Budget THEN waited + 1 ELSE waited
  /\ UNCHANGED <<output, wedged, child, pipe, written, result>>

\* try_wait finds the child running: it is killed at the deadline, or polled
\* again later.
PollsRunning ==
  /\ result = "none" /\ Stuck
  /\ IF waited = Budget
     THEN /\ child' = "killed" /\ result' = "timed out" /\ UNCHANGED waited
     ELSE waited' = waited + 1 /\ UNCHANGED <<child, result>>
  /\ UNCHANGED <<output, wedged, pipe, written>>

\* try_wait finds it exited: wait_with_output reads the pipe to its end.
PollsExited ==
  /\ result = "none" /\ child = "exited"
  /\ pipe' = 0
  /\ result' \in {"read", "failed"}
  /\ UNCHANGED <<output, wedged, child, written, waited>>

Next == Writes \/ Exits \/ PollsRunning \/ PollsExited

Spec == Init /\ [][Next]_vars

FairSpec == Spec /\ WF_vars(Next)

-----------------------------------------------------------------------------
(* Properties.                                                             *)

\* "Runs a local collector with an upper bound on how long it may take": the
\* telemetry thread comes back, whatever the command does, and leaves no child.
CollectorReturns == <>(result # "none" /\ child # "running")

\* The budget is for a "wedged collector (a hung mount, a stuck PowerShell)"
\* (system_monitor.rs:1613).  Nobody reads while the command runs, so one that
\* writes more than the pipe holds never exits.
OnlyWedgedTimesOut == result = "timed out" => wedged
=============================================================================
