--------------------------- MODULE AutoReconnect ---------------------------
(***************************************************************************)
(* Automatic reconnection of one session: the hook useAutoReconnect, the   *)
(* session store and the "terminal-closed" handler of the user interface,  *)
(* against the commands and the reader thread of ssh/terminal.rs.          *)
(*                                                                         *)
(* The user interface runs one callback at a time.  A command is sent,     *)
(* runs in the backend and is answered later, in the order in which the    *)
(* commands end; events of the backend travel on their own and may         *)
(* overtake an answer.  A session has one pane here; the races inside the  *)
(* backend are those of module SessionLifecycle.                           *)
(***************************************************************************)
EXTENDS Naturals, FiniteSets, Sequences

CONSTANTS
  Panes,        \* terminal ids that can be about at one time: a bound
  Calls,        \* commands that can be in flight at one time: a bound
  MaxAttempts,  \* MAX_ATTEMPTS
  None

ASSUME ReconnectAssumption == MaxAttempts \in Nat \ {0} /\ None \notin Panes

VARIABLES
  store,   \* useSessionStore: the pane shown, whether the session is lost,
           \* whether the profile is known
  hook,    \* the refs of useAutoReconnect; dirty: its effect is to run
  online,  \* navigator.onLine
  calls,   \* the commands in flight
  answers, \* those that ended, in that order, their answers under way
  pane,    \* the pane the backend has for the session
  events,  \* "terminal-closed" events under way
  wanted   \* what the user asked for last; not in the code

vars == <<store, hook, online, calls, answers, pane, events, wanted>>

Call == [kind : {"connect", "disconnect", "delete"}, by : {"auto", "user", "pane"},
         at : {"sent", "ok", "failed", "refused"}, pane : Panes \cup {None}]

ASSUME CallAssumption == None \notin Call

TypeOK ==
  /\ store \in [pane : Panes \cup {None}, lost : BOOLEAN, known : BOOLEAN]
  /\ hook \in [timer : BOOLEAN, inFlight : BOOLEAN, dirty : BOOLEAN,
               attempts : 0 .. MaxAttempts]
  /\ online \in BOOLEAN
  /\ calls \in [Calls -> Call \cup {None}]
  /\ answers \in Seq(Calls)
  /\ pane \in Panes \cup {None}
  /\ events \subseteq [pane : Panes, lost : BOOLEAN]
  /\ wanted \in {"open", "closed"}

Init ==
  /\ store = [pane |-> None, lost |-> FALSE, known |-> TRUE]
  /\ hook = [timer |-> FALSE, inFlight |-> FALSE, dirty |-> FALSE,
             attempts |-> 0]
  /\ online = TRUE
  /\ calls = [c \in Calls |-> None]
  /\ answers = <<>>
  /\ pane = None
  /\ events = {}
  /\ wanted = "closed"

-----------------------------------------------------------------------------
Flying(kind, by) ==
  {c \in Calls : calls[c] # None /\ calls[c].kind = kind /\ calls[c].by = by}

Sent(c, kind, by) ==
  calls' = [calls EXCEPT
              ![c] = [kind |-> kind, by |-> by, at |-> "sent", pane |-> None]]

Is(c, kind, by, at) ==
  /\ calls[c] # None /\ calls[c].kind = kind /\ calls[c].by = by
  /\ calls[c].at = at

Ended(c) == answers' = Append(answers, c)

\* The answer of a command arrives.
Answered(c, kind, by, at) ==
  /\ answers # <<>> /\ c = Head(answers) /\ answers' = Tail(answers)
  /\ Is(c, kind, by, at)

Done(c) == calls' = [calls EXCEPT ![c] = None]

\* A uuid nobody has seen.
Fresh(p) ==
  /\ p # pane /\ p # store.pane
  /\ \A e \in events : e.pane # p
  /\ \A c \in Calls : calls[c] # None => calls[c].pane # p

\* setState of lostSessionIds: the effect of the hook runs if it changed.
Lost(lost) ==
  /\ store' = [store EXCEPT !.lost = lost]
  /\ hook' = [hook EXCEPT !.dirty = @ \/ lost # store.lost]

-----------------------------------------------------------------------------
(* The backend.                                                            *)

\* The reader of a pane that is stopped looks at its stop flag only at the top
\* of its loop: it may also meet the closed channel first and report a lost
\* connection.
Stopped ==
  IF pane = None THEN {{}}
  ELSE {{[pane |-> pane, lost |-> lost]} : lost \in BOOLEAN}

\* connect_terminal replaces what the session had.
ConnectRuns(c, p) ==
  /\ \E by \in {"auto", "user", "pane"} : Is(c, "connect", by, "sent")
  /\ Ended(c)
  /\ Fresh(p)
  /\ \E closed \in Stopped : events' = events \cup closed
  /\ pane' = p
  /\ calls' = [calls EXCEPT ![c].at = "ok", ![c].pane = p]
  /\ UNCHANGED <<store, hook, online, wanted>>

\* It fails, in a way a retry cannot fix ("refused") or any other.
ConnectFails(c, how) ==
  /\ \E by \in {"auto", "user", "pane"} : Is(c, "connect", by, "sent")
  /\ Ended(c)
  /\ calls' = [calls EXCEPT ![c].at = how]
  /\ UNCHANGED <<store, hook, online, pane, events, wanted>>

\* disconnect_terminal and delete_session stop the session.
DisconnectRuns(c) ==
  /\ \E kind \in {"disconnect", "delete"}, by \in {"auto", "user"} :
       Is(c, kind, by, "sent")
  /\ Ended(c)
  /\ \E closed \in Stopped : events' = events \cup closed
  /\ pane' = None
  /\ calls' = [calls EXCEPT ![c].at = "ok"]
  /\ UNCHANGED <<store, hook, online, wanted>>

\* The shell exits, or the connection is lost.
PaneEnds(lost) ==
  /\ pane # None
  /\ events' = events \cup {[pane |-> pane, lost |-> lost]}
  /\ pane' = None
  /\ wanted' = IF lost THEN wanted ELSE "closed"
  /\ UNCHANGED <<store, hook, online, calls, answers>>

-----------------------------------------------------------------------------
(* The user and the handler of "terminal-closed".                          *)

UserConnect(c) ==
  /\ store.known /\ store.pane = None
  /\ Flying("connect", "user") = {} /\ Flying("delete", "user") = {}
  /\ calls[c] = None /\ Sent(c, "connect", "user")
  /\ wanted' = "open"
  /\ UNCHANGED <<store, hook, online, pane, events, answers>>

\* The Reconnect button of a pane whose terminal ended.
UserReconnect(c) ==
  /\ store.known /\ store.pane # None /\ store.pane # pane
  /\ \A e \in events : e.pane # store.pane
  /\ Flying("connect", "pane") = {}
  /\ calls[c] = None /\ Sent(c, "connect", "pane")
  /\ wanted' = "open"
  /\ UNCHANGED <<store, hook, online, pane, events, answers>>

UserConnected(c, by) ==
  /\ Answered(c, "connect", by, "ok")
  /\ store' = [store EXCEPT !.pane = calls[c].pane,
                            !.lost = IF by = "pane" THEN FALSE ELSE @]
  /\ hook' = [hook EXCEPT !.dirty = @ \/ store'.lost # store.lost]
  /\ Done(c)
  /\ UNCHANGED <<online, pane, events, wanted>>

UserConnectFailed(c) ==
  /\ \E by \in {"user", "pane"}, how \in {"failed", "refused"} :
       Answered(c, "connect", by, how)
  /\ Done(c)
  /\ UNCHANGED <<store, hook, online, pane, events, wanted>>

\* useDisconnectSession: forgets the loss, then disconnects if connected.
UserDisconnect(c) ==
  /\ store.pane # None \/ store.lost
  /\ Flying("connect", "user") = {} /\ Flying("disconnect", "user") = {}
  /\ Lost(FALSE)
  /\ wanted' = "closed"
  /\ IF store.pane = None THEN UNCHANGED calls
     ELSE calls[c] = None /\ Sent(c, "disconnect", "user")
  /\ UNCHANGED <<online, pane, events, answers>>

UserDisconnected(c) ==
  /\ Answered(c, "disconnect", "user", "ok")
  /\ store' = [store EXCEPT !.pane = None]
  /\ Done(c)
  /\ UNCHANGED <<hook, online, pane, events, wanted>>

UserDelete(c) ==
  /\ store.known
  /\ Flying("connect", "user") = {} /\ Flying("delete", "user") = {}
  /\ calls[c] = None /\ Sent(c, "delete", "user")
  /\ wanted' = "closed"
  /\ UNCHANGED <<store, hook, online, pane, events, answers>>

UserDeleted(c) ==
  /\ Answered(c, "delete", "user", "ok")
  /\ store' = [pane |-> None, lost |-> FALSE, known |-> FALSE]
  /\ hook' = [hook EXCEPT !.dirty = @ \/ store.lost]
  /\ Done(c)
  /\ UNCHANGED <<online, pane, events, wanted>>

\* An event of a pane that is not shown is stale and ignored.
TerminalClosed(e) ==
  /\ e \in events /\ events' = events \ {e}
  /\ IF e.pane = store.pane
     THEN /\ store' = [store EXCEPT !.pane = None, !.lost = @ \/ e.lost]
          /\ hook' = [hook EXCEPT !.dirty = @ \/ store'.lost # store.lost]
     ELSE UNCHANGED <<store, hook>>
  /\ UNCHANGED <<online, calls, pane, wanted, answers>>

NetworkChanges ==
  /\ online' = ~online
  /\ UNCHANGED <<store, hook, calls, pane, events, wanted, answers>>

-----------------------------------------------------------------------------
(* The hook.                                                               *)

\* The effect on lostSessionIds.
Effect ==
  /\ hook.dirty
  /\ hook' = [hook EXCEPT
       !.dirty = FALSE,
       !.timer = store.lost /\ (@ \/ ~hook.inFlight),
       !.attempts = IF hook.timer /\ ~store.lost THEN 0 ELSE @]
  /\ UNCHANGED <<store, online, calls, pane, events, wanted, answers>>

\* finish(): no more attempts, and the session is not lost any more.
Finish(h) ==
  /\ store' = [store EXCEPT !.lost = FALSE]
  /\ hook' = [h EXCEPT !.attempts = 0, !.dirty = @ \/ store.lost]

\* What makes the hook try: its timer, the network or the window coming back.
Woken == hook.timer \/ store.lost

\* A hook that does not look for an attempt in flight.
AttemptSends_Twice(c) ==
  /\ Woken /\ store.lost /\ store.pane = None /\ store.known /\ online
  /\ hook' = [hook EXCEPT !.timer = FALSE, !.inFlight = TRUE]
  /\ calls[c] = None /\ Sent(c, "connect", "auto")
  /\ UNCHANGED <<store, online, pane, events, wanted, answers>>

AttemptSends(c) ==
  /\ Woken /\ ~hook.inFlight
  /\ store.lost /\ store.pane = None /\ store.known /\ online
  /\ hook' = [hook EXCEPT !.timer = FALSE, !.inFlight = TRUE]
  /\ calls[c] = None /\ Sent(c, "connect", "auto")
  /\ UNCHANGED <<store, online, pane, events, wanted, answers>>

\* Nothing to try: an attempt is in flight, the session is not lost any more,
\* it is connected, its profile is gone or there is no network.
AttemptSkips ==
  /\ Woken
  /\ IF hook.inFlight \/ ~store.lost
     THEN hook' = [hook EXCEPT !.timer = FALSE] /\ UNCHANGED store
     ELSE IF store.pane # None \/ ~store.known
          THEN Finish([hook EXCEPT !.timer = FALSE])
          ELSE ~online /\ hook' = [hook EXCEPT !.timer = TRUE] /\ UNCHANGED store
  /\ UNCHANGED <<online, calls, pane, events, wanted, answers>>

AttemptSucceeds(c) ==
  /\ Answered(c, "connect", "auto", "ok") /\ store.lost
  /\ store' = [store EXCEPT !.lost = FALSE, !.pane = calls[c].pane]
  /\ hook' = [hook EXCEPT !.attempts = 0, !.dirty = TRUE, !.inFlight = FALSE]
  /\ Done(c)
  /\ UNCHANGED <<online, pane, events, wanted>>

\* A hook that keeps what it opened for nobody.
AttemptUnwanted_Kept(c) ==
  /\ Answered(c, "connect", "auto", "ok") /\ ~store.lost
  /\ hook' = [hook EXCEPT !.attempts = 0, !.inFlight = FALSE]
  /\ Done(c)
  /\ UNCHANGED <<store, online, pane, events, wanted>>

\* Disconnected or deleted while the attempt was in flight.
AttemptUnwanted(c) ==
  /\ Answered(c, "connect", "auto", "ok") /\ ~store.lost
  /\ hook' = [hook EXCEPT !.attempts = 0, !.inFlight = FALSE]
  /\ Sent(c, "disconnect", "auto")
  /\ UNCHANGED <<store, online, pane, events, wanted>>

\* A hook whose failed attempt was the last.
AttemptFails_NoRetry(c) ==
  \E how \in {"failed", "refused"} :
    /\ Answered(c, "connect", "auto", how) /\ Done(c)
    /\ IF how = "refused" \/ hook.attempts + 1 >= MaxAttempts
       THEN Finish([hook EXCEPT !.inFlight = FALSE])
       ELSE /\ hook' = [hook EXCEPT !.inFlight = FALSE, !.attempts = @ + 1]
            /\ UNCHANGED store
    /\ UNCHANGED <<online, pane, events, wanted>>

\* A hook that never gives up on its own.
AttemptFails_Forever(c) ==
  \E how \in {"failed", "refused"} :
    /\ Answered(c, "connect", "auto", how) /\ Done(c)
    /\ IF how = "refused"
       THEN Finish([hook EXCEPT !.inFlight = FALSE])
       ELSE /\ hook' = [hook EXCEPT !.inFlight = FALSE, !.timer = TRUE,
                                    !.attempts = @ + 1]
            /\ UNCHANGED store
    /\ UNCHANGED <<online, pane, events, wanted>>

\* The attempt failed: give up on what a retry cannot fix and after
\* MAX_ATTEMPTS, otherwise schedule a retry, wanted or not.
AttemptFails(c) ==
  \E how \in {"failed", "refused"} :
    /\ Answered(c, "connect", "auto", how) /\ Done(c)
    /\ IF how = "refused" \/ hook.attempts + 1 >= MaxAttempts
       THEN Finish([hook EXCEPT !.inFlight = FALSE])
       ELSE /\ hook' = [hook EXCEPT !.inFlight = FALSE, !.timer = TRUE,
                                    !.attempts = @ + 1]
            /\ UNCHANGED store
    /\ UNCHANGED <<online, pane, events, wanted>>

AutoDisconnected(c) ==
  /\ Answered(c, "disconnect", "auto", "ok") /\ Done(c)
  /\ UNCHANGED <<store, hook, online, pane, events, wanted>>

-----------------------------------------------------------------------------
Backend(c) ==
  \/ \E p \in Panes : ConnectRuns(c, p)
  \/ \E how \in {"failed", "refused"} : ConnectFails(c, how)
  \/ DisconnectRuns(c)

Answer(c) ==
  \/ \E by \in {"user", "pane"} : UserConnected(c, by)
  \/ UserConnectFailed(c) \/ UserDisconnected(c) \/ UserDeleted(c)
  \/ AttemptSucceeds(c) \/ AttemptUnwanted(c) \/ AttemptFails(c)
  \/ AutoDisconnected(c)

User(c) == UserConnect(c) \/ UserReconnect(c) \/ UserDisconnect(c) \/ UserDelete(c)

Attempt == AttemptSkips \/ \E c \in Calls : AttemptSends(c)

Next ==
  \/ \E c \in Calls : Backend(c) \/ Answer(c) \/ User(c)
  \/ \E lost \in BOOLEAN : PaneEnds(lost)
  \/ \E e \in events : TerminalClosed(e)
  \/ Effect \/ Attempt \/ NetworkChanges

Spec == Init /\ [][Next]_vars

\* Commands run and are answered, events arrive, effects run, timers fire; the
\* user, the network and the remote end do as they please.
Fairness ==
  /\ \A c \in Calls : WF_vars(Backend(c)) /\ WF_vars(Answer(c))
  /\ WF_vars(\E e \in events : TerminalClosed(e))
  /\ WF_vars(Effect)
  /\ SF_vars(hook.timer /\ Attempt)

FairSpec == Spec /\ Fairness

-----------------------------------------------------------------------------
(* Properties.                                                             *)

\* Timer, network and window may all wake the hook: there is never more than
\* one automatic connect for a session at a time (inFlightRef,
\* useAutoReconnect.ts:51).  Each would replace the terminal of the other.
OneAttempt ==
  /\ Cardinality(Flying("connect", "auto")) <= 1
  /\ hook.inFlight <=> Flying("connect", "auto") # {}

\* Nothing of the session is under way.
Quiet ==
  /\ calls = [c \in Calls |-> None] /\ events = {}
  /\ ~hook.timer /\ ~hook.dirty

\* However a deletion races the hook, a profile that is gone has no terminal
\* left that nobody can see or close (useAutoReconnect.ts:88-98).
DeletedStaysClosed == Quiet /\ ~store.known => pane = None \/ pane = store.pane

\* A lost session does not stay lost: it is reconnected or given up, unless the
\* machine is off line (BACKOFF_SECS, MAX_ATTEMPTS).
LossIsSettled == store.lost ~> (~store.lost \/ ~online)

\* "Sessions the user disconnected or whose shell exited are never marked lost,
\* so they stay closed" (useAutoReconnect.ts:34).  A close event that is on its
\* way while disconnect_terminal is answered still finds its pane shown.
StaysClosed == Quiet /\ wanted = "closed" => pane = None

\* The hook takes down what it opened only when the session was "disconnected or
\* deleted while the attempt was in flight" (useAutoReconnect.ts:93).  The
\* command names the session, and the user may have opened it again.
OnlyUnwantedDisconnected ==
  [][\A c \in Calls : DisconnectRuns(c) /\ calls[c].by = "auto" =>
       wanted = "closed"]_vars

\* "Reconnects sessions whose connection dropped" (useAutoReconnect.ts:32): a
\* connection that drops before the answer of its connect arrives is announced
\* by an event that is ignored, and then shown as connected.
DropIsNoticed ==
  (store.pane \notin {None, pane}) ~> (store.pane \in {None, pane})
=============================================================================
