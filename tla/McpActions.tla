----------------------------- MODULE McpActions -----------------------------
(***************************************************************************)
(* An action asked for by an MCP client (mcp/): the relay sends the call   *)
(* to the app, the thread of its connection checks the settings, reads     *)
(* which process the call is about, asks the user in the window and waits; *)
(* the answer comes back through a channel, or never.  The calls modelled  *)
(* are kill_process, which has the most to get wrong, each from its own    *)
(* relay, all about one pid.                                               *)
(***************************************************************************)
EXTENDS Naturals, Sequences, TLAPS

CONSTANTS
  Calls,
  MaxStarts,   \* processes that have the pid, one after the other: a bound
  None

McpActionsAssumption == MaxStarts \in Nat /\ None \notin Calls

VARIABLES
  server,    \* on: it listens
  actions,   \* McpSettings.allow_actions
  linked,    \* the calls whose connection is open
  pc,        \* where each call is
  process,   \* the start of the process that has the pid, 0 if none has
  starts,    \* how many there were
  marker,    \* start_marker, as read
  pending,   \* PendingApprovals
  channel,   \* what its sender holds
  taken,     \* senders deliver has taken out, with the answer
  events,    \* on their way to the window
  queue, shown,  \* of McpApprovalDialog: shown is what was last rendered
  pressed,   \* what the user answered
  outcome,   \* what came of the call
  reply,     \* what the client was told of it
  looked,    \* how many had had the pid when the script compared; not in the code
  killed     \* the starts that were signalled, and by which call

asking == <<pending, channel, taken, events, queue, shown, pressed>>
signals == <<looked, killed>>
vars == <<server, actions, linked, pc, process, starts, marker, asking, outcome, reply,
          signals>>

Answers == {"allow", "deny"}
Places == {"client", "dispatch", "inspect", "ask", "wait", "settle", "granted",
           "kill", "refused", "answer", "done"}
Outcomes == {"none", "off", "gone", "denied", "sent", "changed", "failed"}

TypeOK ==
  /\ {server, actions} \subseteq BOOLEAN
  /\ linked \subseteq Calls /\ pending \subseteq Calls
  /\ pc \in [Calls -> Places]
  /\ {process, starts} \subseteq 0 .. MaxStarts
  /\ marker \in [Calls -> 0 .. MaxStarts]
  /\ channel \in [Calls -> Answers \cup {"empty"}]
  /\ taken \subseteq Calls \X Answers
  /\ events \in Seq({"ask", "closed"} \X Calls)
  /\ queue \in Seq(Calls) /\ shown \in Calls \cup {None}
  /\ pressed \in [Calls -> Answers \cup {"none"}]
  /\ outcome \in [Calls -> Outcomes] /\ reply \in [Calls -> Outcomes \cup {"offline"}]
  /\ looked \in [Calls -> 0 .. MaxStarts]
  /\ killed \subseteq Calls \X (1 .. MaxStarts)

Init ==
  /\ server \in BOOLEAN /\ actions \in BOOLEAN /\ linked = {}
  /\ pc = [c \in Calls |-> "client"]
  /\ process \in 0 .. 1 /\ starts = process
  /\ marker = [c \in Calls |-> 0]
  /\ pending = {} /\ channel = [c \in Calls |-> "empty"] /\ taken = {}
  /\ events = <<>> /\ queue = <<>> /\ shown = None
  /\ pressed = [c \in Calls |-> "none"] /\ killed = {}
  /\ looked = [c \in Calls |-> 0]
  /\ outcome = [c \in Calls |-> "none"] /\ reply = outcome

-----------------------------------------------------------------------------
(* The relay and the server.                                               *)

Goes(c, place) == pc' = [pc EXCEPT ![c] = place]
Ends(c, how) == Goes(c, "answer") /\ outcome' = [outcome EXCEPT ![c] = how]

Settings == <<server, actions>>
Process == <<process, starts>>
told == <<outcome, reply>>

\* relay::run: connected, the call is sent; else the relay answers itself.
Sends(c) ==
  /\ pc[c] = "client"
  /\ IF server THEN Goes(c, "dispatch") /\ linked' = linked \cup {c} /\ UNCHANGED reply
     ELSE Goes(c, "done") /\ reply' = [reply EXCEPT ![c] = "offline"] /\ UNCHANGED linked
  /\ UNCHANGED <<Settings, Process, marker, asking, outcome, signals>>

\* The reply is read, and the relay passes it on.
Replies(c) ==
  /\ pc[c] = "answer" /\ Goes(c, "done") /\ linked' = linked \ {c}
  /\ reply' = IF c \in linked THEN [reply EXCEPT ![c] = outcome[c]] ELSE reply
  /\ UNCHANGED <<Settings, Process, marker, asking, outcome, signals>>

\* A server that stops without shutting its connections down.
StopsServer_Only ==
  /\ server /\ server' = FALSE /\ linked' = {}
  /\ UNCHANGED <<actions, pc, Process, marker, asking, told, signals>>

\* The server is stopped and its connections shut down: the thread of a call
\* goes on, and its reply has no one to go to.
StopsServer ==
  /\ server /\ server' = FALSE /\ linked' = {}
  /\ reply' = [c \in Calls |-> IF c \in linked THEN "offline" ELSE reply[c]]
  /\ UNCHANGED <<actions, pc, Process, marker, asking, outcome, signals>>

ChangesSettings ==
  /\ \/ server' = TRUE /\ ~server /\ UNCHANGED actions
     \/ actions' = ~actions /\ UNCHANGED server
  /\ UNCHANGED <<linked, pc, Process, marker, asking, told, signals>>

\* dispatch: the settings are looked at here only.
Dispatches(c) ==
  /\ pc[c] = "dispatch"
  /\ IF actions THEN Goes(c, "inspect") /\ UNCHANGED outcome ELSE Ends(c, "off")
  /\ UNCHANGED <<Settings, linked, Process, marker, asking, reply, signals>>

\* inspect_process
Inspects(c) ==
  /\ pc[c] = "inspect"
  /\ marker' = [marker EXCEPT ![c] = process]
  /\ IF process = 0 THEN Ends(c, "gone") ELSE Goes(c, "ask") /\ UNCHANGED outcome
  /\ UNCHANGED <<Settings, linked, Process, asking, reply, signals>>

-----------------------------------------------------------------------------
(* request_approval and the dialog.                                        *)

Asks(c) ==
  /\ pc[c] = "ask" /\ Goes(c, "wait")
  /\ pending' = pending \cup {c} /\ events' = Append(events, <<"ask", c>>)
  /\ UNCHANGED <<Settings, linked, Process, marker, channel, taken, queue, shown,
                 pressed, told, signals>>

\* recv_timeout returns an answer, or none has come in time.
Hears(c) ==
  /\ pc[c] = "wait" /\ channel[c] # "empty" /\ Goes(c, "settle")
  /\ UNCHANGED <<Settings, linked, Process, marker, asking, told, signals>>

\* A question that counts as allowed when nobody answers it.
TimesOut_Allows(c) ==
  /\ pc[c] = "wait" /\ channel[c] = "empty" /\ Goes(c, "granted")
  /\ pending' = pending \ {c}
  /\ events' = IF c \in pending THEN Append(events, <<"closed", c>>) ELSE events
  /\ UNCHANGED <<Settings, linked, Process, marker, channel, taken, queue, shown,
                 pressed, told, signals>>

TimesOut(c) ==
  /\ pc[c] = "wait" /\ channel[c] = "empty" /\ Goes(c, "refused")
  /\ pending' = pending \ {c}
  /\ events' = IF c \in pending THEN Append(events, <<"closed", c>>) ELSE events
  /\ UNCHANGED <<Settings, linked, Process, marker, channel, taken, queue, shown,
                 pressed, told, signals>>

Settles(c) ==
  /\ pc[c] = "settle" /\ Goes(c, IF channel[c] = "allow" THEN "granted" ELSE "refused")
  /\ UNCHANGED <<Settings, linked, Process, marker, asking, told, signals>>

\* The window takes an event; what it shows changes when it renders.
Receives ==
  /\ events # <<>> /\ events' = Tail(events)
  /\ LET c == Head(events)[2]
     IN queue' = IF Head(events)[1] = "ask" THEN Append(queue, c)
                 ELSE SelectSeq(queue, LAMBDA d : d # c)
  /\ UNCHANGED <<Settings, linked, pc, Process, marker, pending, channel, taken, shown,
                 pressed, told, signals>>

First(q) == IF q = <<>> THEN None ELSE Head(q)

Renders ==
  /\ shown # First(queue) /\ shown' = First(queue)
  /\ UNCHANGED <<Settings, linked, pc, Process, marker, pending, channel, taken, events,
                 queue, pressed, told, signals>>

\* A click answers what is shown and takes the first off the queue; deliver
\* takes the sender, if it is still there.
Presses(answer) ==
  /\ shown \in Calls /\ pressed[shown] = "none"
  /\ pressed' = [pressed EXCEPT ![shown] = answer]
  /\ queue' = IF queue = <<>> THEN queue ELSE Tail(queue)
  /\ shown' = First(queue')
  /\ pending' = pending \ {shown}
  /\ taken' = IF shown \in pending THEN taken \cup {<<shown, answer>>} ELSE taken
  /\ UNCHANGED <<Settings, linked, pc, Process, marker, channel, events, told, signals>>

\* It sends when it no longer has the lock.
Delivers(c, answer) ==
  /\ <<c, answer>> \in taken /\ taken' = taken \ {<<c, answer>>}
  /\ channel' = [channel EXCEPT ![c] = answer]
  /\ UNCHANGED <<Settings, linked, pc, Process, marker, pending, events, queue, shown,
                 pressed, told, signals>>

-----------------------------------------------------------------------------
(* The action.                                                             *)

Refuses(c) ==
  /\ pc[c] = "refused" /\ Ends(c, "denied")
  /\ UNCHANGED <<Settings, linked, Process, marker, asking, reply, signals>>

\* A script that only looks whether anything has the pid.
Compares_Any(c) ==
  /\ pc[c] = "granted"
  /\ IF process = 0 THEN Ends(c, "gone") ELSE Goes(c, "kill") /\ UNCHANGED outcome
  /\ looked' = [looked EXCEPT ![c] = starts]
  /\ UNCHANGED <<Settings, linked, Process, marker, asking, reply, killed>>

\* signal_process runs one script on the host: it reads the marker of whatever has
\* the pid and compares it,
Compares(c) ==
  /\ pc[c] = "granted"
  /\ IF process = marker[c] THEN Goes(c, "kill") /\ UNCHANGED outcome
     ELSE Ends(c, IF process = 0 THEN "gone" ELSE "changed")
  /\ looked' = [looked EXCEPT ![c] = starts]
  /\ UNCHANGED <<Settings, linked, Process, marker, asking, reply, killed>>

\* and then signals what has the pid by now, which may end of it.
Signals(c) ==
  /\ pc[c] = "kill"
  /\ IF process = 0 THEN Ends(c, "failed") /\ UNCHANGED <<process, killed>>
     ELSE /\ Ends(c, "sent") /\ killed' = killed \cup {<<c, process>>}
          /\ process' \in {0, process}
  /\ UNCHANGED <<Settings, linked, starts, marker, asking, reply, looked>>

\* The process ends, or another gets its pid.
ProcessChanges ==
  /\ \/ process # 0 /\ process' = 0 /\ UNCHANGED starts
     \/ process = 0 /\ starts < MaxStarts /\ starts' = starts + 1 /\ process' = starts'
  /\ UNCHANGED <<Settings, linked, pc, marker, asking, told, signals>>

Call(c) ==
  \/ Sends(c) \/ Dispatches(c) \/ Inspects(c) \/ Asks(c) \/ Hears(c) \/ TimesOut(c)
  \/ Settles(c) \/ Refuses(c) \/ Compares(c) \/ Signals(c) \/ Replies(c)

Deliver == \E c \in Calls, answer \in Answers : Delivers(c, answer)

Next ==
  \/ \E c \in Calls : Call(c)
  \/ Deliver \/ Receives \/ Renders \/ \E answer \in Answers : Presses(answer)
  \/ StopsServer \/ ChangesSettings \/ ProcessChanges

Spec == Init /\ [][Next]_vars

\* The thread of a call goes on, and waits no longer than ANSWER_TIMEOUT; the
\* window takes its events.  Nothing makes the user answer.
Fairness ==
  /\ \A c \in Calls : WF_vars(Call(c))
  /\ WF_vars(Receives)

FairSpec == Spec /\ Fairness

-----------------------------------------------------------------------------
(* Properties.                                                             *)

\* Each call keeps what a question promises, however the answer, the time limit
\* and the event that closes the dialog meet.
Settled(c) ==
  CASE pc[c] \in {"granted", "kill"} -> "granted"
    [] pc[c] = "refused" \/ outcome[c] = "denied" -> "refused"
    [] marker[c] # 0 /\ outcome[c] \in {"gone", "changed", "sent", "failed"} -> "used"
    [] OTHER -> "open"

Promise == INSTANCE Questions WITH
  Asked <- Calls, press <- pressed, state <- [c \in Calls |-> Settled(c)]

AsksFirst == Promise!Spec

\* The script "re-reads the marker and refuses if it changed" (process_control.rs:6):
\* what is signalled is the process whose user and command line were in the dialog,
\* or one that got the pid in the instant between the comparison and the signal; none
\* that had taken the pid while the user decided.
SignalsWhatWasShown ==
  \A kill \in killed : kill[2] = marker[kill[1]] \/ kill[2] > looked[kill[1]]

\* A client waits no longer than the user may take: each call gets its reply,
\* also when the server is stopped or nobody answers.
EveryCallIsAnswered == \A c \in Calls : pc[c] = "dispatch" ~> reply[c] # "none"

\* A request that is settled does not stay in the dialog.
SettledLeavesDialog ==
  \A c \in Calls : pc[c] = "done" ~> \A i \in DOMAIN queue : queue[i] # c

-----------------------------------------------------------------------------
(* Three that do not hold.                                                 *)

\* The script "refuses if it changed" (process_control.rs:6), after the comparison too.
ShownOnly == \A kill \in killed : kill[2] = marker[kill[1]]

\* A client that is told to turn GpuTerm on and try again did not have its
\* call run.
OfflineMeansNotRun ==
  \A c \in Calls : reply[c] = "offline" => outcome[c] \in {"none", "off", "gone", "denied"}

\* A request that waits and has reached the window can be answered there.
StillAsked ==
  \A c \in pending :
    \/ \E i \in DOMAIN queue : queue[i] = c
    \/ \E i \in DOMAIN events : events[i][2] = c
-----------------------------------------------------------------------------
(* The refinement, for any number of calls.                                *)

\* What it rests on: an answer on its way, or in a channel, is the one the user
\* gave; a call that goes on after an answer has one; its outcome comes last,
\* and nobody is asked about a process that is gone.
Typed ==
  /\ pc \in [Calls -> Places] /\ outcome \in [Calls -> Outcomes]
  /\ channel \in [Calls -> Answers \cup {"empty"}]
  /\ pressed \in [Calls -> Answers \cup {"none"}]
  /\ marker \in [Calls -> Nat] /\ process \in Nat /\ starts \in Nat

Answered(c) ==
  /\ channel[c] # "empty" => pressed[c] = channel[c]
  /\ \A answer \in Answers : <<c, answer>> \in taken => pressed[c] = answer
  /\ pc[c] = "settle" => channel[c] # "empty"

InOrder(c) ==
  /\ pc[c] \notin {"answer", "done"} => outcome[c] = "none"
  /\ pc[c] \in {"ask", "wait", "settle", "granted", "kill", "refused"} => marker[c] # 0
  /\ pc[c] \in {"client", "dispatch", "inspect"} => marker[c] = 0

IInv == Typed /\ \A c \in Calls : Answered(c) /\ InOrder(c)

LEMMA InitHolds == Init => IInv
  BY DEF Init, IInv, Typed, Answered, InOrder, Places, Outcomes, Answers

LEMMA CallKeeps == ASSUME IInv, NEW c \in Calls, Call(c) PROVE IInv'
<1> USE DEF IInv, Typed, Answered, InOrder, Places, Outcomes, Answers, Goes, Ends,
            Settings, Process, told, signals, asking
<1>1. CASE Sends(c)      BY <1>1 DEF Sends
<1>2. CASE Dispatches(c) BY <1>2 DEF Dispatches
<1>3. CASE Inspects(c)   BY <1>3 DEF Inspects
<1>4. CASE Asks(c)       BY <1>4 DEF Asks
<1>5. CASE Hears(c)      BY <1>5 DEF Hears
<1>6. CASE TimesOut(c)   BY <1>6 DEF TimesOut
<1>7. CASE Settles(c)    BY <1>7 DEF Settles
<1>8. CASE Refuses(c)    BY <1>8 DEF Refuses
<1>9. CASE Compares(c)   BY <1>9 DEF Compares
<1>10. CASE Signals(c)   BY <1>10 DEF Signals
<1>11. CASE Replies(c)   BY <1>11 DEF Replies
<1> QED BY <1>1, <1>2, <1>3, <1>4, <1>5, <1>6, <1>7, <1>8, <1>9, <1>10, <1>11 DEF Call

LEMMA StepKeeps == IInv /\ [Next]_vars => IInv'
<1> SUFFICES ASSUME IInv, [Next]_vars PROVE IInv'
  OBVIOUS
<1> USE DEF IInv, Typed, Answered, InOrder, Places, Outcomes, Answers, Settings,
            Process, told, signals, asking
<1>1. CASE \E c \in Calls : Call(c)
  BY <1>1, CallKeeps
<1>2. CASE Deliver       BY <1>2 DEF Deliver, Delivers
<1>3. CASE Receives      BY <1>3 DEF Receives
<1>4. CASE Renders       BY <1>4 DEF Renders
<1>5. CASE \E answer \in Answers : Presses(answer)
  BY <1>5 DEF Presses
<1>6. CASE StopsServer   BY <1>6 DEF StopsServer
<1>7. CASE ChangesSettings BY <1>7 DEF ChangesSettings
<1>8. CASE ProcessChanges  BY <1>8 DEF ProcessChanges
<1>9. CASE UNCHANGED vars  BY <1>9 DEF vars
<1> QED BY <1>1, <1>2, <1>3, <1>4, <1>5, <1>6, <1>7, <1>8, <1>9 DEF Next

\* Answers on their way are the user's, and calls go through their places in
\* order (request_approval, deliver).
THEOREM Invariance == Spec => []IInv
  BY InitHolds, StepKeeps, PTL DEF Spec

\* Where a call is decides how its question stands, and nothing else.
LEMMA SettledStands ==
  ASSUME NEW c \in Calls, pc'[c] = pc[c], outcome'[c] = outcome[c], marker'[c] = marker[c]
  PROVE  Settled(c)' = Settled(c)
  BY DEF Settled

\* A step of a call is a step of its question, or none.
LEMMA CallRefines ==
  ASSUME IInv, NEW c \in Calls, Call(c)
  PROVE  Promise!Next \/ UNCHANGED Promise!vars
<1> USE DEF IInv, Typed, Answered, InOrder, Places, Outcomes, Answers, Goes, Ends,
            Settings, Process, told, signals, asking
<1> DEFINE Stays == Settled(c)' = Settled(c)
           Moves(from, to) == Settled(c) = from /\ Settled(c)' = to
<1>1. UNCHANGED pressed /\ \A d \in Calls \ {c} : Settled(d)' = Settled(d)
  <2>1. UNCHANGED pressed
    BY DEF Call, Sends, Dispatches, Inspects, Asks, Hears, TimesOut, Settles, Refuses,
           Compares, Signals, Replies
  <2>2. ASSUME NEW d \in Calls \ {c}
        PROVE pc'[d] = pc[d] /\ outcome'[d] = outcome[d] /\ marker'[d] = marker[d]
    BY DEF Call, Sends, Dispatches, Inspects, Asks, Hears, TimesOut, Settles, Refuses,
           Compares, Signals, Replies
  <2> QED BY <2>1, <2>2, SettledStands
<1>2. \/ Stays
      \/ Moves("open", "refused")
      \/ Moves("open", "granted") /\ pressed[c] = "allow"
      \/ Moves("granted", "used")
  <2> USE DEF Settled
  <2>1. CASE Sends(c)      BY <2>1 DEF Sends
  <2>2. CASE Dispatches(c) BY <2>2 DEF Dispatches
  <2>3. CASE Inspects(c)   BY <2>3 DEF Inspects
  <2>4. CASE Asks(c)       BY <2>4 DEF Asks
  <2>5. CASE Hears(c)      BY <2>5 DEF Hears
  <2>6. CASE TimesOut(c)   BY <2>6 DEF TimesOut
  <2>7. CASE Settles(c)    BY <2>7 DEF Settles
  <2>8. CASE Refuses(c)    BY <2>8 DEF Refuses
  <2>9. CASE Compares(c)   BY <2>9 DEF Compares
  <2>10. CASE Signals(c)   BY <2>10 DEF Signals
  <2>11. CASE Replies(c)   BY <2>11 DEF Replies
  <2> QED BY <2>1, <2>2, <2>3, <2>4, <2>5, <2>6, <2>7, <2>8, <2>9, <2>10, <2>11 DEF Call
<1> DEFINE state == [d \in Calls |-> Settled(d)]
<1>3. CASE Stays
  <2>1. state' = state BY <1>1, <1>3
  <2> QED BY <1>1, <2>1 DEF Promise!vars
<1>4. ASSUME NEW from, NEW to, Moves(from, to)
      PROVE state[c] = from /\ state' = [state EXCEPT ![c] = to]
  <2>1. state[c] = from /\ Settled(c)' = to
    BY <1>4
  <2> DEFINE next == [d \in Calls |-> IF d = c THEN to ELSE state[d]]
  <2>2. [state EXCEPT ![c] = to] = next
    OBVIOUS
  <2>3. \A d \in Calls : Settled(d)' = IF d = c THEN to ELSE state[d]
    BY <1>1, <2>1
  <2>4. state' = next
    BY <2>3
  <2> QED BY <2>1, <2>2, <2>4
<1>5. CASE Moves("open", "refused")
  BY <1>1, <1>4, <1>5 DEF Promise!Next, Promise!Refuse, Promise!Becomes
<1>6. CASE Moves("open", "granted") /\ pressed[c] = "allow"
  BY <1>1, <1>4, <1>6 DEF Promise!Next, Promise!Grant, Promise!Becomes
<1>7. CASE Moves("granted", "used")
  BY <1>1, <1>4, <1>7 DEF Promise!Next, Promise!Use, Promise!Becomes
<1> QED BY <1>2, <1>3, <1>5, <1>6, <1>7

\* The user presses a button, and nothing else of a question changes without
\* the thread of its call.
LEMMA OthersRefine ==
  ASSUME IInv, [Next]_vars, \A c \in Calls : ~Call(c)
  PROVE  Promise!Next \/ UNCHANGED Promise!vars
<1> USE DEF Settings, Process, told, signals, asking
<1>1. UNCHANGED <<pc, outcome, marker>>
  BY DEF Next, Deliver, Delivers, Receives, Renders, Presses, StopsServer,
         ChangesSettings, ProcessChanges, vars
<1> DEFINE state == [d \in Calls |-> Settled(d)]
<1>2. state' = state
  BY <1>1, SettledStands
<1>3. CASE \E answer \in Answers : Presses(answer)
  BY <1>2, <1>3 DEF Presses, Answers, Promise!Next, Promise!Press
<1>4. CASE ~\E answer \in Answers : Presses(answer)
  <2>1. UNCHANGED pressed
    BY <1>4 DEF Next, Deliver, Delivers, Receives, Renders, StopsServer,
                ChangesSettings, ProcessChanges, vars
  <2> QED BY <1>2, <2>1 DEF Promise!vars
<1> QED BY <1>3, <1>4

\* Calls keep what Questions promises (request_approval, deliver): nothing is
\* signalled but after the user allowed it, at most once, and never after the
\* question was given up on, with any number of calls at once.
THEOREM PromiseKept == Spec => AsksFirst
<1>1. Init => Promise!Init
  BY DEF Init, Promise!Init, Settled
<1>2. IInv /\ [Next]_vars => [Promise!Next]_(Promise!vars)
  BY CallRefines, OthersRefine
<1> QED BY <1>1, <1>2, Invariance, PTL DEF Spec, AsksFirst, Promise!Spec

-----------------------------------------------------------------------------
(* What is signalled.                                                      *)

\* What has the pid when a call is about to signal is gone, the process it was asked
\* about, or one that came after its script looked; a call that signalled has ended.
Seen ==
  /\ looked \in [Calls -> Nat] /\ process <= starts
  /\ \A c \in Calls :
       /\ looked[c] <= starts
       /\ pc[c] = "kill" => process = 0 \/ process = marker[c] \/ process > looked[c]
  /\ \A kill \in killed : kill[1] \in Calls /\ outcome[kill[1]] = "sent"
  /\ SignalsWhatWasShown

LEMMA InitSeen == Init => Seen
  BY DEF Init, Seen, SignalsWhatWasShown

LEMMA CallSees == ASSUME IInv, Seen, NEW c \in Calls, Call(c) PROVE Seen'
<1> USE DEF IInv, Typed, Answered, InOrder, Places, Outcomes, Seen, SignalsWhatWasShown,
            Goes, Ends, Settings, Process, told, signals, asking
<1>1. CASE Sends(c)      BY <1>1 DEF Sends
<1>2. CASE Dispatches(c) BY <1>2 DEF Dispatches
<1>3. CASE Inspects(c)   BY <1>3 DEF Inspects
<1>4. CASE Asks(c)       BY <1>4 DEF Asks
<1>5. CASE Hears(c)      BY <1>5 DEF Hears
<1>6. CASE TimesOut(c)   BY <1>6 DEF TimesOut
<1>7. CASE Settles(c)    BY <1>7 DEF Settles
<1>8. CASE Refuses(c)    BY <1>8 DEF Refuses
<1>9. CASE Compares(c)   BY <1>9 DEF Compares
<1>10. CASE Signals(c)   BY <1>10 DEF Signals
<1>11. CASE Replies(c)   BY <1>11 DEF Replies
<1> QED BY <1>1, <1>2, <1>3, <1>4, <1>5, <1>6, <1>7, <1>8, <1>9, <1>10, <1>11 DEF Call

LEMMA StepSees == IInv /\ Seen /\ [Next]_vars => Seen'
<1> SUFFICES ASSUME IInv, Seen, [Next]_vars PROVE Seen'
  OBVIOUS
<1> USE DEF IInv, Typed, Seen, SignalsWhatWasShown, Settings, Process, told, signals, asking
<1>1. CASE \E c \in Calls : Call(c)
  BY <1>1, CallSees
<1>2. CASE ProcessChanges  BY <1>2 DEF ProcessChanges
<1>3. CASE ~(\E c \in Calls : Call(c)) /\ ~ProcessChanges
  <2>1. UNCHANGED <<pc, process, starts, marker, outcome, looked, killed>>
    BY <1>3 DEF Next, Deliver, Delivers, Receives, Renders, Presses, StopsServer,
                ChangesSettings, vars
  <2> QED BY <2>1
<1> QED BY <1>1, <1>2, <1>3

\* With any number of calls, and however often the pid changes hands: what is
\* signalled is the process that was shown, or began after the script had compared
\* (signal_process).
THEOREM SignalsShown == Spec => []SignalsWhatWasShown
<1>1. Seen => SignalsWhatWasShown
  BY DEF Seen
<1> QED BY <1>1, InitSeen, StepSees, Invariance, PTL DEF Spec
=============================================================================
