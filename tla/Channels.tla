------------------------------ MODULE Channels ------------------------------
(***************************************************************************)
(* Port forwards that share one SSH connection (open_direct_channel,       *)
(* run_persistent_forward and connection_answers in ssh/session.rs,        *)
(* run_listener and serve_socks in ssh/forwarding.rs).  libssh2 "keeps one *)
(* in-progress channel-open per session and resumes it on the next call    *)
(* whatever that call asked for" (session.rs:725): the lock keeps opens    *)
(* apart, except from one that was given up on.  Each forward stands for   *)
(* its own destination.                                                    *)
(***************************************************************************)
EXTENDS Naturals, FiniteSets

CONSTANTS
  Persistent,    \* forwards of the LLM monitor
  Local,         \* rules with one destination
  Socks,         \* connections of dynamic rules
  MaxSlots,      \* MAX_FORWARD_CONNECTIONS
  MaxFailures,   \* MAX_CONSECUTIVE_OPEN_FAILURES
  None

Forwards == Persistent \cup Local \cup Socks

ChannelsAssumption ==
  /\ MaxSlots \in Nat \ {0} /\ MaxFailures \in Nat \ {0}
  /\ None \notin Forwards

VARIABLES
  hop,       \* the SSH connection: "up" or "down"
  flight,    \* the open under way in libssh2, None or [to, answer]
  lock,      \* open_lock
  pc,        \* the accept loop of each forward
  slots,     \* connections that count against the limit
  failures,  \* open_failures
  hopDead,   \* told to the owner
  strayed,   \* a client got a channel to elsewhere; not in the code
  gaveUp     \* an open was left under way; not in the code

vars == <<hop, flight, lock, pc, slots, failures, hopDead, strayed, gaveUp>>

NoFlight == [to |-> None, answer |-> "idle"]
Flights == [to : Forwards \cup {None}, answer : {"waiting", "opened", "refused"}]

TypeOK ==
  /\ hop \in {"up", "down"}
  /\ flight \in Flights \cup {NoFlight}
  /\ lock \in Forwards \cup {None}
  /\ pc \in [Forwards -> {"listen", "want", "opening", "failed", "probing", "ended"}]
  /\ slots \in [Forwards -> 0 .. MaxSlots]
  /\ failures \in [Forwards -> 0 .. MaxFailures]
  /\ hopDead \subseteq Persistent
  /\ {strayed, gaveUp} \subseteq BOOLEAN

Init ==
  /\ hop = "up" /\ flight = NoFlight /\ lock = None
  /\ pc = [f \in Forwards |-> "listen"]
  /\ slots = [f \in Forwards |-> 0] /\ failures = [f \in Forwards |-> 0]
  /\ hopDead = {} /\ strayed = FALSE /\ gaveUp = FALSE

-----------------------------------------------------------------------------
Goes(f, where) == pc' = [pc EXCEPT ![f] = where]
Releases(f) == slots' = [slots EXCEPT ![f] = @ - 1]

\* A client connects; one too many is refused.
Accepts(f) ==
  /\ pc[f] = "listen" /\ slots[f] < MaxSlots
  /\ slots' = [slots EXCEPT ![f] = @ + 1] /\ Goes(f, "want")
  /\ UNCHANGED <<hop, flight, lock, failures, hopDead, strayed, gaveUp>>

\* Starts an open of its own, or finds one under way and goes on with that.
Asks(to) ==
  flight' = IF flight = NoFlight THEN [to |-> to, answer |-> "waiting"] ELSE flight

\* An open that does not wait for the others.
Opens_NoLock(f) ==
  /\ pc[f] = "want" /\ UNCHANGED lock /\ Asks(f) /\ Goes(f, "opening")
  /\ UNCHANGED <<hop, slots, failures, hopDead, strayed, gaveUp>>

\* open_direct_channel
Opens(f) ==
  /\ pc[f] = "want" /\ lock = None /\ lock' = f
  /\ Asks(f) /\ Goes(f, "opening")
  /\ UNCHANGED <<hop, slots, failures, hopDead, strayed, gaveUp>>

\* The server opens the channel or refuses; it refuses a probe.
Answers ==
  /\ hop = "up" /\ flight.answer = "waiting"
  /\ \E answer \in {"opened", "refused"} :
       /\ flight.to = None => answer = "refused"
       /\ flight' = [flight EXCEPT !.answer = answer]
  /\ UNCHANGED <<hop, lock, pc, slots, failures, hopDead, strayed, gaveUp>>

Unlocks == lock' = None

\* The pump gets the channel, the loop accepts again.
Opened(f) ==
  /\ pc[f] = "opening" /\ flight.answer = "opened"
  /\ strayed' = (strayed \/ flight.to # f)
  /\ flight' = NoFlight /\ Unlocks /\ Goes(f, "listen")
  /\ failures' = [failures EXCEPT ![f] = 0]
  /\ UNCHANGED <<hop, slots, hopDead, gaveUp>>

\* A forward that takes every failure for the destination's.
TurnsAway_Forgives(f) ==
  /\ Releases(f) /\ Unlocks /\ Goes(f, "listen")
  /\ UNCHANGED <<hop, failures, hopDead, strayed>>

\* No channel: the client is turned away, and unless this is a SOCKS worker,
\* which has told it so, the connection is looked at.
TurnsAway(f) ==
  /\ Releases(f) /\ Unlocks
  /\ Goes(f, IF f \in Socks THEN "listen" ELSE "failed")
  /\ failures' = IF f \in Persistent THEN [failures EXCEPT ![f] = @ + 1] ELSE failures
  /\ UNCHANGED <<hop, hopDead, strayed>>

Refused(f) ==
  /\ pc[f] = "opening" /\ (flight.answer = "refused" \/ hop = "down")
  /\ flight' = NoFlight /\ TurnsAway(f) /\ UNCHANGED gaveUp

\* The deadline passes: the lock is let go, the open is still under way.
TimesOut(f) ==
  /\ pc[f] = "opening" /\ flight.answer = "waiting"
  /\ TurnsAway(f) /\ gaveUp' = TRUE /\ UNCHANGED flight

\* connection_answers, after a failure or, for a rule, when it is idle.
Probes(f) ==
  /\ pc[f] = "failed" \/ (pc[f] = "listen" /\ f \in Local)
  /\ lock = None /\ lock' = f /\ Asks(None) /\ Goes(f, "probing")
  /\ UNCHANGED <<hop, slots, failures, hopDead, strayed, gaveUp>>

\* The connection answers: the destination is at fault, until there have been
\* too many failures.
ProbeAnswered(f) ==
  /\ pc[f] = "probing" /\ flight.answer \in {"opened", "refused"}
  /\ flight' = NoFlight /\ Unlocks
  /\ Goes(f, IF failures[f] >= MaxFailures THEN "ended" ELSE "listen")
  /\ UNCHANGED <<hop, slots, failures, hopDead, strayed, gaveUp>>

\* It does not: the forward ends, and says why.
ProbeFails(f) ==
  /\ pc[f] = "probing" /\ (flight.answer = "waiting" \/ hop = "down")
  /\ Unlocks /\ Goes(f, "ended")
  /\ IF hop = "down" THEN flight' = NoFlight /\ UNCHANGED gaveUp
     ELSE gaveUp' = TRUE /\ UNCHANGED flight
  /\ hopDead' = hopDead \cup ({f} \cap Persistent)
  /\ UNCHANGED <<hop, slots, failures, strayed>>

\* The owner drops the forward.
Stops(f) ==
  /\ pc[f] = "listen" /\ Goes(f, "ended")
  /\ UNCHANGED <<hop, flight, lock, slots, failures, hopDead, strayed, gaveUp>>

\* pump_channel_socket: either side closed, or it was told to stop.
Reserved(f) == IF pc[f] \in {"want", "opening"} THEN 1 ELSE 0

PumpEnds(f) ==
  /\ slots[f] > Reserved(f) /\ Releases(f)
  /\ UNCHANGED <<hop, flight, lock, pc, failures, hopDead, strayed, gaveUp>>

HopDies ==
  /\ hop = "up" /\ hop' = "down"
  /\ UNCHANGED <<flight, lock, pc, slots, failures, hopDead, strayed, gaveUp>>

Finishes(f) == Opened(f) \/ Refused(f) \/ TimesOut(f) \/ ProbeAnswered(f) \/ ProbeFails(f)

Next ==
  \/ \E f \in Forwards : \/ Accepts(f) \/ Opens(f) \/ Probes(f) \/ Finishes(f)
                         \/ Stops(f) \/ PumpEnds(f)
  \/ Answers \/ HopDies

Spec == Init /\ [][Next]_vars

\* Clients keep coming to the forwards of the monitor; an open and a probe end
\* with their deadlines, and the lock comes to everyone who waits; a pump on a
\* connection that is gone ends.
Fairness ==
  \A f \in Forwards :
    /\ f \in Persistent => WF_vars(Accepts(f))
    /\ SF_vars(Opens(f)) /\ SF_vars(Probes(f)) /\ WF_vars(Finishes(f))
    /\ WF_vars(hop = "down" /\ PumpEnds(f))

FairSpec == Spec /\ Fairness

-----------------------------------------------------------------------------
(* Properties.                                                             *)

\* A client gets the destination it asked for, as long as no open was given up
\* on.
ApartUnlessGivenUp == ~gaveUp => ~strayed

\* "So a forward can never be stuck alive-but-useless" (session.rs:1103): on a
\* connection that is gone, each forward of the monitor ends.
DeadHopIsNoticed == hop = "down" ~> \A f \in Persistent : pc[f] = "ended"

-----------------------------------------------------------------------------
(* Two that do not hold.                                                   *)

\* "So two threads opening channels at once on a nonblocking session could each
\* get the other's destination" is what the lock is to prevent
\* (session.rs:728).
GoesWhereAsked == ~strayed

\* "True when the forwarder stopped because the SSH transport itself is gone"
\* (session.rs:1401).
HopDeadIsTrue == hopDead # {} => hop = "down"
=============================================================================
