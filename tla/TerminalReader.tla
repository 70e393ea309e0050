--------------------------- MODULE TerminalReader ---------------------------
(***************************************************************************)
(* The thread that reads a remote terminal (terminal.rs, start_remote_     *)
(* terminal_reader; session.rs, probe_reply): how it tells a connection    *)
(* that is silent from one that is gone, while input and resizes take the  *)
(* channel from it, the server may not answer, and the computer sleeps.    *)
(***************************************************************************)
EXTENDS Naturals

CONSTANTS
  ProbeAfterIdle, ProbeTimeout, CalibrationTimeout, KeepaliveInterval, OperationTimeout,
  ReplyDelay,             \* how long a server that answers takes at most
  MaxTime, MaxHolds, MaxNaps,
  None

TerminalReaderAssumption ==
  /\ {ProbeAfterIdle, ProbeTimeout, CalibrationTimeout, KeepaliveInterval, OperationTimeout,
      ReplyDelay, MaxTime, MaxHolds, MaxNaps} \subseteq Nat
  /\ ReplyDelay < ProbeTimeout /\ ProbeTimeout <= CalibrationTimeout
  /\ None \notin Nat \cup [at : Nat, until : Nat, replied : BOOLEAN]
                  \cup {"lost", "exited", "stopped"}

VARIABLES
  now,
  link,      \* "up"; "silent", nothing comes through; "gone", and the system knows
  answers,   \* the server answers probes
  shell,     \* runs, or has exited and the server said so
  incoming,  \* there is output to read
  slept,     \* the computer slept and the reader has not looked since
  reader,    \* mode, probeNow and the times it keeps
  probe,     \* None, or when it was asked, until when, and whether it was answered
  holder,    \* None, or until when input or a resize may keep the channel
  stop, closed,
  holds, naps,
  silentAt, wokeAt   \* since when it is silent, when the computer woke since:
                     \* not in the code

env == <<answers, shell, incoming>>
ghosts == <<silentAt, wokeAt>>
vars == <<now, link, env, slept, reader, probe, holder, stop, closed, holds, naps, ghosts>>

Init ==
  /\ now = 0 /\ link = "up" /\ answers \in BOOLEAN /\ shell = "runs" /\ incoming = FALSE
  /\ slept = FALSE
  /\ reader = [mode |-> "uncalibrated", probeNow |-> FALSE,
               received |-> 0, probed |-> 0, kept |-> 0]
  /\ probe = None /\ holder = None /\ stop = FALSE /\ closed = None
  /\ holds = 0 /\ naps = 0 /\ silentAt = None /\ wokeAt = None

------------------------------------------------------------------------------
(* The server, the network, the computer                                   *)

Outputs ==
  /\ link = "up" /\ shell = "runs" /\ ~incoming /\ incoming' = TRUE
  /\ UNCHANGED <<now, link, answers, shell, slept, reader, probe, holder, stop, closed,
                 holds, naps, ghosts>>

Exits ==
  /\ link = "up" /\ shell = "runs" /\ shell' = "exited"
  /\ UNCHANGED <<now, link, answers, incoming, slept, reader, probe, holder, stop, closed,
                 holds, naps, ghosts>>

Replies ==
  /\ link = "up" /\ answers /\ probe # None /\ ~probe.replied
  /\ probe' = [probe EXCEPT !.replied = TRUE]
  /\ UNCHANGED <<now, link, env, slept, reader, holder, stop, closed, holds, naps, ghosts>>

Breaks(how) ==
  /\ link = "up" /\ link' = how
  /\ silentAt' = now /\ wokeAt' = None
  /\ UNCHANGED <<now, env, slept, reader, probe, holder, stop, closed, holds, naps>>

\* The monotonic clock stands still meanwhile; the connection may not survive.
Sleeps(survives) ==
  /\ naps < MaxNaps /\ closed = None /\ naps' = naps + 1 /\ slept' = TRUE
  /\ wokeAt' = now
  /\ IF survives \/ link # "up" THEN UNCHANGED <<link, silentAt>>
     ELSE link' = "silent" /\ silentAt' = now
  /\ UNCHANGED <<now, env, reader, probe, holder, stop, closed, holds>>

Stops ==
  /\ ~stop /\ stop' = TRUE
  /\ UNCHANGED <<now, link, env, slept, reader, probe, holder, closed, holds, naps, ghosts>>

------------------------------------------------------------------------------
(* terminal_write and terminal_resize: what cannot be sent at once is tried    *)
(* again with the channel held (write_all_nonblocking, resize_remote_pty_      *)
(* nonblocking).                                                               *)

Holds ==
  /\ holder = None /\ holds < MaxHolds /\ closed = None /\ ~stop
  /\ holder' = now + OperationTimeout /\ holds' = holds + 1
  /\ UNCHANGED <<now, link, env, slept, reader, probe, stop, closed, naps, ghosts>>

\* It was sent, or it is given up.
LetsGo ==
  /\ holder # None /\ (link # "silent" \/ now >= holder) /\ holder' = None
  /\ UNCHANGED <<now, link, env, slept, reader, probe, stop, closed, holds, naps, ghosts>>

------------------------------------------------------------------------------
(* The reader                                                              *)

Idle == link # "gone" /\ ~incoming /\ shell = "runs"

Asks(wake) ==
  /\ reader.mode # "keepalive"
  /\ \/ reader.mode = "uncalibrated" \/ wake
     \/ now - reader.received >= ProbeAfterIdle /\ now - reader.probed >= ProbeAfterIdle

Keeps(wake) ==
  reader.mode = "keepalive" /\ (wake \/ now - reader.kept >= KeepaliveInterval)

Timeout_Same == CalibrationTimeout

Timeout == IF reader.mode = "uncalibrated" THEN CalibrationTimeout ELSE ProbeTimeout

\* SleepDetector::woke_from_sleep
Wake_IfIdle == reader.probeNow

Wake == reader.probeNow \/ slept

\* One turn of the loop.  A shell that exited on a connection that is gone may be
\* found as either.
Turns ==
  /\ closed = None /\ ~stop /\ probe = None /\ holder = None
  /\ slept' = FALSE
  /\ LET wake == Wake
     IN \/ /\ link = "gone" /\ closed' = "lost"
           /\ UNCHANGED <<incoming, reader, probe>>
        \/ /\ shell = "exited" /\ ~incoming /\ closed' = "exited"
           /\ UNCHANGED <<incoming, reader, probe>>
        \/ /\ link # "gone" /\ incoming /\ incoming' = FALSE
           /\ reader' = [reader EXCEPT !.received = now, !.probeNow = wake]
           /\ UNCHANGED <<probe, closed>>
        \/ /\ Idle /\ Asks(wake)
           /\ probe' = [at |-> now, until |-> now + Timeout, replied |-> FALSE]
           /\ reader' = [reader EXCEPT !.probeNow = FALSE]
           /\ UNCHANGED <<incoming, closed>>
        \/ /\ Idle /\ Keeps(wake)
           /\ reader' = [reader EXCEPT !.probeNow = FALSE, !.kept = now]
           /\ UNCHANGED <<incoming, probe, closed>>
        \/ /\ Idle /\ ~Asks(wake) /\ ~Keeps(wake) /\ slept
           /\ reader' = [reader EXCEPT !.probeNow = wake]
           /\ UNCHANGED <<incoming, probe, closed>>
  /\ UNCHANGED <<now, link, answers, shell, holder, stop, holds, naps, ghosts>>

\* A server that does not answer the first probe is not asked again.
GivesUp_Always == closed' = "lost" /\ UNCHANGED reader

GivesUp ==
  IF reader.mode = "uncalibrated"
  THEN reader' = [reader EXCEPT !.mode = "keepalive", !.probed = now] /\ UNCHANGED closed
  ELSE closed' = "lost" /\ UNCHANGED reader

\* probe_reply: the channel is free again while the answer is awaited, but each
\* look for it comes after those who hold it when the request was not sent whole.
ProbeEnds ==
  /\ probe # None /\ closed = None
  /\ \/ /\ probe.replied
        /\ reader' = [reader EXCEPT !.mode = "reply", !.probed = now] /\ UNCHANGED closed
     \/ /\ ~probe.replied /\ link = "gone" /\ closed' = "lost" /\ UNCHANGED reader
     \/ /\ ~probe.replied /\ link # "gone" /\ now >= probe.until /\ GivesUp
  /\ probe' = None
  /\ UNCHANGED <<now, link, env, slept, holder, stop, holds, naps, ghosts>>

\* Seen at the top of the loop only.
Ends ==
  /\ stop /\ closed = None /\ probe = None /\ closed' = "stopped"
  /\ UNCHANGED <<now, link, env, slept, reader, probe, holder, stop, holds, naps, ghosts>>

\* There is something to do at the top of the loop, or about a probe.
MayTurn ==
  /\ probe = None
  /\ \/ stop
     \/ /\ holder = None
        /\ ~Idle \/ Asks(Wake) \/ Keeps(Wake) \/ slept

ProbeMayEnd == probe # None /\ (probe.replied \/ link = "gone" \/ now >= probe.until)

\* The reader turns many times in a unit of time and nobody keeps the channel, nor
\* a server its answer, longer than they may.
TimePasses ==
  /\ now < MaxTime /\ closed = None /\ ~MayTurn /\ ~ProbeMayEnd
  /\ holder # None => now < holder
  /\ (probe # None /\ link = "up" /\ answers) => now < probe.at + ReplyDelay
  /\ now' = now + 1
  /\ UNCHANGED <<link, env, slept, reader, probe, holder, stop, closed, holds, naps, ghosts>>

Next ==
  \/ Outputs \/ Exits \/ Replies \/ Stops \/ Holds \/ LetsGo \/ Turns \/ ProbeEnds
  \/ Ends \/ TimePasses
  \/ \E how \in {"silent", "gone"} : Breaks(how)
  \/ \E b \in BOOLEAN : Sleeps(b)

Spec == Init /\ [][Next]_vars

------------------------------------------------------------------------------
TypeOK ==
  /\ now \in 0 .. MaxTime /\ link \in {"up", "silent", "gone"}
  /\ shell \in {"runs", "exited"} /\ {answers, incoming, slept, stop} \subseteq BOOLEAN
  /\ reader.mode \in {"uncalibrated", "reply", "keepalive"}
  /\ closed \in {None, "lost", "exited", "stopped"}

Watching == closed = None /\ reader.mode = "reply" /\ link = "silent"

\* A connection that went silent is noticed ("roughly 23 seconds total",
\* README:619), but for the time that input or resizes held the channel; after a
\* sleep it takes no more than the wait for one answer.
DeadIsNoticed ==
  Watching =>
    /\ now - silentAt <= ProbeAfterIdle + ProbeTimeout + holds * OperationTimeout
    /\ wokeAt # None =>
         now - wokeAt <= ProbeTimeout + holds * OperationTimeout

\* A connection that works is never reported lost, whether its server answers
\* probes or not ("fall back to keepalives rather than disconnecting it").
AliveIsKept == closed = "lost" => link # "up"

\* A shell the user has left is not reported lost: "a shell the user exited must
\* stay closed".  It may be, if the connection ends with it.
ExitedStaysClosed == shell = "exited" => closed # "lost"
=============================================================================
