-------------------------------- MODULE Pump --------------------------------
(***************************************************************************)
(* pump_channel_socket (ssh/session.rs): one thread copies between a       *)
(* loopback socket and an SSH channel, neither of which blocks.  A round   *)
(* reads and writes one way, then the other; a pending buffer is flushed   *)
(* before more is read.  Bytes are numbered as they are sent.              *)
(***************************************************************************)
EXTENDS Naturals, SequencesExt

CONSTANT MaxBytes   \* sent by each side: a bound

PumpAssumption == MaxBytes \in Nat

VARIABLES
  sent,      \* what each side sent, and has not been read
  closed,    \* the sides that sent their end of file
  buffer,    \* to_channel and to_socket, under the side they come from
  arrived,   \* what the other side got
  at,        \* the side whose turn it is, and whether to read or to write
  copied,    \* the bytes counter of a forward
  stop,
  ended      \* why the loop ended

vars == <<sent, closed, buffer, arrived, at, copied, stop, ended>>

Sides == {"socket", "channel"}
Bytes == UNION {[1 .. n -> 1 .. MaxBytes] : n \in 0 .. MaxBytes}
Round == <<<<"socket", "read">>, <<"socket", "write">>,
           <<"channel", "read">>, <<"channel", "write">>>>

TypeOK ==
  /\ {sent[s] : s \in Sides} \cup {buffer[s] : s \in Sides} \cup {arrived[s] : s \in Sides}
       \subseteq Bytes
  /\ closed \subseteq Sides /\ at \in 1 .. 4
  /\ copied \in 0 .. 2 * MaxBytes /\ stop \in BOOLEAN
  /\ ended \in Sides \cup {"no", "stopped", "error"}

Init ==
  /\ sent = [s \in Sides |-> <<>>] /\ closed = {}
  /\ buffer = sent /\ arrived = sent
  /\ at = 1 /\ copied = 0 /\ stop = FALSE /\ ended = "no"

-----------------------------------------------------------------------------
Total(s) == Len(arrived[s]) + Len(buffer[s]) + Len(sent[s])

\* The two ends.
Sends(s) ==
  /\ s \notin closed /\ Total(s) < MaxBytes
  /\ sent' = [sent EXCEPT ![s] = Append(@, Total(s) + 1)]
  /\ UNCHANGED <<closed, buffer, arrived, at, copied, stop, ended>>

Closes(s) ==
  /\ s \notin closed /\ closed' = closed \cup {s}
  /\ UNCHANGED <<sent, buffer, arrived, at, copied, stop, ended>>

\* The owner's stop flag.
Stops ==
  /\ ~stop /\ stop' = TRUE
  /\ UNCHANGED <<sent, closed, buffer, arrived, at, copied, ended>>

-----------------------------------------------------------------------------
Turn(s, what) == ended = "no" /\ Round[at] = <<s, what>>
Next4 == at' = (at % 4) + 1

SeesStop ==
  /\ at = 1 /\ ended = "no" /\ stop /\ ended' = "stopped"
  /\ UNCHANGED <<sent, closed, buffer, arrived, at, copied, stop>>

\* A read that does not wait for the buffer to be flushed.
Reads_Always(s) ==
  /\ Turn(s, "read") /\ (at = 1 => ~stop)
  /\ \/ sent[s] = <<>> /\ s \in closed /\ ended' = s /\ UNCHANGED <<sent, buffer, at>>
     \/ \E n \in 1 .. Len(sent[s]) :
          /\ buffer' = [buffer EXCEPT ![s] = SubSeq(sent[s], 1, n)]
          /\ sent' = [sent EXCEPT ![s] = SubSeq(@, n + 1, Len(@))]
          /\ Next4 /\ UNCHANGED ended
     \/ sent[s] = <<>> /\ s \notin closed /\ Next4 /\ UNCHANGED <<sent, buffer, ended>>
  /\ UNCHANGED <<closed, arrived, copied, stop>>

\* Some of what there is, an end of file, or nothing yet.
Reads(s) ==
  /\ Turn(s, "read") /\ (at = 1 => ~stop)
  /\ \/ buffer[s] # <<>> /\ Next4 /\ UNCHANGED <<sent, buffer, ended>>
     \/ /\ buffer[s] = <<>> /\ sent[s] = <<>> /\ s \in closed
        /\ ended' = s /\ UNCHANGED <<sent, buffer, at>>
     \/ /\ buffer[s] = <<>>
        /\ \E n \in 1 .. Len(sent[s]) :
             /\ buffer' = [buffer EXCEPT ![s] = SubSeq(sent[s], 1, n)]
             /\ sent' = [sent EXCEPT ![s] = SubSeq(@, n + 1, Len(@))]
        /\ Next4 /\ UNCHANGED ended
     \/ /\ buffer[s] = <<>> /\ sent[s] = <<>> /\ s \notin closed
        /\ Next4 /\ UNCHANGED <<sent, buffer, ended>>
  /\ UNCHANGED <<closed, arrived, copied, stop>>

\* The other end takes as much as it has room for.
Writes(s) ==
  /\ Turn(s, "write") /\ Next4
  /\ \E n \in 0 .. Len(buffer[s]) :
       /\ arrived' = [arrived EXCEPT ![s] = @ \o SubSeq(buffer[s], 1, n)]
       /\ buffer' = [buffer EXCEPT ![s] = SubSeq(@, n + 1, Len(@))]
       /\ copied' = copied + n
  /\ UNCHANGED <<sent, closed, stop, ended>>

\* A read or a write fails.
Fails ==
  /\ ended = "no" /\ (at = 1 => ~stop) /\ ended' = "error"
  /\ UNCHANGED <<sent, closed, buffer, arrived, at, copied, stop>>

Next ==
  \/ \E s \in Sides : Sends(s) \/ Closes(s) \/ Reads(s) \/ Writes(s)
  \/ Stops \/ SeesStop \/ Fails

Spec == Init /\ [][Next]_vars

-----------------------------------------------------------------------------
(* Properties.                                                             *)

\* What arrives is what was sent, in order and without a gap, and counted.
ArrivesInOrder ==
  /\ \A s \in Sides : \A i \in DOMAIN arrived[s] : arrived[s][i] = i
  /\ copied = Len(arrived["socket"]) + Len(arrived["channel"])

\* A side that sends its last and closes has all of it delivered.
ClosingSideIsHeard ==
  ended \in Sides => buffer[ended] = <<>> /\ sent[ended] = <<>>

\* Not so the other side, which may still have been sending: a half-closed
\* connection is taken down as a whole.  This one does not hold.
BothSidesAreHeard == ended \in Sides => \A s \in Sides : buffer[s] = <<>>
=============================================================================
