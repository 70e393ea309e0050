----------------------------- MODULE Utf8Stream -----------------------------
(***************************************************************************)
(* The bytes of a terminal arrive in chunks and are shown as text as they  *)
(* come (terminal.rs, drain_utf8_stream): what may be the beginning of a   *)
(* character waits for the rest of it.                                     *)
(*                                                                         *)
(* A byte is the length of the character it begins, 1 to 4, or 0 for a     *)
(* continuation.  Not told apart: which continuations may follow some      *)
(* beginnings (overlong forms, surrogates).                                *)
(***************************************************************************)
EXTENDS Naturals, Sequences, SequencesExt

CONSTANT Streams   \* what may be sent: sequences of bytes

Utf8StreamAssumption == Streams \subseteq Seq(0 .. 4)

VARIABLES
  sent,     \* all that is sent
  arrived,  \* how many bytes of it were read
  pending,  \* bytes that wait
  text,     \* what was shown: characters, and Bad for what is none
  ended

vars == <<sent, arrived, pending, text, ended>>

Bad == <<>>

Init ==
  /\ sent \in Streams /\ arrived = 0 /\ pending = <<>> /\ text = <<>> /\ ended = FALSE

\* How many continuations follow the byte at i, of those it wants.
Follow(bytes, i) ==
  LET wanted == IF bytes[i] = 0 THEN 0 ELSE bytes[i] - 1
  IN Max({k \in 0 .. wanted :
            i + k <= Len(bytes) /\ \A j \in 1 .. k : bytes[i + j] = 0})

\* std::str::from_utf8 at i: a character, an error of some length (error_len), or
\* the end in the middle of a character.
Complete(bytes, i) == bytes[i] # 0 /\ Follow(bytes, i) = bytes[i] - 1
Cut(bytes, i) ==
  bytes[i] # 0 /\ ~Complete(bytes, i) /\ i + Follow(bytes, i) = Len(bytes)

Char(bytes, i) ==
  IF Complete(bytes, i) THEN SubSeq(bytes, i, i + Follow(bytes, i)) ELSE Bad

\* The bytes as text up to the end or to a character cut off there, and from where
\* that is.
Decoded(bytes) ==
  LET d[i \in 1 .. Len(bytes) + 1] ==
        IF i > Len(bytes) \/ Cut(bytes, i) THEN [text |-> <<>>, rest |-> i]
        ELSE LET next == i + 1 + Follow(bytes, i)
             IN [text |-> <<Char(bytes, i)>> \o d[next].text, rest |-> d[next].rest]
  IN d[1]

\* String::from_utf8_lossy
Lossy(bytes) ==
  Decoded(bytes).text \o (IF Decoded(bytes).rest > Len(bytes) THEN <<>> ELSE <<Bad>>)

\* drain_utf8_stream
Drain_All(bytes) == [text |-> Lossy(pending \o bytes), pending |-> <<>>]

Drain(bytes) ==
  LET all == pending \o bytes
  IN [text |-> Decoded(all).text, pending |-> SubSeq(all, Decoded(all).rest, Len(all))]

Reads(n) ==
  /\ ~ended /\ arrived + n <= Len(sent)
  /\ LET drained == Drain(SubSeq(sent, arrived + 1, arrived + n))
     IN text' = text \o drained.text /\ pending' = drained.pending
  /\ arrived' = arrived + n
  /\ UNCHANGED <<sent, ended>>

\* The shell is gone: what still waits is shown as it is.
Ends ==
  /\ ~ended /\ arrived = Len(sent) /\ ended' = TRUE
  /\ text' = text \o (IF pending = <<>> THEN <<>> ELSE Lossy(pending)) /\ pending' = <<>>
  /\ UNCHANGED <<sent, arrived>>

Next == Ends \/ \E n \in 1 .. Len(sent) : Reads(n)

Spec == Init /\ [][Next]_vars

------------------------------------------------------------------------------
TypeOK == sent \in Streams /\ arrived \in 0 .. Len(sent) /\ Len(pending) <= 3

\* However the bytes are cut into chunks, what is shown in the end is what the
\* whole stream reads as, nothing is shown that is not part of it, and no more
\* than three bytes wait.
ChunksDoNotShow ==
  /\ Len(pending) <= 3
  /\ IsPrefix(text, Lossy(sent))
  /\ ended => text = Lossy(sent)
=============================================================================
