----------------------------- MODULE Questions -----------------------------
(***************************************************************************)
(* What questions to the user promise (mcp/approval.rs): the action one is *)
(* about is taken only after the user allowed it, at most once, and never  *)
(* after it was given up on.                                               *)
(***************************************************************************)
CONSTANT Asked

VARIABLES
  press,  \* what the user answered
  state   \* of the question

vars == <<press, state>>

Init == press = [q \in Asked |-> "none"] /\ state = [q \in Asked |-> "open"]

Becomes(q, new) == state' = [state EXCEPT ![q] = new] /\ UNCHANGED press

\* The user answers once; the question may be settled without.
Press(q) ==
  /\ press[q] = "none" /\ UNCHANGED state
  /\ \E answer \in {"allow", "deny"} : press' = [press EXCEPT ![q] = answer]

Grant(q) == state[q] = "open" /\ press[q] = "allow" /\ Becomes(q, "granted")

Refuse(q) == state[q] = "open" /\ Becomes(q, "refused")

Use(q) == state[q] = "granted" /\ Becomes(q, "used")

Next == \E q \in Asked : Press(q) \/ Grant(q) \/ Refuse(q) \/ Use(q)

Spec == Init /\ [][Next]_vars
=============================================================================
