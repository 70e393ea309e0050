------------------------ MODULE MCSessionLifecycle ------------------------
(***************************************************************************)
(* Small instances of SessionLifecycle for TLC, of which a run makes one:  *)
(* a local session that two commands at once open, split, close and        *)
(* delete, or a remote one, with the pools and threads only those have,    *)
(* that one command at a time connects, uses, disconnects and deletes.     *)
(***************************************************************************)
EXTENDS SessionLifecycle, TLC

CONSTANTS s1, s2, p1, p2, c1, c2

VARIABLE used  \* the session that is used

Local == {"connect", "split", "close", "disconnect", "delete"}
Remote == {"connect", "operation", "forward", "disconnect", "delete"}
Closing == {"close", "disconnect", "delete"}

UsedInit == used \in Sessions /\ Init /\ profiles \subseteq {used}

\* What commands a step starts.  A deletion, whose teardown is that of a disconnect,
\* meets no other command that closes.
Uses ==
  \A c \in Commands : pc[c] = "idle" /\ pc'[c] # "idle" =>
    /\ target'[c] = used
    /\ used \in LocalSessions =>
         /\ op'[c] \in Local
         /\ \A d \in Commands :
              {op'[c], op[d]} \subseteq Closing => "delete" \notin {op'[c], op[d]}
    /\ used \notin LocalSessions => op'[c] \in Remote /\ \A d \in Commands : pc[d] = "idle"

UsedNext == Next /\ Uses /\ UNCHANGED used

UsedSpec == UsedInit /\ [][UsedNext]_<<used, vars>>

\* Pane ids and commands are interchangeable.
Symmetry == Permutations({p1, p2}) \cup Permutations({c1, c2})
=============================================================================
