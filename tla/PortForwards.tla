---------------------------- MODULE PortForwards ----------------------------
(***************************************************************************)
(* The port forwards of one profile (ssh/forwarding.rs): the set of rules  *)
(* that run, each with a thread of its own, and the commands that start,   *)
(* replace, move and stop them.  A command asks whether the connection     *)
(* answers, and may open another, before it takes the set.  A rule taken   *)
(* out of the set is told to stop; its thread sees that later.             *)
(***************************************************************************)
EXTENDS Naturals, Sequences

CONSTANTS
  Rules,        \* ids of rules
  Saved,        \* those in the profile, enabled; the others are temporary
  Ports,
  Starters,     \* commands that may run at once
  MaxLaunches,  \* threads launched for a rule: a bound
  MaxHops       \* connections opened: a bound

PortForwardsAssumption ==
  Saved \subseteq Rules /\ "saved" \notin Rules /\ {MaxLaunches, MaxHops} \subseteq Nat

VARIABLES
  hop,       \* set.connection, numbered; 0 while there is no set
  listed,    \* set.rules
  threads,   \* the threads of each rule, the latest is that of the listed one
  port,      \* the port of each rule
  hops,      \* connections opened
  alive,     \* those that still answer
  starters,  \* start_forward and restart_profile_forwards under way
  session,   \* the profile is connected
  blocked    \* a rule found its port with one taken out; not in the code

vars == <<hop, listed, threads, port, hops, alive, starters, session, blocked>>

Thread ==
  [hop : 1 .. MaxHops, stop : BOOLEAN,
   state : {"starting", "listening", "stopped", "lost", "in use"}]
Starter == [at : {"idle", "connect", "open", "start"}, rule : Rules \cup {"saved"},
            hop : 0 .. MaxHops]
Idle == [at |-> "idle", rule |-> "saved", hop |-> 0]

TypeOK ==
  /\ {hop, hops} \subseteq 0 .. MaxHops /\ alive \subseteq 1 .. hops
  /\ listed \subseteq Rules /\ port \in [Rules -> Ports]
  /\ threads \in [Rules -> Seq(Thread)]
  /\ \A r \in Rules : Len(threads[r]) <= MaxLaunches
  /\ \A r \in listed : threads[r] # <<>>
  /\ starters \in [Starters -> Starter]
  /\ {session, blocked} \subseteq BOOLEAN

Init ==
  /\ hop = 0 /\ listed = {} /\ threads = [r \in Rules |-> <<>>]
  /\ port \in [Rules -> Ports]
  /\ hops = 0 /\ alive = {} /\ starters = [s \in Starters |-> Idle]
  /\ session = TRUE /\ blocked = FALSE

-----------------------------------------------------------------------------
Latest(r) == threads[r][Len(threads[r])]
Running(r) == Latest(r).state \in {"starting", "listening"}

\* The set becomes what is kept and what is launched on a connection; the
\* thread of a rule that goes is told to stop (RunningRule's drop).
Becomes(kept, launched, h) ==
  LET Told(r) ==
        IF r \in listed \ kept
        THEN [threads[r] EXCEPT ![Len(threads[r])].stop = TRUE] ELSE threads[r]
      New == [hop |-> h, stop |-> FALSE, state |-> "starting"]
  IN /\ \A r \in launched : Len(threads[r]) < MaxLaunches
     /\ threads' = [r \in Rules |->
                      IF r \in launched THEN Append(Told(r), New) ELSE Told(r)]
     /\ listed' = kept \cup launched /\ hop' = h

Goes(s, to) == starters' = [starters EXCEPT ![s] = to]

\* start_profile_forwards, after a connect too; with nothing to start it ends.
\* start_one_forward, for one rule.
Begins(s, rule) ==
  /\ starters[s] = Idle /\ session
  /\ rule = "saved" => Saved \cup listed # {}
  /\ Goes(s, [at |-> "connect", rule |-> rule, hop |-> 0])
  /\ UNCHANGED <<hop, listed, threads, port, hops, alive, session, blocked>>

\* connection_for: the connection of the set if it answers, else a new one.
ConnectionFor(s) ==
  /\ starters[s].at = "connect"
  /\ Goes(s, IF hop \in alive THEN [starters[s] EXCEPT !.at = "start", !.hop = hop]
             ELSE [starters[s] EXCEPT !.at = "open"])
  /\ UNCHANGED <<hop, listed, threads, port, hops, alive, session, blocked>>

Opens(s) ==
  /\ starters[s].at = "open"
  /\ \/ Goes(s, Idle) /\ UNCHANGED <<hops, alive>>
     \/ /\ hops < MaxHops /\ hops' = hops + 1 /\ alive' = alive \cup {hops'}
        /\ Goes(s, [starters[s] EXCEPT !.at = "start", !.hop = hops'])
  /\ UNCHANGED <<hop, listed, threads, port, session, blocked>>

Moved(s) == hop # 0 /\ hop # starters[s].hop

\* The rules that run stay, unless the connection is another.
StartsSaved(s) ==
  /\ starters[s].at = "start" /\ starters[s].rule = "saved" /\ Goes(s, Idle)
  /\ LET kept == IF Moved(s) THEN {} ELSE {r \in listed : Running(r)}
     IN Becomes(kept, (Saved \cup listed) \ kept, starters[s].hop)
  /\ UNCHANGED <<port, hops, alive, session, blocked>>

\* One rule is started on a new connection, and the others stay on the old.
StartsOne_Alone(s) ==
  /\ starters[s].at = "start" /\ starters[s].rule # "saved" /\ Goes(s, Idle)
  /\ LET r == starters[s].rule IN Becomes(listed \ {r}, {r}, starters[s].hop)
  /\ UNCHANGED <<port, hops, alive, session, blocked>>

\* "The old connection died; everything on it has to move."  The rule it
\* replaces is out of the set before a clash with another is looked for.
StartsOne(s) ==
  /\ starters[s].at = "start" /\ starters[s].rule # "saved" /\ Goes(s, Idle)
  /\ LET r == starters[s].rule
         others == listed \ {r}
         kept == IF Moved(s) THEN {} ELSE others
         clash == \E q \in others : (Moved(s) \/ Running(q)) /\ port[q] = port[r]
     IN Becomes(kept, (others \ kept) \cup (IF clash THEN {} ELSE {r}), starters[s].hop)
  /\ UNCHANGED <<port, hops, alive, session, blocked>>

\* stop_forward; the last one takes the set with it.
StopsOne(r) ==
  /\ r \in listed
  /\ Becomes(listed \ {r}, {}, IF listed = {r} THEN 0 ELSE hop)
  /\ UNCHANGED <<port, hops, alive, starters, session, blocked>>

\* The profile disconnects: stop_profile.
Disconnects ==
  /\ session /\ session' = FALSE /\ Becomes({}, {}, 0)
  /\ UNCHANGED <<port, hops, alive, starters, blocked>>

Connects ==
  /\ ~session /\ session' = TRUE
  /\ UNCHANGED <<hop, listed, threads, port, hops, alive, starters, blocked>>

-----------------------------------------------------------------------------
(* The thread of a rule.                                                   *)

Reports(r, i, what) == threads' = [threads EXCEPT ![r][i].state = what]

Holders(p) ==
  {h \in Rules \X (1 .. MaxLaunches) :
     /\ port[h[1]] = p /\ h[2] \in DOMAIN threads[h[1]]
     /\ threads[h[1]][h[2]].state = "listening"}

\* run_listener binds the port; it is told of a stop only in its loop.
Binds(r, i) ==
  /\ i \in DOMAIN threads[r] /\ threads[r][i].state = "starting"
  /\ IF Holders(port[r]) = {} THEN Reports(r, i, "listening") /\ UNCHANGED blocked
     ELSE /\ Reports(r, i, "in use")
          /\ blocked' = (blocked \/ \E h \in Holders(port[r]) : threads[h[1]][h[2]].stop)
  /\ UNCHANGED <<hop, listed, port, hops, alive, starters, session>>

\* The loop ends, and the port is free.
Ends(r, i) ==
  /\ i \in DOMAIN threads[r] /\ threads[r][i].state = "listening"
  /\ \/ threads[r][i].stop /\ Reports(r, i, "stopped")
     \/ threads[r][i].hop \notin alive /\ Reports(r, i, "lost")
  /\ UNCHANGED <<hop, listed, port, hops, alive, starters, session, blocked>>

HopDies ==
  /\ \E h \in alive : alive' = alive \ {h}
  /\ UNCHANGED <<hop, listed, threads, port, hops, starters, session, blocked>>

Next ==
  \/ \E s \in Starters : \/ \E rule \in Rules \cup {"saved"} : Begins(s, rule)
                         \/ ConnectionFor(s) \/ Opens(s) \/ StartsSaved(s) \/ StartsOne(s)
  \/ \E r \in Rules : \/ StopsOne(r)
                      \/ \E i \in 1 .. MaxLaunches : Binds(r, i) \/ Ends(r, i)
  \/ Disconnects \/ Connects \/ HopDies

Spec == Init /\ [][Next]_vars

-----------------------------------------------------------------------------
(* Properties.                                                             *)

\* Every rule of the set runs on the set's connection, whichever commands
\* found the old one dead: none is left listening on a connection that no
\* command looks at any more.
RidesConnection == \A r \in listed : Latest(r).hop = hop

-----------------------------------------------------------------------------
(* Three that do not hold.                                                 *)

\* "Replacing a rule frees its port before the new one binds"
\* (forwarding.rs:359).
ReplacedFreesPort == ~blocked

\* "Stops every forward of a profile; called when it disconnects"
\* (forwarding.rs:205): none is left or comes back without a session.
NoneWithoutSession == ~session => listed = {}

\* A rule leaves the list only when the user stops it or disconnects.
StaysListed ==
  [][\A r \in listed : r \in listed' \/ ~session'
       \/ (listed' = listed \ {r} /\ UNCHANGED starters)]_vars
=============================================================================
