---------------------------- MODULE Connections ----------------------------
(***************************************************************************)
(* What connections are made of and used for: host keys (HostKeys, which   *)
(* this module extends), signing in, the vault, managed keys and what the  *)
(* user registered; port forwards and their pumps, the actions of an MCP   *)
(* client, the thread that reads a terminal and the text it shows.  They   *)
(* meet in no variable: one is chosen at the start, the others rest.       *)
(***************************************************************************)
EXTENDS HostKeys, Naturals, Sequences, TLC

CONSTANTS
  MaxRounds,                             \* SignIn
  Accounts, Secrets, MaxVaults,          \* Vault
  MaxKeys,                               \* ManagedKeys
  Profiles, RuleSets,                    \* Registry: the profiles
  Instances, Addresses, Commands,        \* and the instances
  Calls, MaxStarts,                      \* McpActions
  Rules, SavedRules, Ports, Starters,    \* PortForwards
  MaxLaunches, MaxHops,
  MaxBytes,                              \* Pump
  ProbeAfterIdle, ProbeTimeout,          \* TerminalReader
  CalibrationTimeout, KeepaliveInterval, OperationTimeout, ReplyDelay,
  MaxTime, MaxHolds, MaxNaps,
  Streams                                \* Utf8Stream

VARIABLES
  part,
  cred, mode, accepts, offers, offered, tried, savedPassword, usedSaved, round,
  rounds, answered, aborted, codeHost, step, result, proved, wasted, stops,
  vaultFile, index, runtime, known, sensor, opening, vaults, confirmed,
  authorized, own, info, ring, assigned, ringVault, keysMade, panel, manager, kept,
  erased,
  profiles, rules, imported, instances, slot, command,
  server, actions, linked, callAt, process, starts, marker, pending, channel,
  answers, events, queue, dialog, pressed, outcome, reply, looked, killed,
  connection, listed, ruleThreads, port, hops, alive, starters, session, blocked,
  sent, closed, buffer, arrived, turn, copied, pumpStop, ended,
  now, link, replies, shell, incoming, slept, reader, probe, holder, stop, closedAs,
  holds, naps, silentAt, wokeAt,
  output, read, waiting, text, over

signInVars == <<cred, mode, accepts, offers, offered, tried, savedPassword, usedSaved,
                round, rounds, answered, aborted, codeHost, step, result, proved,
                wasted, stops>>
vaultVars == <<vaultFile, index, runtime, known, sensor, opening, vaults, confirmed>>
keyVars == <<authorized, own, info, ring, assigned, ringVault, keysMade, panel,
             manager, kept, erased>>
registryVars == <<profiles, rules, imported, instances, slot, command>>
callVars == <<server, actions, linked, callAt, process, starts, marker, pending,
              channel, answers, events, queue, dialog, pressed, outcome, reply,
             looked, killed>>
forwardVars == <<connection, listed, ruleThreads, port, hops, alive, starters,
                 session, blocked>>
pumpVars == <<sent, closed, buffer, arrived, turn, copied, pumpStop, ended>>
terminalVars == <<now, link, replies, shell, incoming, slept, reader, probe, holder,
                  stop, closedAs, holds, naps, silentAt, wokeAt>>
streamVars == <<output, read, waiting, text, over>>
connectionVars == <<part, vars, signInVars, vaultVars, keyVars, registryVars, callVars,
                    forwardVars, pumpVars, terminalVars, streamVars>>

S == INSTANCE SignIn WITH saved <- savedPassword, at <- step
\* A rename replaces the file; where it does not, SavedStays is lost.
V == INSTANCE Vault WITH
       RemovesFirst <- FALSE, file <- vaultFile, made <- vaults, saved <- confirmed
K == INSTANCE ManagedKeys WITH made <- keysMade
\* Loops take profiles, and duplicates instances.
P == INSTANCE Registry WITH
       Instances <- {}, Rules <- RuleSets, Addresses <- {}, Commands <- {}
I == INSTANCE Registry WITH Profiles <- {}, Rules <- {}
A == INSTANCE McpActions WITH pc <- callAt, taken <- answers, shown <- dialog
F == INSTANCE PortForwards WITH
       Saved <- SavedRules, hop <- connection, threads <- ruleThreads
B == INSTANCE Pump WITH at <- turn, stop <- pumpStop
T == INSTANCE TerminalReader WITH answers <- replies, closed <- closedAs
U == INSTANCE Utf8Stream WITH
       sent <- output, arrived <- read, pending <- waiting, ended <- over

ASSUME ConnectionsAssumption ==
  /\ S!SignInAssumption /\ V!VaultAssumption /\ K!ManagedKeysAssumption
  /\ P!RegistryAssumption /\ I!RegistryAssumption /\ A!McpActionsAssumption
  /\ F!PortForwardsAssumption /\ B!PumpAssumption /\ T!TerminalReaderAssumption
  /\ U!Utf8StreamAssumption

\* A part that rests has one initial state.
Parts == {"hosts", "signin", "vault", "keys", "profiles", "instances", "call",
          "forwards", "pump", "terminal", "stream"}
ConnectionsInit ==
  /\ part \in Parts
  /\ Init /\ (part # "hosts" => \A h \in Hosts : file[h]["untyped"] = None)
  /\ S!Init
  /\ part # "signin" =>
       /\ cred = [managed |-> FALSE, key |-> FALSE, password |-> "none"]
       /\ mode = [interactive |-> FALSE, managedOnly |-> FALSE]
       /\ \A way \in DOMAIN accepts : ~accepts[way]
       /\ offers = {} /\ ~codeHost
  /\ V!Init /\ K!Init /\ F!Init /\ B!Init
  /\ IF part = "instances" THEN I!Init ELSE P!Init
  /\ A!Init
  /\ IF part = "call" THEN server /\ actions ELSE ~server /\ ~actions /\ process = 0
  /\ T!Init /\ (part # "terminal" => ~replies)
  /\ IF part = "stream" THEN TRUE ELSE output = CHOOSE s \in Streams : TRUE
  /\ U!Init

Rest(p, v) == IF part \in p THEN TRUE ELSE UNCHANGED v

ConnectionsNext ==
  /\ UNCHANGED part
  /\ \/ part = "hosts" /\ Next
     \/ part = "signin" /\ S!Next
     \/ part = "vault" /\ V!Next
     \/ part = "keys" /\ K!Next
     \/ part = "profiles" /\ P!Next
     \/ part = "instances" /\ I!Next
     \/ part = "call" /\ A!Next
     \/ part = "forwards" /\ F!Next
     \/ part = "pump" /\ B!Next
     \/ part = "terminal" /\ T!Next
     \/ part = "stream" /\ U!Next
  /\ Rest({"hosts"}, vars) /\ Rest({"signin"}, signInVars)
  /\ Rest({"vault"}, vaultVars) /\ Rest({"keys"}, keyVars)
  /\ Rest({"profiles", "instances"}, registryVars)
  /\ Rest({"call"}, callVars) /\ Rest({"forwards"}, forwardVars)
  /\ Rest({"pump"}, pumpVars) /\ Rest({"terminal"}, terminalVars)
  /\ Rest({"stream"}, streamVars)

ConnectionsSpec == ConnectionsInit /\ [][ConnectionsNext]_connectionVars

------------------------------------------------------------------------------
(* The properties of the modules                                           *)

\* A managed key that is to be proved is proved, and in the background a wrong password
\* is spent once in a sign-in, and a host asks for a code once (SignIn).
SignInIsFair ==
  part = "signin" => S!KeyIsProved /\ S!FailsOnce /\ S!CodeStopsOnce

\* The vault that is open is the one in the file, and what was saved stays there
\* through failures and restarts (Vault).
OpenIsCurrent == part = "vault" => V!OpenIsCurrent /\ V!SavedStays

\* The manager lists no key whose private half is gone but those that went with a
\* vault that was reset, and a profile that signs in with its key goes on doing so,
\* whatever fails, until the key is removed or the vault reset (ManagedKeys).
ListedHasPrivate == [](part = "keys" => K!ListedHasPrivate) /\ K!KeyKeepsWorking

\* Neither saving a profile nor an import undoes the rules of its forwards, no
\* chain of jumps leads back to itself, and no instance is there twice (Registry).
RulesAreKept ==
  /\ part = "profiles" => P!RulesAreKept /\ P!LoopsAreImported
  /\ part = "instances" => I!InstancesDistinct

\* A forward rides on the connection of its set, and what one side sent before it
\* closed reaches the other (PortForwards, Pump).
ForwardsCarry ==
  /\ part = "forwards" => F!RidesConnection
  /\ part = "pump" => B!ArrivesInOrder /\ B!ClosingSideIsHeard

\* The calls of an MCP client keep what questions to the user promise: this is
\* the refinement of Questions; and the process one signals is the one that was shown,
\* or began after the script had compared (McpActions).
AsksFirst == A!AsksFirst /\ [](part = "call" => A!SignalsWhatWasShown)

\* A terminal shows what was sent, and is reported lost when, and only when, its
\* connection is (TerminalReader, Utf8Stream).
LossIsReal ==
  /\ part = "terminal" => T!AliveIsKept /\ T!DeadIsNoticed
  /\ part = "stream" => U!ChunksDoNotShow

------------------------------------------------------------------------------
(* For TLC.                                                                *)

\* Up to four bytes, the beginnings of characters and the rest.
ShortStreams == UNION {[1 .. n -> {0, 1, 3, 4}] : n \in 0 .. 4}

\* Calls are only compared.
Symmetry == Permutations(Calls)
=============================================================================
