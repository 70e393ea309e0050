------------------------ MODULE ConnectionsProofs --------------------------
(***************************************************************************)
(* Proofs about Connections, one part after the other.  Each part has an   *)
(* invariant that its own steps keep, and rests in the steps of the        *)
(* others; so it holds of the whole.                                       *)
(***************************************************************************)
EXTENDS Connections, Integers, FiniteSetTheorems, SequenceTheorems,
        WellFoundedInduction, TLAPS

-----------------------------------------------------------------------------
(* Host keys: the three are inductive together.                            *)

HostKeysInv == TypeOK /\ OneWriter /\ TrustStands

\* One entry is replaced by another.
LEMMA EntryReplaced ==
  ASSUME NEW f \in [Hosts -> Entry], \A h \in Hosts : IsEntry(f[h]),
         NEW host \in Hosts, NEW e, IsEntry(e),
         NEW g, g = f \/ g = [f EXCEPT ![host] = e]
  PROVE  g \in [Hosts -> Entry] /\ \A h \in Hosts : IsEntry(g[h])
<1>1. e \in Entry
  BY DEF IsEntry
<1>2. CASE g = f
  BY <1>2
<1>3. CASE g = [f EXCEPT ![host] = e]
  <2>1. g \in [Hosts -> Entry]
    BY <1>1, <1>3
  <2>2. ASSUME NEW h \in Hosts PROVE IsEntry(g[h])
    <3>1. CASE h = host
      BY <1>3, <3>1
    <3>2. CASE h # host
      BY <1>3, <3>2
    <3> QED
      BY <3>1, <3>2
  <2> QED
    BY <2>1, <2>2
<1> QED
  BY <1>2, <1>3

LEMMA HostKeysInit == Init => HostKeysInv
<1> SUFFICES ASSUME Init PROVE HostKeysInv
  OBVIOUS
<1>1. (CHOOSE p \in Presented : TRUE) \in Presented
  <2>1. PICK h \in Hosts, t \in Types, k \in PublicKeys : TRUE
    BY HostKeysAssumption
  <2>2. [host |-> h, type |-> t, key |-> k] \in Presented
    BY <2>1 DEF Presented
  <2> QED
    BY <2>2
<1>2. TypeOK
  BY <1>1, HostKeysAssumption
  DEF Init, TypeOK, Slots, Entry, IsEntry, NoEntry, NoCopy
<1>3. OneWriter /\ TrustStands
  BY DEF Init, OneWriter, TrustStands
<1> QED
  BY <1>2, <1>3 DEF HostKeysInv

LEMMA NoCopyIsTyped ==
  NoCopy \in [Hosts -> Entry] /\ \A h \in Hosts : IsEntry(NoCopy[h])
  BY HostKeysAssumption DEF NoCopy, NoEntry, Entry, Slots, IsEntry

\* An entry with a typed key and nothing else, and one with a key more, are entries.
LEMMA EntriesMade ==
  ASSUME NEW type \in Types, NEW key \in PublicKeys, NEW old, IsEntry(old)
  PROVE  /\ IsEntry(Typed(type, key))
         /\ Typed(type, key)[type] = key
         /\ old["untyped"] = None => IsEntry([old EXCEPT ![type] = key])
  BY HostKeysAssumption DEF IsEntry, Entry, Slots, Typed, NoEntry

\* A host with an untyped key has no key the user trusted since.
LEMMA UntypedIsUntrusted ==
  ASSUME HostKeysInv, NEW h \in Hosts, file[h]["untyped"] # None
  PROVE  \A k \in Types : trusted[h][k] = None
<1> SUFFICES ASSUME NEW k \in Types, trusted[h][k] # None PROVE FALSE
  OBVIOUS
<1>1. file[h][k] = None /\ file # NoCopy
  BY DEF HostKeysInv, TypeOK, IsEntry, NoCopy, NoEntry, Slots
<1>2. \A t \in Threads : pc[t] \notin {"renameTyped", "renameTrusted"}
  BY <1>1 DEF HostKeysInv, OneWriter
<1> QED
  BY <1>1, <1>2 DEF HostKeysInv, TrustStands

\* Who has the lock to write has what is in the file, and all that is trusted is there.
LEMMA HolderReads ==
  ASSUME HostKeysInv, NEW t \in Threads, pc[t] \in {"rewrite", "write"}
  PROVE  /\ copy[t] = file /\ lock = t /\ file \in [Hosts -> Entry]
         /\ \A h \in Hosts : IsEntry(file[h])
         /\ \A u \in Threads : pc[u] \notin {"renameTyped", "renameTrusted"}
         /\ \A h \in Hosts, k \in Types :
              trusted[h][k] # None => file[h][k] = trusted[h][k]
BY DEF HostKeysInv, OneWriter, TrustStands, TypeOK

\* A write keeps the three, if the entry it puts in has what is trusted.
LEMMA RewriteKeeps ==
  ASSUME HostKeysInv, NEW t \in Threads, pc[t] \in {"rewrite", "write"},
         NEW host \in Hosts, NEW e, IsEntry(e), Rewrites(t, host, e),
         trusted' \in [Hosts -> [Types -> PublicKeys \cup {None}]],
         \A h \in Hosts, k \in Types : trusted'[h][k] # None =>
           /\ file' # file => [file EXCEPT ![host] = e][h][k] = trusted'[h][k]
           /\ file' = file => file[h][k] = trusted'[h][k]
  PROVE  HostKeysInv'
<1> DEFINE new == [file EXCEPT ![host] = e]
<1>1. copy[t] = file /\ lock = t /\ file \in [Hosts -> Entry]
      /\ (\A h \in Hosts : IsEntry(file[h]))
      /\ (\A u \in Threads : pc[u] \notin {"renameTyped", "renameTrusted"})
  BY HolderReads
<1>2. new \in [Hosts -> Entry] /\ \A h \in Hosts : IsEntry(new[h])
  BY <1>1, EntryReplaced
<1>3. CASE file' \in {file, new} /\ Unlocks(t) /\ Done(t)
  <2>1. file' \in [Hosts -> Entry] /\ \A h \in Hosts : IsEntry(file'[h])
    BY <1>1, <1>2, <1>3
  <2>2. TypeOK'
    BY <1>3, <2>1, NoCopyIsTyped DEF Unlocks, Done, Goes, HostKeysInv, TypeOK
  <2>3. OneWriter'
    BY <1>1, <1>3 DEF Unlocks, Done, Goes, HostKeysInv, TypeOK, OneWriter
  <2>4. TrustStands'
    BY <1>3 DEF TrustStands
  <2> QED
    BY <2>2, <2>3, <2>4 DEF HostKeysInv
<1>4. CASE /\ file # NoCopy /\ file' = NoCopy /\ copy' = [copy EXCEPT ![t] = new] /\ UNCHANGED <<lock, shown>>
           /\ Goes(t, IF pc[t] = "rewrite" THEN "renameTyped" ELSE "renameTrusted")
  <2> HIDE DEF new
  <2>1. TypeOK'
    BY <1>2, <1>4, NoCopyIsTyped DEF Goes, HostKeysInv, TypeOK
  <2>2. OneWriter'
    BY <1>1, <1>4 DEF Goes, HostKeysInv, TypeOK, OneWriter
  <2>3. pc'[t] \in {"renameTyped", "renameTrusted"} /\ copy'[t] = new
    BY <1>4 DEF Goes, HostKeysInv, TypeOK
  <2>4. \A h \in Hosts, k \in Types : trusted'[h][k] # None => new[h][k] = trusted'[h][k]
    BY <1>4 DEF new
  <2>5. TrustStands'
    BY <2>3, <2>4 DEF TrustStands
  <2> QED
    BY <2>1, <2>2, <2>5 DEF HostKeysInv
<1> QED
  BY <1>1, <1>3, <1>4 DEF Rewrites

LEMMA HostKeysStep == HostKeysInv /\ [Next]_vars => HostKeysInv'
<1> SUFFICES ASSUME HostKeysInv, [Next]_vars PROVE HostKeysInv'
  OBVIOUS
<1>1. CASE UNCHANGED vars
  BY <1>1 DEF HostKeysInv, TypeOK, OneWriter, TrustStands, vars
<1>2. ASSUME NEW t \in Threads, Thread(t) PROVE HostKeysInv'
  <2> DEFINE p == shown[t]
  <2>p. p \in Presented /\ p.host \in Hosts /\ p.type \in Types /\ p.key \in PublicKeys
    BY DEF HostKeysInv, TypeOK, Presented
  <2>1. CASE Handshake(t)
    BY <2>1 DEF Handshake, Goes, HostKeysInv, TypeOK, OneWriter, TrustStands
  <2>2. CASE Verify(t)
    <3>1. TypeOK' /\ OneWriter'
      BY <2>2 DEF Verify, Goes, HostKeysInv, TypeOK, OneWriter
    <3>2. /\ UNCHANGED <<file, copy, trusted>>
          /\ \A u \in Threads : pc[u] \in {"renameTyped", "renameTrusted"} => pc'[u] = pc[u]
      BY <2>2 DEF Verify, Goes, HostKeysInv, TypeOK
    <3>3. TrustStands'
      BY <3>2 DEF HostKeysInv, TrustStands
    <3> QED
      BY <3>1, <3>3 DEF HostKeysInv
  <2>3. CASE Declines(t)
    <3>1. TypeOK' /\ OneWriter'
      BY <2>3 DEF Declines, Goes, HostKeysInv, TypeOK, OneWriter
    <3>2. /\ UNCHANGED <<file, copy, trusted>>
          /\ \A u \in Threads : pc[u] \in {"renameTyped", "renameTrusted"} => pc'[u] = pc[u]
      BY <2>3 DEF Declines, Goes, HostKeysInv, TypeOK
    <3>3. TrustStands'
      BY <3>2 DEF HostKeysInv, TrustStands
    <3> QED
      BY <3>1, <3>3 DEF HostKeysInv
  <2>4. ASSUME NEW from \in {"migrate", "asking"}, NEW to \in {"rewrite", "write"},
               Locks(t, from, to)
        PROVE  HostKeysInv'
    <3>1. TypeOK'
      BY <2>4 DEF Locks, Goes, HostKeysInv, TypeOK
    <3>2. OneWriter'
      BY <2>4, HostKeysAssumption DEF Locks, Goes, HostKeysInv, TypeOK, OneWriter
    <3>3. TrustStands'
      BY <2>4, HostKeysAssumption DEF Locks, Goes, HostKeysInv, TypeOK, OneWriter, TrustStands
    <3> QED
      BY <3>1, <3>2, <3>3 DEF HostKeysInv
  <2>5. CASE MigrateWrites(t)
    <3> HIDE DEF p
    <3>1. pc[t] = "rewrite" /\ trusted' = trusted
      BY <2>5 DEF MigrateWrites
    <3>2. copy[t] = file /\ lock = t
          /\ (\A u \in Threads : pc[u] \notin {"renameTyped", "renameTrusted"})
          /\ \A h \in Hosts, k \in Types : trusted[h][k] # None => file[h][k] = trusted[h][k]
      BY <3>1, HolderReads
    <3>3. CASE Evaluate(copy[t][p.host], p.type, p.key) = "legacy"
      <4>1. Rewrites(t, p.host, Typed(p.type, p.key))
        BY <2>5, <3>3 DEF MigrateWrites, p
      <4>2. file[p.host]["untyped"] = p.key
        BY <3>3, <3>2 DEF Evaluate
      <4>3. \A k \in Types : trusted[p.host][k] = None
        BY <4>2, <2>p, HostKeysAssumption, UntypedIsUntrusted
      <4>4. IsEntry(Typed(p.type, p.key))
        <5>1. IsEntry(file[p.host])
          BY <2>p DEF HostKeysInv, TypeOK
        <5> QED
          BY <5>1, <2>p, EntriesMade
      <4>5. file \in [Hosts -> Entry] /\ trusted' \in [Hosts -> [Types -> PublicKeys \cup {None}]]
        BY <3>1 DEF HostKeysInv, TypeOK
      <4>6. ASSUME NEW h \in Hosts, NEW k \in Types, trusted'[h][k] # None
            PROVE  /\ file' # file =>
                        [file EXCEPT ![p.host] = Typed(p.type, p.key)][h][k] = trusted'[h][k]
                   /\ file' = file => file[h][k] = trusted'[h][k]
        BY <4>3, <4>5, <4>6, <3>1, <3>2
      <4> QED
        BY <4>1, <4>4, <4>5, <4>6, <3>1, <2>p, RewriteKeeps
    <3>4. CASE Evaluate(copy[t][p.host], p.type, p.key) # "legacy"
      <4>1. Unlocks(t) /\ Done(t) /\ file' = file
        BY <2>5, <3>4 DEF MigrateWrites, p
      <4>2. TypeOK'
        BY <4>1, <3>1, NoCopyIsTyped DEF Unlocks, Done, Goes, HostKeysInv, TypeOK
      <4>3. OneWriter'
        BY <4>1, <3>1, <3>2 DEF Unlocks, Done, Goes, HostKeysInv, TypeOK, OneWriter
      <4>4. TrustStands'
        BY <4>1, <3>1, <3>2 DEF TrustStands
      <4> QED
        BY <4>2, <4>3, <4>4 DEF HostKeysInv
    <3> QED
      BY <3>3, <3>4
  <2>6. CASE TrustWrites(t)
    <3> DEFINE old == file[p.host]
               new == IF old["untyped"] = None THEN [old EXCEPT ![p.type] = p.key]
                      ELSE Typed(p.type, p.key)
    <3>1. copy[t] = file /\ pc[t] = "write" /\ file \in [Hosts -> Entry] /\ IsEntry(old)
          /\ \A h \in Hosts, k \in Types : trusted[h][k] # None => file[h][k] = trusted[h][k]
      BY <2>6, <2>p, HolderReads DEF TrustWrites
    <3>2. IsEntry(new) /\ new[p.type] = p.key
      <4> HIDE DEF p
      <4>1. old \in Entry
        BY <3>1 DEF IsEntry
      <4>2. [old EXCEPT ![p.type] = p.key][p.type] = p.key
        BY <4>1, <2>p DEF Entry, Slots
      <4> QED
        BY <4>2, <2>p, <3>1, EntriesMade
    <3>3. /\ Rewrites(t, p.host, new)
          /\ trusted' = IF file'[p.host][p.type] = p.key \/ pc'[t] = "renameTrusted"
                        THEN [trusted EXCEPT ![p.host][p.type] = p.key] ELSE trusted
      BY <2>6, <3>1 DEF TrustWrites
    <3>4. trusted' \in [Hosts -> [Types -> PublicKeys \cup {None}]]
      BY <3>3, <2>p DEF HostKeysInv, TypeOK
    <3>5. \A k \in Types \ {p.type} : trusted[p.host][k] # None => new[k] = trusted[p.host][k]
      <4> SUFFICES ASSUME NEW k \in Types \ {p.type}, trusted[p.host][k] # None
                   PROVE  new[k] = trusted[p.host][k]
        OBVIOUS
      <4>1. old["untyped"] = None
        BY <2>p, UntypedIsUntrusted
      <4> QED
        BY <4>1, <3>1, <2>p DEF IsEntry, Entry, Slots
    <3> HIDE DEF new
    <3>6. ASSUME file' # file PROVE file'[p.host][p.type] = p.key \/ pc'[t] = "renameTrusted"
      <4>1. CASE file' = [file EXCEPT ![p.host] = new]
        BY <4>1, <3>1, <3>2, <2>p
      <4>2. CASE file' # [file EXCEPT ![p.host] = new]
        BY <4>2, <3>6, <3>3, <3>1 DEF Rewrites, Goes, HostKeysInv, TypeOK
      <4> QED
        BY <4>1, <4>2
    <3>7. ASSUME NEW h \in Hosts, NEW k \in Types, trusted'[h][k] # None, file' # file
          PROVE  [file EXCEPT ![p.host] = new][h][k] = trusted'[h][k]
      <4> HIDE DEF p
      <4>1. CASE h = p.host /\ k = p.type
        BY <4>1, <3>7, <3>6, <3>1, <3>2, <3>3, <2>p DEF HostKeysInv, TypeOK
      <4>2. CASE ~(h = p.host /\ k = p.type)
        <5>1. trusted'[h][k] = trusted[h][k]
          BY <4>2, <3>3, <2>p DEF HostKeysInv, TypeOK
        <5> QED
          BY <5>1, <4>2, <3>7, <3>1, <3>5, <2>p
      <4> QED
        BY <4>1, <4>2
    <3>8. ASSUME NEW h \in Hosts, NEW k \in Types, trusted'[h][k] # None, file' = file
          PROVE  file[h][k] = trusted'[h][k]
      <4>1. pc'[t] # "renameTrusted"
        BY <3>8, <3>3, <3>1 DEF Rewrites, Done, Goes, HostKeysInv, TypeOK
      <4> HIDE DEF p
      <4>2. CASE trusted' = trusted
        BY <4>2, <3>8, <3>1
      <4>3. CASE trusted' # trusted
        <5>1. file[p.host][p.type] = p.key /\ trusted' = [trusted EXCEPT ![p.host][p.type] = p.key]
          BY <4>1, <4>3, <3>8, <3>3
        <5> QED
          BY <5>1, <3>8, <3>1, <2>p DEF HostKeysInv, TypeOK
      <4> QED
        BY <4>2, <4>3
    <3>9. p.host \in Hosts /\ t \in Threads /\ pc[t] \in {"rewrite", "write"}
      BY <3>1, <2>p
    <3> HIDE DEF p
    <3> QED
      BY <3>9, <3>2, <3>3, <3>4, <3>7, <3>8, RewriteKeeps
  <2>7. CASE Renames(t)
    <3>1. lock = t /\ file = NoCopy
          /\ \A u \in Threads \ {t} : pc[u] \notin {"rewrite", "write", "renameTyped", "renameTrusted"}
      BY <2>7 DEF Renames, HostKeysInv, OneWriter
    <3>2. TypeOK'
      BY <2>7, NoCopyIsTyped DEF Renames, Unlocks, Done, Goes, HostKeysInv, TypeOK
    <3>3. OneWriter'
      BY <2>7, <3>1 DEF Renames, Unlocks, Done, Goes, HostKeysInv, TypeOK, OneWriter
    <3>4. TrustStands'
      <4>1. CASE file' = copy[t]
        <5>1. trusted' = trusted
          BY <2>7, <4>1 DEF Renames
        <5>2. \A h \in Hosts, k \in Types : file[h][k] = None
          BY <3>1 DEF NoCopy, NoEntry, Slots
        <5>3. \A h \in Hosts, k \in Types : trusted[h][k] # None => copy[t][h][k] = trusted[h][k]
          BY <5>2, <3>1 DEF HostKeysInv, TrustStands
        <5> QED
          BY <4>1, <5>1, <5>3 DEF TrustStands
      <4>2. CASE file' # copy[t]
        BY <2>7, <4>2 DEF Renames, TrustStands
      <4> QED
        BY <4>1, <4>2
    <3> QED
      BY <3>2, <3>3, <3>4 DEF HostKeysInv
  <2> QED
    BY <1>2, <2>1, <2>2, <2>3, <2>4, <2>5, <2>6, <2>7 DEF Thread, MigrateLocks, TrustLocks
<1> QED
  BY <1>1, <1>2 DEF Next

LEMMA HostKeysActs == [ConnectionsNext]_connectionVars => [Next]_vars
  BY DEF ConnectionsNext, connectionVars, Rest

\* The three hold of any number of hosts, key types and connections.
THEOREM HostKeysInvariance == ConnectionsSpec => []HostKeysInv
<1>1. ConnectionsInit => HostKeysInv
  BY HostKeysInit DEF ConnectionsInit
<1>2. HostKeysInv /\ [ConnectionsNext]_connectionVars => HostKeysInv'
  BY HostKeysStep, HostKeysActs
<1> QED
  BY <1>1, <1>2, PTL DEF ConnectionsSpec

\* What the user trusted stays in the file, or in the copy that is put in its place,
\* whatever other connections and answers of the user rewrite it, until a write that
\* removed the file first loses all of it (trust_host_key, migrate_legacy_host_key).
THEOREM TrustStandsAlways == ConnectionsSpec => []TrustStands
<1>1. HostKeysInv => TrustStands
  BY DEF HostKeysInv
<1> QED
  BY <1>1, HostKeysInvariance, PTL

\* A thread that rewrites the file holds the lock and a copy that is current, or has
\* removed the file.
THEOREM OneWriterAlways == ConnectionsSpec => []OneWriter
<1>1. HostKeysInv => OneWriter
  BY DEF HostKeysInv
<1> QED
  BY <1>1, HostKeysInvariance, PTL

-----------------------------------------------------------------------------
(* Signing in.                                                             *)

\* In the background a wrong password is spent once: as a password it was rejected
\* and is not offered to a question; to a question it was offered because the
\* server takes no password, and a wrong answer leaves it so.
Background ==
  /\ step \in {"list", "done"} \/ mode.managedOnly \/ offered = offers
  /\ cred.password = "wrong" =>
       /\ answered # "right"
       /\ "password" \in tried => ~savedPassword
       /\ "ki" \in tried /\ "password" \notin tried /\ ~cred.key =>
            "password" \notin offers /\ "keyboard-interactive" \in offers
  /\ wasted <= 1

\* A wrong password is sent once as a password and once to a question, at most;
\* who only proves a key tries nothing else.
Counted ==
  /\ wasted \in 0 .. 2
  /\ wasted # 0 => "password" \in tried \/ usedSaved
  /\ wasted = 2 => "password" \in tried /\ usedSaved
Sent ==
  /\ round \in Seq({"password", "code"})
  /\ savedPassword \/ usedSaved => S!Saveable(cred)
  /\ wasted # 0 => cred.password = "wrong"
  /\ usedSaved => "ki" \in tried
ProvesOnly ==
  /\ S!KeyIsProved
  /\ "ki" \in tried /\ cred.managed => "managed" \in tried
  /\ step \in {"respond", "judge", "ki"} => "ki" \in tried
  /\ mode.managedOnly => ~mode.interactive /\ step # "list" /\ tried \subseteq {"managed"}
\* A code that stopped a sign-in is known of the host, and one that is known was not
\* asked of who still answers.
Stopped ==
  /\ stops \in 0 .. 1
  /\ stops = 1 => codeHost
  /\ ~mode.interactive /\ codeHost /\ step \in {"ki", "respond", "judge"} => aborted # "no"
SignInInv == Counted /\ Sent /\ ProvesOnly /\ Stopped /\ (~mode.interactive => Background)

LEMMA QuestionsAsk == S!Questions \subseteq Seq({"password", "code"})
BY DEF S!Questions

LEMMA SignInInit == S!Init => SignInInv
<1> SUFFICES ASSUME S!Init PROVE SignInInv
  OBVIOUS
<1>1. Counted
  BY DEF S!Init, Counted
<1>2. Sent
  <2>1. round \in Seq({"password", "code"})
    BY DEF S!Init
  <2> QED
    BY <2>1 DEF S!Init, S!Saveable, Sent
<1>3. ProvesOnly
  BY DEF S!Init, S!Start, S!KeyIsProved, ProvesOnly
<1>4. Background
  BY DEF S!Init, S!Start, Background
<1>5. Stopped
  BY DEF S!Init, S!Start, Stopped
<1> QED
  BY <1>1, <1>2, <1>3, <1>4, <1>5 DEF SignInInv

\* What the choice of a method tells of what the client has and has tried.
LEMMA ChosenMethod ==
  ASSUME SignInInv, NEW way, S!NextMethod = {way}
  PROVE  /\ way \in S!Ways \ tried
         /\ mode.managedOnly => way = "managed"
         /\ way # "managed" /\ cred.managed => "managed" \in tried
         /\ way = "managed" => cred.managed
         /\ way = "password" => ~cred.key
         /\ way = "key" => cred.key
         /\ way = "agent" => cred.password = "none" /\ ~cred.key
         /\ way = "password" => "password" \in offered \/ "keyboard-interactive" \notin offered
         /\ way = "ki" /\ "password" \notin tried /\ ~cred.key /\ cred.password # "none" =>
              "password" \notin offered /\ "keyboard-interactive" \in offered
  BY DEF S!NextMethod, S!First, S!Ways

\* Who gives up at a code did not know of it, and does now.
LEMMA NeedsUserStops == ASSUME SignInInv, S!NeedsUser PROVE Stopped'
<1> USE DEF SignInInv, Stopped, S!NeedsUser
<1>1. aborted' = "needs-user" /\ stops = 0
  OBVIOUS
<1>2. CASE S!StopsAtCode
  <2>1. codeHost'
    BY <1>2, Zenon
  <2>2. stops' = 1
    BY <1>1, <1>2
  <2> QED
    BY <1>1, <2>1, <2>2
<1>3. CASE ~S!StopsAtCode
  BY <1>1, <1>3
<1> QED
  BY <1>2, <1>3

\* What stopped earlier sign-ins is not touched by what only tries a method.
LEMMA StoppedStep == SignInInv /\ [S!Next]_signInVars => Stopped'
<1> SUFFICES ASSUME SignInInv, [S!Next]_signInVars PROVE Stopped'
  OBVIOUS
<1> USE DEF SignInInv, Stopped, S!client, S!asked, S!counts, S!Finish
<1>1. CASE S!NeedsUser
  BY <1>1, NeedsUserStops
<1>2. CASE S!AsksUser
  BY <1>2 DEF S!AsksUser
<1>3. CASE S!TriesQuestions
  BY <1>3 DEF S!TriesQuestions
<1>4. CASE S!Again
  BY <1>4 DEF S!Again, S!Start
<1>5. CASE S!Asks \/ S!RespondsAlone \/ S!AnswersNothing \/ S!AsksMore
  BY <1>5 DEF S!Asks, S!RespondsAlone, S!AnswersNothing, S!AsksMore
<1>6. CASE S!QuestionsEnd
  BY <1>6 DEF S!QuestionsEnd, S!Outcome
<1>7. CASE S!List \/ S!GivesUp
  BY <1>7 DEF S!List, S!GivesUp
<1>8. CASE S!TriesPassword
  BY <1>8 DEF S!TriesPassword, S!Outcome
<1>9. ASSUME NEW way \in {"managed", "key", "agent"}, S!TriesKey(way) PROVE Stopped'
  BY <1>9 DEF S!TriesKey, S!Outcome
<1>10. CASE UNCHANGED signInVars
  BY <1>10 DEF signInVars
<1> QED
  BY <1>1, <1>2, <1>3, <1>4, <1>5, <1>6, <1>7, <1>8, <1>9, <1>10 DEF S!Next

LEMMA SignInStep == SignInInv /\ [S!Next]_signInVars => SignInInv'
<1> SUFFICES ASSUME SignInInv, [S!Next]_signInVars, Stopped' PROVE SignInInv'
  BY StoppedStep
<1> USE DEF SignInInv, Counted, Sent, ProvesOnly, Background, S!KeyIsProved, S!Saveable, S!client, S!asked,
        S!counts, S!Finish, S!Outcome
<1>1. CASE UNCHANGED signInVars
  BY <1>1 DEF signInVars
<1>2. CASE S!List
  BY <1>2 DEF S!List
<1>3. CASE S!GivesUp
  BY <1>3 DEF S!GivesUp
<1>4. CASE S!TriesPassword
  <2>1. /\ "password" \notin tried /\ ~mode.managedOnly /\ ~cred.key
        /\ "password" \in offered \/ "keyboard-interactive" \notin offered
    BY <1>4, ChosenMethod DEF S!TriesPassword
  <2>2. Counted'
    BY <1>4, <2>1 DEF S!TriesPassword
  <2>3. Sent'
    BY <1>4, <2>1 DEF S!TriesPassword
  <2>4. ProvesOnly'
    BY <1>4, <2>1 DEF S!TriesPassword
  <2>5. (~mode.interactive => Background)'
    <3>1. ~mode.interactive => wasted' <= 1
      BY <1>4, <2>1 DEF S!TriesPassword
    <3> QED
      BY <1>4, <2>1, <3>1 DEF S!TriesPassword
  <2> QED
    BY <2>3, <2>4, <2>5, <2>2
<1>5. CASE S!TriesQuestions
  BY <1>5, ChosenMethod DEF S!TriesQuestions
<1>6. ASSUME NEW way \in {"managed", "key", "agent"}, S!TriesKey(way) PROVE SignInInv'
  <2>1. /\ way \notin tried /\ (mode.managedOnly => way = "managed")
        /\ (way = "managed" /\ cred.managed) \/ (way = "key" /\ cred.key) \/ (way = "agent" /\ cred.password = "none")
        /\ way # "managed" /\ cred.managed => "managed" \in tried
    BY <1>6, ChosenMethod DEF S!TriesKey
  <2>2. Counted'
    BY <1>6, <2>1 DEF S!TriesKey
  <2>3. Sent'
    BY <1>6, <2>1 DEF S!TriesKey
  <2>4. ProvesOnly'
    BY <1>6, <2>1 DEF S!TriesKey
  <2>5. (~mode.interactive => Background)'
    BY <1>6, <2>1 DEF S!TriesKey
  <2> QED
    BY <2>3, <2>4, <2>5, <2>2
<1>7. CASE S!Asks
  BY <1>7, QuestionsAsk DEF S!Asks
<1>8. CASE S!RespondsAlone
  <2>1. round # <<>> => savedPassword /\ ~usedSaved
    BY <1>8 DEF S!RespondsAlone, S!Answerable
  <2>2. usedSaved' = (usedSaved \/ round # <<>>) /\ tried' = tried
    BY <1>8 DEF S!RespondsAlone
  <2>3. wasted' = IF round # <<>> /\ cred.password = "wrong" THEN wasted + 1 ELSE wasted
    BY <1>8 DEF S!RespondsAlone
  <2>4. ASSUME round # <<>> /\ cred.password = "wrong" PROVE Counted'
    <3>1. usedSaved' /\ ~usedSaved /\ wasted' = wasted + 1 /\ wasted \in 0 .. 2
      BY <2>1, <2>2, <2>3, <2>4
    <3>2. wasted = 0 \/ (wasted = 1 /\ "password" \in tried)
      BY <3>1
    <3> QED
      BY <2>2, <3>1, <3>2
  <2>5. ASSUME ~(round # <<>> /\ cred.password = "wrong") PROVE Counted'
    BY <2>2, <2>3, <2>5
  <2>6. Counted'
    BY <2>4, <2>5
  <2>7. Sent'
    BY <1>8, <2>1 DEF S!RespondsAlone
  <2>8. ProvesOnly'
    BY <1>8, <2>1 DEF S!RespondsAlone
  <2>9. (~mode.interactive => Background)'
    BY <1>8, <2>1, <2>6 DEF S!RespondsAlone
  <2> QED
    BY <2>7, <2>8, <2>9, <2>6
<1>9. CASE S!NeedsUser
  <2>1. S!Answerable = 1 => savedPassword /\ ~usedSaved
    BY DEF S!Answerable
  <2> QED
    BY <1>9, <2>1 DEF S!NeedsUser
<1>10. CASE S!AsksUser
  <2>1. S!Answerable = 1 => savedPassword /\ ~usedSaved
    BY DEF S!Answerable
  <2> QED
    BY <1>10, <2>1 DEF S!AsksUser
<1>11. CASE S!AsksMore
  BY <1>11 DEF S!AsksMore
<1>12. CASE S!QuestionsEnd
  BY <1>12 DEF S!QuestionsEnd
<1>13. CASE S!AnswersNothing
  BY <1>13 DEF S!AnswersNothing
<1>14. CASE S!Again
  <2>1. /\ tried' = {} /\ answered' = "nothing" /\ wasted' = 0 /\ usedSaved' = FALSE
        /\ result' = "none" /\ cred' = cred /\ round' = <<>>
        /\ savedPassword' = S!Saveable(cred)
        /\ mode'.managedOnly => ~mode'.interactive
        /\ step' = IF mode'.managedOnly THEN "choose" ELSE "list"
    BY <1>14 DEF S!Again, S!Start
  <2>2. Counted' /\ ProvesOnly' /\ Background'
    BY <2>1
  <2>3. round' \in Seq({"password", "code"})
    BY <2>1
  <2>4. Sent'
    BY <2>1, <2>3
  <2> QED
    BY <2>2, <2>4
<1> QED
  BY <1>1, <1>2, <1>3, <1>4, <1>5, <1>6, <1>7, <1>8, <1>9, <1>10, <1>11, <1>12, <1>13, <1>14
  DEF S!Next

LEMMA SignInActs == [ConnectionsNext]_connectionVars => [S!Next]_signInVars
  BY DEF ConnectionsNext, connectionVars, Rest

\* A managed key that is to be proved is proved; in the background no wrong password
\* is sent twice in a sign-in, and a code stops one sign-in to a host, whatever the
\* server offers and asks (authenticate, NonInteractive, PromptAdapter).
THEOREM SignInIsFairAlways == ConnectionsSpec => []SignInIsFair
<1>1. ConnectionsInit => SignInInv
  BY SignInInit DEF ConnectionsInit
<1>2. SignInInv /\ [ConnectionsNext]_connectionVars => SignInInv'
  BY SignInStep, SignInActs
<1>3. SignInInv => SignInIsFair
  BY DEF SignInInv, ProvesOnly, Counted, Background, Stopped, SignInIsFair, S!KeyIsProved,
         S!FailsOnce, S!CodeStopsOnce
<1> QED
  BY <1>1, <1>2, <1>3, PTL DEF ConnectionsSpec

-----------------------------------------------------------------------------
(* The vault.                                                              *)

\* What is open agrees with the file, as does what an unlock has read and is about
\* to open; meanwhile nothing else is open.
VaultInv ==
  /\ V!TypeOK /\ V!OpenIsCurrent /\ V!SavedStays
  /\ opening # V!Closed =>
       /\ runtime.key = 0
       /\ opening.key = vaultFile.key /\ opening.entries = vaultFile.entries

LEMMA VaultInit == V!Init => VaultInv
  BY ConnectionsAssumption
  DEF V!Init, VaultInv, V!TypeOK, V!OpenIsCurrent, V!SavedStays, V!NoFile, V!Closed,
      V!NoEntries, V!Entries, V!VaultAssumption

\* Update writes what is open with one entry changed, or leaves both as they are.
LEMMA UpdateKeeps ==
  ASSUME VaultInv, runtime.key # 0, NEW e \in V!Entries, V!Update(e)
  PROVE  /\ vaultFile' \in [salt : 0 .. MaxVaults, key : 0 .. MaxVaults, entries : V!Entries]
         /\ runtime' \in [key : 0 .. MaxVaults, entries : V!Entries]
         /\ runtime'.key = runtime.key /\ vaultFile'.key = vaultFile.key
         /\ vaultFile'.salt = vaultFile.salt
         /\ runtime'.entries = vaultFile'.entries
         /\ vaultFile'.entries \in {e, vaultFile.entries}
         /\ runtime # runtime' => vaultFile'.entries = e
<1>1. /\ vaultFile.key = runtime.key /\ vaultFile.entries = runtime.entries
      /\ vaultFile.key # 0
      /\ vaultFile \in [salt : 0 .. MaxVaults, key : 0 .. MaxVaults, entries : V!Entries]
      /\ runtime \in [key : 0 .. MaxVaults, entries : V!Entries]
  BY DEF VaultInv, V!OpenIsCurrent, V!TypeOK
<1>2. vaultFile # V!NoFile
  BY <1>1 DEF V!NoFile
<1>3. vaultFile' \in {[salt |-> vaultFile.salt, key |-> runtime.key, entries |-> e], vaultFile}
  BY <1>2 DEF V!Update, V!Persisted, V!Written
<1>4. vaultFile' # V!NoFile /\ vaultFile'.key = vaultFile.key /\ vaultFile'.entries \in {e, vaultFile.entries}
      /\ vaultFile'.salt = vaultFile.salt
  BY <1>1, <1>3 DEF V!NoFile
<1>5. runtime' = IF vaultFile'.entries = e THEN [runtime EXCEPT !.entries = e] ELSE runtime
  BY <1>4 DEF V!Update
<1> QED
  BY <1>1, <1>3, <1>4, <1>5

LEMMA VaultStep == VaultInv /\ [V!Next]_vaultVars => VaultInv'
<1> SUFFICES ASSUME VaultInv, [V!Next]_vaultVars PROVE VaultInv'
  OBVIOUS
<1> USE DEF VaultInv, V!TypeOK, V!OpenIsCurrent, V!SavedStays
<1>1. CASE UNCHANGED vaultVars
  BY <1>1 DEF vaultVars, V!Present
<1>2. CASE V!Initialize
  <2>1. \A a \in Accounts : confirmed[a] = None
    BY <1>2 DEF V!Initialize, V!NoFile, V!NoEntries
  <2>2. V!NoEntries \in V!Entries
    BY DEF V!NoEntries, V!Entries
  <2> QED
    BY <1>2, <2>1, <2>2, ConnectionsAssumption
    DEF V!Initialize, V!Gate, V!NoFile, V!Written, V!SyncIndex, V!VaultAssumption
<1>3. CASE V!Unlock
  BY <1>3 DEF V!Unlock, V!Gate
<1>4. CASE V!UnlockWithSensor
  BY <1>4, ConnectionsAssumption DEF V!UnlockWithSensor, V!Gate, V!VaultAssumption
<1>5. CASE V!Opened
  BY <1>5, ConnectionsAssumption DEF V!Opened, V!SyncIndex, V!Closed, V!Present, V!VaultAssumption, V!NoEntries, V!Entries
<1>6. CASE V!Reset
  BY <1>6, ConnectionsAssumption
  DEF V!Reset, V!Gate, V!Closed, V!NoFile, V!NoEntries, V!Entries, V!VaultAssumption
<1>7. CASE V!UseSensor
  BY <1>7, ConnectionsAssumption DEF V!UseSensor, V!VaultAssumption
<1>8. CASE V!Restart
  BY <1>8, ConnectionsAssumption DEF V!Restart, V!Closed, V!NoEntries, V!Entries, V!VaultAssumption
<1>9. ASSUME NEW a \in Accounts, V!ClearPassword(a) PROVE VaultInv'
  <2>1. [runtime.entries EXCEPT ![a] = None] \in V!Entries
    BY DEF V!Entries
  <2>2. CASE runtime.entries[a] = None
    BY <1>9, <2>2 DEF V!ClearPassword, V!Entries, V!SyncIndex
  <2>3. CASE runtime.entries[a] # None
    BY <1>9, <2>1, <2>3, UpdateKeeps DEF V!ClearPassword, V!Entries, V!SyncIndex
  <2> QED
    BY <2>2, <2>3
<1>10. ASSUME NEW a \in Accounts, NEW s \in Secrets, V!SetPassword(a, s) PROVE VaultInv'
  <2>1. [runtime.entries EXCEPT ![a] = s] \in V!Entries
    BY DEF V!Entries
  <2> QED
    BY <1>10, <2>1, UpdateKeeps DEF V!SetPassword, V!Entries, V!SyncIndex
<1> QED
  BY <1>1, <1>2, <1>3, <1>4, <1>5, <1>6, <1>7, <1>8, <1>9, <1>10 DEF V!Next

LEMMA VaultActs == [ConnectionsNext]_connectionVars => [V!Next]_vaultVars
  BY DEF ConnectionsNext, connectionVars, Rest

\* What is open is what is in the file, and what was saved stays there, through
\* failed writes, restarts and other vaults, for any accounts and secrets
\* (credentials.rs).
THEOREM OpenIsCurrentAlways == ConnectionsSpec => []OpenIsCurrent
<1>1. ConnectionsInit => VaultInv
  BY VaultInit DEF ConnectionsInit
<1>2. VaultInv /\ [ConnectionsNext]_connectionVars => VaultInv'
  BY VaultStep, VaultActs
<1>3. VaultInv => OpenIsCurrent
  BY DEF VaultInv, OpenIsCurrent
<1> QED
  BY <1>1, <1>2, <1>3, PTL DEF ConnectionsSpec

-----------------------------------------------------------------------------
(* Managed keys.                                                           *)

IsCommand(c) == c = [at |-> c.at, key |-> c.key, previous |-> c.previous]
Made(k) == k \in Nat /\ k <= keysMade

\* The keys of the profile are none of those of the manager.
KeysApart ==
  /\ keysMade \in Nat
  /\ IsCommand(panel) /\ IsCommand(manager)
  /\ Made(own) /\ Made(info) /\ Made(panel.key) /\ Made(panel.previous) /\ Made(manager.key)
  /\ \A k \in ring : Made(k) /\ k \notin {0, own, panel.key}
  /\ manager.at # "idle" => manager.key # 0
  /\ manager.key # 0 => manager.key \notin {own, panel.key}

\* What is about to replace the file has the key that signs in.
KeysInPlace ==
  /\ panel.at \in {"install", "verify", "store", "clean up"} => own # panel.key
  /\ panel.at \in {"install", "verify", "store"} => panel.key # panel.previous
  /\ panel.at = "store" => panel.key \in authorized
  /\ panel.at = "retire" => own = panel.key
  /\ panel.at \in {"clean up", "retire"} /\ own \in authorized => own \in kept

ListInv ==
  /\ ring \subseteq ringVault \cup erased
  /\ manager.at = "list" => manager.key \in ringVault \ ring

KeysInv == KeysApart /\ KeysInPlace /\ ListInv

LEMMA KeysInit == K!Init => KeysInv
BY DEF K!Init, K!Idle, KeysInv, KeysApart, KeysInPlace, ListInv, IsCommand, Made

LEMMA KeysStep == KeysInv /\ [K!Next]_keyVars => KeysInv'
<1> SUFFICES ASSUME KeysInv, [K!Next]_keyVars PROVE KeysInv'
  OBVIOUS
<1> USE DEF KeysInv, K!Server, K!Ring, K!Idle, K!Panel, K!Manager
<1>1. CASE UNCHANGED keyVars
  <2>1. KeysApart'
    BY <1>1 DEF keyVars, KeysApart, IsCommand, Made
  <2>2. KeysInPlace'
    BY <1>1 DEF keyVars, KeysApart, IsCommand, KeysInPlace, Made
  <2>3. ListInv'
    BY <1>1 DEF keyVars, KeysApart, IsCommand, ListInv, Made
  <2> QED
    BY <2>1, <2>2, <2>3
<1>2. CASE K!PanelFails
  <2>1. KeysApart'
    BY <1>2 DEF K!PanelFails, KeysApart, IsCommand, Made
  <2>2. KeysInPlace'
    BY <1>2 DEF K!PanelFails, KeysApart, IsCommand, KeysInPlace, Made
  <2>3. ListInv'
    BY <1>2 DEF K!PanelFails, KeysApart, IsCommand, ListInv, Made
  <2> QED
    BY <2>1, <2>2, <2>3
<1>3. CASE K!SetUp
  <2>1. KeysApart'
    BY <1>3 DEF K!SetUp, KeysApart, IsCommand, Made
  <2>2. KeysInPlace'
    BY <1>3 DEF K!SetUp, KeysApart, IsCommand, KeysInPlace, Made
  <2>3. ListInv'
    BY <1>3 DEF K!SetUp, KeysApart, IsCommand, ListInv, Made
  <2> QED
    BY <2>1, <2>2, <2>3
<1>4. CASE K!Install
  <2>1. KeysApart'
    BY <1>4 DEF K!Install, KeysApart, IsCommand, Made
  <2>2. KeysInPlace'
    <3>1. CASE panel' = K!Idle
      BY <1>4, <3>1 DEF K!Install, KeysInPlace
    <3>2. CASE panel' = [panel EXCEPT !.at = "verify"]
      <4>1. panel'.at = "verify" /\ panel'.key = panel.key /\ panel'.previous = panel.previous
        BY <3>2 DEF KeysApart, IsCommand
      <4> QED
        BY <1>4, <4>1 DEF K!Install, KeysInPlace
    <3> QED
      BY <1>4, <3>1, <3>2 DEF K!Install
  <2>3. ListInv'
    BY <1>4 DEF K!Install, ListInv
  <2> QED
    BY <2>1, <2>2, <2>3
<1>5. CASE K!Verify
  <2>1. KeysApart'
    BY <1>5 DEF K!Verify, KeysApart, IsCommand, Made
  <2>2. KeysInPlace'
    BY <1>5 DEF K!Verify, KeysApart, IsCommand, KeysInPlace, Made
  <2>3. ListInv'
    BY <1>5 DEF K!Verify, KeysApart, IsCommand, ListInv, Made
  <2> QED
    BY <2>1, <2>2, <2>3
<1>6. CASE K!Store
  <2>1. KeysApart'
    BY <1>6 DEF K!Store, KeysApart, IsCommand, Made
  <2>2. KeysInPlace'
    BY <1>6 DEF K!Store, KeysApart, IsCommand, KeysInPlace, Made
  <2>3. ListInv'
    BY <1>6 DEF K!Store, KeysApart, IsCommand, ListInv, Made
  <2> QED
    BY <2>1, <2>2, <2>3
<1>7. CASE K!CleansUp
  <2>1. panel' = K!Idle /\ UNCHANGED <<own, info, ring, assigned, ringVault, keysMade, manager, erased>>
    <3>1. CASE K!Replaces("idle")
      BY <3>1 DEF K!Replaces
    <3>2. CASE ~K!Replaces("idle")
      BY <1>7, <3>2 DEF K!CleansUp
    <3> QED
      BY <3>1, <3>2
  <2>2. KeysApart'
    BY <2>1 DEF KeysApart, IsCommand, Made
  <2>3. KeysInPlace'
    BY <2>1 DEF KeysInPlace
  <2>4. ListInv'
    BY <2>1 DEF ListInv
  <2> QED
    BY <2>2, <2>3, <2>4
<1>8. CASE K!Retire
  <2>1. KeysApart'
    BY <1>8 DEF K!Retire, K!Replaces, KeysApart, IsCommand, Made
  <2>2. KeysInPlace'
    BY <1>8 DEF K!Retire, K!Replaces, KeysApart, IsCommand, KeysInPlace, Made
  <2>3. ListInv'
    BY <1>8 DEF K!Retire, K!Replaces, KeysApart, IsCommand, ListInv, Made
  <2> QED
    BY <2>1, <2>2, <2>3
<1>9. CASE K!Record
  <2>1. KeysApart'
    BY <1>9 DEF K!Record, KeysApart, IsCommand, Made
  <2>2. KeysInPlace'
    BY <1>9 DEF K!Record, KeysApart, IsCommand, KeysInPlace, Made
  <2>3. ListInv'
    BY <1>9 DEF K!Record, KeysApart, IsCommand, ListInv, Made
  <2> QED
    BY <2>1, <2>2, <2>3
<1>10. CASE K!Remove
  <2>1. KeysApart'
    BY <1>10 DEF K!Remove, KeysApart, IsCommand, Made
  <2>2. KeysInPlace'
    <3>1. panel'.at = "revoke" \/ panel'.at = "clear"
      BY <1>10 DEF K!Remove
    <3> QED
      BY <1>10, <3>1 DEF K!Remove, KeysApart, IsCommand, KeysInPlace, Made
  <2>3. ListInv'
    BY <1>10 DEF K!Remove, KeysApart, IsCommand, ListInv, Made
  <2> QED
    BY <2>1, <2>2, <2>3
<1>11. CASE K!Revoke
  <2>1. KeysApart'
    BY <1>11 DEF K!Revoke, K!Replaces, KeysApart, IsCommand, Made
  <2>2. KeysInPlace'
    BY <1>11 DEF K!Revoke, K!Replaces, KeysApart, IsCommand, KeysInPlace, Made
  <2>3. ListInv'
    BY <1>11 DEF K!Revoke, K!Replaces, KeysApart, IsCommand, ListInv, Made
  <2> QED
    BY <2>1, <2>2, <2>3
<1>12. CASE K!Clear
  <2>1. KeysApart'
    BY <1>12 DEF K!Clear, KeysApart, IsCommand, Made
  <2>2. KeysInPlace'
    BY <1>12 DEF K!Clear, KeysApart, IsCommand, KeysInPlace, Made
  <2>3. ListInv'
    BY <1>12 DEF K!Clear, KeysApart, IsCommand, ListInv, Made
  <2> QED
    BY <2>1, <2>2, <2>3
<1>13. CASE K!Forget
  <2>1. KeysApart'
    BY <1>13 DEF K!Forget, KeysApart, IsCommand, Made
  <2>2. KeysInPlace'
    BY <1>13 DEF K!Forget, KeysApart, IsCommand, KeysInPlace, Made
  <2>3. ListInv'
    BY <1>13 DEF K!Forget, KeysApart, IsCommand, ListInv, Made
  <2> QED
    BY <2>1, <2>2, <2>3
<1>14. CASE K!Generate
  <2>1. KeysApart'
    BY <1>14 DEF K!Generate, KeysApart, IsCommand, Made
  <2>2. KeysInPlace'
    BY <1>14 DEF K!Generate, KeysApart, IsCommand, KeysInPlace, Made
  <2>3. ListInv'
    BY <1>14 DEF K!Generate, KeysApart, IsCommand, ListInv, Made
  <2> QED
    BY <2>1, <2>2, <2>3
<1>15. CASE K!Lists
  <2>1. KeysApart'
    BY <1>15 DEF K!Lists, KeysApart, IsCommand, Made
  <2>2. KeysInPlace'
    BY <1>15 DEF K!Lists, KeysApart, IsCommand, KeysInPlace, Made
  <2>3. ListInv'
    BY <1>15 DEF K!Lists, KeysApart, IsCommand, ListInv, Made
  <2> QED
    BY <2>1, <2>2, <2>3
<1>16. CASE K!InstallsKey
  <2>1. KeysApart'
    BY <1>16 DEF K!InstallsKey, KeysApart, IsCommand, Made
  <2>2. KeysInPlace'
    BY <1>16 DEF K!InstallsKey, KeysApart, IsCommand, KeysInPlace, Made
  <2>3. ListInv'
    BY <1>16 DEF K!InstallsKey, KeysApart, IsCommand, ListInv, Made
  <2> QED
    BY <2>1, <2>2, <2>3
<1>17. CASE K!VerifiesKey
  <2>1. KeysApart'
    BY <1>17 DEF K!VerifiesKey, KeysApart, IsCommand, Made
  <2>2. KeysInPlace'
    BY <1>17 DEF K!VerifiesKey, KeysApart, IsCommand, KeysInPlace, Made
  <2>3. ListInv'
    BY <1>17 DEF K!VerifiesKey, KeysApart, IsCommand, ListInv, Made
  <2> QED
    BY <2>1, <2>2, <2>3
<1>18. CASE K!AssignsKey
  <2>1. KeysApart'
    BY <1>18 DEF K!AssignsKey, KeysApart, IsCommand, Made
  <2>2. KeysInPlace'
    BY <1>18 DEF K!AssignsKey, KeysApart, IsCommand, KeysInPlace, Made
  <2>3. ListInv'
    BY <1>18 DEF K!AssignsKey, KeysApart, IsCommand, ListInv, Made
  <2> QED
    BY <2>1, <2>2, <2>3
<1>19. CASE K!ManagerFails
  <2>1. KeysApart'
    BY <1>19 DEF K!ManagerFails, KeysApart, IsCommand, Made
  <2>2. KeysInPlace'
    BY <1>19 DEF K!ManagerFails, KeysApart, IsCommand, KeysInPlace, Made
  <2>3. ListInv'
    BY <1>19 DEF K!ManagerFails, KeysApart, IsCommand, ListInv, Made
  <2> QED
    BY <2>1, <2>2, <2>3
<1>20. ASSUME NEW k \in K!Keys, K!DeleteKey(k) PROVE KeysInv'
  <2>1. KeysApart'
    BY <1>20 DEF K!DeleteKey, KeysApart, IsCommand, Made
  <2>2. KeysInPlace'
    BY <1>20 DEF K!DeleteKey, KeysApart, IsCommand, KeysInPlace, Made
  <2>3. ListInv'
    BY <1>20 DEF K!DeleteKey, KeysApart, IsCommand, ListInv, Made
  <2> QED
    BY <2>1, <2>2, <2>3
<1>21. ASSUME NEW k \in K!Keys, K!Assign(k) PROVE KeysInv'
  <2>1. KeysApart'
    BY <1>21 DEF K!Assign, KeysApart, IsCommand, Made
  <2>2. KeysInPlace'
    BY <1>21 DEF K!Assign, KeysApart, IsCommand, KeysInPlace, Made
  <2>3. ListInv'
    BY <1>21 DEF K!Assign, KeysApart, IsCommand, ListInv, Made
  <2> QED
    BY <2>1, <2>2, <2>3
<1>22. ASSUME NEW k \in K!Keys, K!InstallBegins(k) PROVE KeysInv'
  <2>1. KeysApart'
    BY <1>22 DEF K!InstallBegins, KeysApart, IsCommand, Made
  <2>2. KeysInPlace'
    BY <1>22 DEF K!InstallBegins, KeysApart, IsCommand, KeysInPlace, Made
  <2>3. ListInv'
    BY <1>22 DEF K!InstallBegins, KeysApart, IsCommand, ListInv, Made
  <2> QED
    BY <2>1, <2>2, <2>3
<1>23. CASE K!Ends
  <2>1. KeysApart'
    BY <1>23 DEF K!Ends, KeysApart, IsCommand, Made
  <2>2. KeysInPlace'
    BY <1>23 DEF K!Ends, KeysApart, IsCommand, KeysInPlace, Made
  <2>3. ListInv'
    BY <1>23 DEF K!Ends, KeysApart, IsCommand, ListInv, Made
  <2> QED
    BY <2>1, <2>2, <2>3
<1>24. CASE K!ListGoes
  <2>1. KeysApart'
    BY <1>24 DEF K!ListGoes, KeysApart, IsCommand, Made
  <2>2. KeysInPlace'
    BY <1>24 DEF K!ListGoes, KeysInPlace
  <2>3. ListInv'
    BY <1>24 DEF K!ListGoes, ListInv
  <2> QED
    BY <2>1, <2>2, <2>3
<1>25. CASE K!ResetVault
  <2>1. KeysApart'
    BY <1>25 DEF K!ResetVault, KeysApart, IsCommand, Made
  <2>2. KeysInPlace'
    BY <1>25 DEF K!ResetVault, KeysInPlace
  <2>3. ListInv'
    BY <1>25 DEF K!ResetVault, ListInv
  <2> QED
    BY <2>1, <2>2, <2>3
<1> QED
  BY <1>1, <1>2, <1>3, <1>4, <1>5, <1>6, <1>7, <1>8, <1>9, <1>10, <1>11, <1>12, <1>13, <1>14, <1>15, <1>16, <1>17, <1>18, <1>19, <1>20, <1>21, <1>22, <1>23, <1>24, <1>25
  DEF K!Next

LEMMA KeysActs == [ConnectionsNext]_connectionVars => [K!Next]_keyVars
  BY DEF ConnectionsNext, connectionVars, Rest

\* A step takes from the profile a key that signs in only when the key is removed or
\* the vault reset.
LEMMA KeyStaysInPlace ==
  KeysInv /\ [K!Next]_keyVars =>
    [K!SignsIn /\ panel.at \notin {"revoke", "clear"} /\ own \notin erased' => K!SignsIn']_(K!vars)
<1> SUFFICES ASSUME KeysInv, K!Next, K!SignsIn, panel.at \notin {"revoke", "clear"},
                    own \notin erased'
             PROVE  K!SignsIn'
  BY DEF K!vars, keyVars
<1> USE DEF KeysInv, KeysInPlace, K!SignsIn, K!Server, K!Ring
<1>1. CASE K!Install
  BY <1>1 DEF K!Install
<1>2. CASE K!Store
  BY <1>2 DEF K!Store
<1>3. CASE K!CleansUp
  <2>1. own' = own /\ authorized' \in {authorized, kept}
    BY <1>3 DEF K!CleansUp, K!Replaces
  <2>2. panel.at = "clean up"
    BY <1>3 DEF K!CleansUp
  <2> QED
    BY <2>1, <2>2
<1>4. CASE K!Retire
  BY <1>4 DEF K!Retire, K!Replaces
<1>5. CASE K!Revoke \/ K!Clear
  BY <1>5 DEF K!Revoke, K!Clear
<1>6. CASE K!InstallsKey
  BY <1>6 DEF K!InstallsKey
<1>7. CASE K!ResetVault
  <2>1. UNCHANGED <<authorized, own>>
    BY <1>7 DEF K!ResetVault
  <2> QED
    BY <2>1
<1>8. ASSUME ~(K!Install \/ K!Store \/ K!CleansUp \/ K!Retire \/ K!Revoke \/ K!Clear \/ K!InstallsKey
               \/ K!ResetVault)
      PROVE  K!SignsIn'
  <2>1. UNCHANGED <<authorized, own>>
    BY <1>8
    DEF K!Next, K!PanelFails, K!SetUp, K!Verify, K!Record, K!Remove, K!Forget, K!Generate, K!Lists,
        K!VerifiesKey, K!AssignsKey, K!ManagerFails, K!DeleteKey, K!Assign, K!InstallBegins, K!Ends, K!ListGoes
  <2> QED
    BY <2>1
<1> HIDE DEF K!SignsIn
<1> QED
  BY <1>1, <1>2, <1>3, <1>4, <1>5, <1>6, <1>7, <1>8

\* The manager lists no key whose private half is gone but those that went with a vault
\* that was reset, and only removing its key or resetting the vault keeps a profile from
\* signing in with it, for any number of keys (managed_key.rs, keyring.rs).
THEOREM ListedHasPrivateAlways == ConnectionsSpec => ListedHasPrivate
<1>1. ConnectionsInit => KeysInv
  BY KeysInit DEF ConnectionsInit
<1>2. KeysInv /\ [ConnectionsNext]_connectionVars => KeysInv'
  BY KeysStep, KeysActs
<1>3. KeysInv => (part = "keys" => K!ListedHasPrivate)
  BY DEF KeysInv, ListInv, K!ListedHasPrivate
<1>4. KeysInv /\ [ConnectionsNext]_connectionVars =>
        [K!SignsIn /\ panel.at \notin {"revoke", "clear"} /\ own \notin erased' => K!SignsIn']_(K!vars)
  BY KeyStaysInPlace, KeysActs
<1> QED
  BY <1>1, <1>2, <1>3, <1>4, PTL DEF ConnectionsSpec, ListedHasPrivate, K!KeyKeepsWorking

-----------------------------------------------------------------------------
(* Profiles and instances.                                                 *)

\* A set of numbers has a least one.
LEMMA LeastExists ==
  ASSUME NEW N, N \subseteq Nat, N # {}
  PROVE  \E n \in N : \A m \in N : n <= m
<1> DEFINE R == OpToRel(<, Nat)
<1>1. PICK n \in N : \A m \in N : ~(<<m, n>> \in R)
  <2>1. IsWellFoundedOn(R, Nat)
    BY NatLessThanWellFounded
  <2> HIDE DEF R
  <2> QED
    BY <2>1, WFMin
<1>2. \A m \in N : ~(m < n)
  BY <1>1 DEF OpToRel
<1>3. \A m \in N : n <= m
  BY <1>2
<1> QED
  BY <1>3

Walk(all, p, most, f) ==
  [n \in 0 .. most |-> P!Jump(all, IF n = 0 THEN p ELSE f[n - 1])]

\* The walk of ensure_no_jump_loop is defined, and goes from jump to jump.
LEMMA WalkExists ==
  ASSUME NEW all, NEW p, NEW most \in Nat
  PROVE  \E f : f = Walk(all, p, most, f)
<1> DEFINE Walks(m) ==
      \E f : f = [n \in 0 .. m |-> P!Jump(all, IF n = 0 THEN p ELSE f[n - 1])]
<1> DEFINE N == {m \in 0 .. most : ~Walks(m)}
<1>1. Walks(0)
  <2> DEFINE f == [n \in 0 .. 0 |-> P!Jump(all, p)]
  <2>1. f = [n \in 0 .. 0 |-> P!Jump(all, IF n = 0 THEN p ELSE f[n - 1])]
    OBVIOUS
  <2> QED
    BY <2>1
<1>2. ASSUME NEW m \in Nat, Walks(m) PROVE Walks(m + 1)
  <2>1. PICK f : f = [n \in 0 .. m |-> P!Jump(all, IF n = 0 THEN p ELSE f[n - 1])]
    BY <1>2
  <2> DEFINE g == [n \in 0 .. m + 1 |-> IF n <= m THEN f[n] ELSE P!Jump(all, f[m])]
  <2>2. ASSUME NEW n \in 0 .. m + 1
        PROVE  g[n] = P!Jump(all, IF n = 0 THEN p ELSE g[n - 1])
    <3>1. CASE n = 0
      BY <2>1, <3>1
    <3>2. CASE n \in 1 .. m
      <4>1. n - 1 \in 0 .. m /\ n \in 0 .. m /\ n # 0
        BY <3>2
      <4> QED
        BY <2>1, <4>1
    <3>3. CASE n = m + 1
      <4>1. n - 1 = m /\ n # 0 /\ ~(n <= m) /\ m \in 0 .. m + 1
        BY <3>3
      <4> QED
        BY <4>1
    <3> QED
      BY <3>1, <3>2, <3>3
  <2>3. g = [n \in 0 .. m + 1 |-> P!Jump(all, IF n = 0 THEN p ELSE g[n - 1])]
    BY <2>2
  <2> QED
    BY <2>3
<1> HIDE DEF Walks
<1>3. CASE N # {}
  <2>1. PICK m \in N : \A k \in N : m <= k
    <3>1. N \subseteq Nat
      OBVIOUS
    <3> HIDE DEF N
    <3> QED
      BY <1>3, <3>1, LeastExists
  <2>2. m # 0 /\ m \in Nat
    BY <1>1
  <2>3. m - 1 \in Nat /\ m - 1 \in 0 .. most /\ ~(m <= m - 1) /\ m = (m - 1) + 1
    BY <2>2
  <2>4. Walks(m - 1)
    BY <2>1, <2>3
  <2> QED
    BY <1>2, <2>3, <2>4
<1>4. CASE N = {}
  <2>1. Walks(most)
    BY <1>4
  <2> QED
    BY <2>1 DEF Walks, Walk
<1> QED
  BY <1>3, <1>4

\* A walk that starts in a set which every jump of it stays in does not end.
LEMMA WalkStays ==
  ASSUME NEW all, NEW W, NEW p \in W, \A q \in W : q # None /\ all[q].jump \in W,
         NEW most \in Nat, NEW f,
         f = Walk(all, p, most, f)
  PROVE  f[most] \in W
<1> DEFINE N == {m \in 0 .. most : f[m] \notin W}
<1> USE DEF Walk
<1>1. \A q \in W : P!Jump(all, q) \in W
  BY DEF P!Jump
<1>2. ASSUME N # {} PROVE FALSE
  <2>1. PICK m \in N : \A k \in N : m <= k
    <3>1. N \subseteq Nat
      OBVIOUS
    <3> HIDE DEF N
    <3> QED
      BY <1>2, <3>1, LeastExists
  <2>2. CASE m = 0
    BY <1>1, <2>1, <2>2
  <2>3. CASE m # 0
    <3>1. m - 1 \in 0 .. most /\ ~(m <= m - 1)
      BY <2>3
    <3>2. f[m - 1] \in W
      BY <2>1, <3>1
    <3>3. f[m] = P!Jump(all, f[m - 1])
      BY <2>3
    <3> QED
      BY <1>1, <2>1, <3>2, <3>3
  <2> QED
    BY <2>2, <2>3
<1> QED
  BY <1>2

\* A profile of a loop leads back.
LEMMA LoopLeadsBack ==
  ASSUME IsFiniteSet(Profiles), None \notin Profiles, NEW all,
         NEW W \in SUBSET Profiles, NEW p \in W, \A q \in W : all[q].jump \in W
  PROVE  P!LeadsBack(all, p)
<1> DEFINE saved == {q \in Profiles : all[q] # P!Absent}
           most == 1 + P!Cardinality(saved)
<1>1. most \in Nat
  <2>1. Cardinality(saved) \in Nat
    BY FS_Subset, FS_CardinalityType
  <2>2. P!Cardinality(saved) = Cardinality(saved)
    BY Zenon DEF P!Cardinality, Cardinality
  <2> QED
    BY <2>1, <2>2
<1> DEFINE f == CHOOSE after : after = Walk(all, p, most, after)
<1>2. f = Walk(all, p, most, f)
  <2> HIDE DEF most
  <2> QED
    BY <1>1, WalkExists
<1>3. f[most] \in W
  <2> HIDE DEF most, f
  <2>1. \A q \in W : q # None /\ all[q].jump \in W
    OBVIOUS
  <2> QED
    BY <1>1, <1>2, <2>1, WalkStays
<1>4. f[most] # None
  BY <1>3
<1>5. P!LeadsBack(all, p) <=> (f[most] # None \/ \E n \in 0 .. most : f[n] = p)
  BY Zenon DEF P!LeadsBack, Walk
<1> QED
  BY <1>4, <1>5

\* The profiles as SavesProfile and the others leave them.
ProfilesInv ==
  /\ profiles \in [Profiles -> P!Profile \cup {P!Absent}]
  /\ rules \in [Profiles -> RuleSets \cup {None}]
  /\ P!RulesAreKept /\ P!LoopsAreImported

LEMMA ProfilesInit ==
  P!Init => ProfilesInv
<1> SUFFICES ASSUME P!Init PROVE ProfilesInv
  OBVIOUS
<1> USE DEF P!Init
<1>1. None \notin Profiles
  BY ConnectionsAssumption DEF P!RegistryAssumption
<1>2. P!RulesAreKept
  BY DEF P!RulesAreKept, P!Saved
<1>3. P!LoopsAreImported
  BY <1>1 DEF P!LoopsAreImported, P!Loop, P!Absent
<1> QED
  BY <1>2, <1>3 DEF ProfilesInv

\* A change of one profile closes no loop that leaves it out.
LEMMA NoNewLoop ==
  ASSUME ProfilesInv, NEW p \in Profiles, NEW new,
         profiles' = [profiles EXCEPT ![p] = new], imported' = imported,
         NEW W \in SUBSET Profiles, P!Loop(W)', p \notin W
  PROVE  imported'
<1>1. \A q \in W : profiles'[q] = profiles[q]
  BY DEF ProfilesInv
<1>2. P!Loop(W)
  BY <1>1 DEF P!Loop
<1> QED
  BY <1>2 DEF ProfilesInv, P!LoopsAreImported

\* What is saved of a draft is a profile.
LEMMA MergedIsProfile ==
  ASSUME NEW p \in Profiles, NEW old \in P!Profile \cup {P!Absent},
         NEW draft \in P!Profile
  PROVE  LET new == P!Merged(old, P!Normalized(p, draft))
         IN  /\ new \in P!Profile
             /\ old # P!Absent => new.forwards = old.forwards
             /\ old = P!Absent => new.forwards = draft.forwards
<1>1. P!Normalized(p, draft) \in P!Profile
      /\ P!Normalized(p, draft).forwards = draft.forwards
  BY DEF P!Normalized, P!Profile
<1>2. CASE old = P!Absent
  BY <1>1, <1>2 DEF P!Merged
<1>3. CASE old # P!Absent
  BY <1>1, <1>3 DEF P!Merged, P!Profile
<1> QED
  BY <1>2, <1>3

LEMMA ProfileIsPresent ==
  ASSUME NEW new \in P!Profile PROVE new # P!Absent
BY ConnectionsAssumption DEF P!RegistryAssumption, P!Profile, P!Absent

\* One profile is written, with rules that are recorded.
LEMMA RulesStay ==
  ASSUME ProfilesInv, NEW p \in Profiles,
         NEW new \in P!Profile \cup {P!Absent}, NEW r \in RuleSets \cup {None},
         profiles' = [profiles EXCEPT ![p] = new], rules' = [rules EXCEPT ![p] = r],
         new # P!Absent => new.forwards = r
  PROVE  /\ profiles' \in [Profiles -> P!Profile \cup {P!Absent}]
         /\ rules' \in [Profiles -> RuleSets \cup {None}]
         /\ P!RulesAreKept'
<1>1. profiles' \in [Profiles -> P!Profile \cup {P!Absent}]
  BY DEF ProfilesInv
<1>2. rules' \in [Profiles -> RuleSets \cup {None}]
  BY DEF ProfilesInv
<1>3. ASSUME NEW q \in Profiles, profiles'[q] # P!Absent
      PROVE  profiles'[q].forwards = rules'[q]
  BY <1>3 DEF ProfilesInv, P!RulesAreKept, P!Saved
<1> QED
  BY <1>1, <1>2, <1>3 DEF P!RulesAreKept, P!Saved

LEMMA ProfilesStep ==
  ProfilesInv /\ [P!Next]_registryVars => ProfilesInv'
<1> SUFFICES ASSUME ProfilesInv, [P!Next]_registryVars PROVE ProfilesInv'
  OBVIOUS
<1>1. None \notin Profiles /\ None \notin RuleSets /\ IsFiniteSet(Profiles)
  <2>1. None \notin Profiles /\ None \notin RuleSets /\ P!IsFiniteSet(Profiles)
    BY ConnectionsAssumption DEF P!RegistryAssumption
  <2> QED
    BY <2>1, Zenon DEF P!IsFiniteSet, IsFiniteSet
<1>2. ASSUME NEW p \in Profiles, NEW draft \in P!Profile, P!SavesProfile(p, draft)
      PROVE  ProfilesInv'
  <2> DEFINE x == P!Merged(profiles[p], P!Normalized(p, draft))
             new == [profiles EXCEPT ![p] = x]
  <2>1. /\ profiles' = IF P!LeadsBack(new, p) THEN profiles ELSE new
        /\ rules' = IF p \notin P!Saved /\ profiles'[p] # P!Absent
                    THEN [rules EXCEPT ![p] = draft.forwards] ELSE rules
        /\ imported' = imported
    BY <1>2 DEF P!SavesProfile
  <2>2. profiles[p] \in P!Profile \cup {P!Absent}
    BY DEF ProfilesInv
  <2>3. /\ x \in P!Profile /\ x # P!Absent
        /\ profiles[p] # P!Absent => x.forwards = profiles[p].forwards
        /\ profiles[p] = P!Absent => x.forwards = draft.forwards
    BY <2>2, MergedIsProfile, ProfileIsPresent
  <2> HIDE DEF x
  <2>4. CASE P!LeadsBack(new, p)
    <3>1. profiles' = profiles /\ rules' = rules
      BY <2>1, <2>4 DEF P!Saved
    <3> QED
      BY <2>1, <3>1 DEF ProfilesInv, P!RulesAreKept, P!Saved, P!LoopsAreImported, P!Loop
  <2>5. CASE ~P!LeadsBack(new, p)
    <3>1. profiles' = new /\ profiles'[p] = x
      BY <2>1, <2>5 DEF ProfilesInv
    <3>2. draft.forwards \in RuleSets
      BY DEF P!Profile
    <3>3. PICK r \in RuleSets \cup {None} :
            rules' = [rules EXCEPT ![p] = r] /\ x.forwards = r
      <4>1. CASE p \in P!Saved
        <5>1. rules' = [rules EXCEPT ![p] = rules[p]] /\ rules[p] \in RuleSets \cup {None}
          BY <2>1, <4>1 DEF ProfilesInv
        <5>2. x.forwards = rules[p]
          BY <2>3, <4>1 DEF ProfilesInv, P!RulesAreKept, P!Saved
        <5> QED
          BY <5>1, <5>2
      <4>2. CASE p \notin P!Saved
        BY <2>1, <2>3, <3>1, <3>2, <4>2 DEF P!Saved
      <4> QED
        BY <4>1, <4>2
    <3>4. ASSUME NEW W \in SUBSET Profiles, P!Loop(W)' PROVE imported'
      <4>1. p \notin W
        <5>1. \A q \in W : new[q].jump \in W
          BY <3>1, <3>4 DEF P!Loop
        <5> QED
          BY <1>1, <2>5, <5>1, LoopLeadsBack
      <4> QED
        BY <2>1, <3>1, <3>4, <4>1, NoNewLoop
    <3>5. /\ profiles' \in [Profiles -> P!Profile \cup {P!Absent}]
          /\ rules' \in [Profiles -> RuleSets \cup {None}]
          /\ P!RulesAreKept'
      BY <2>3, <3>1, <3>3, RulesStay
    <3> QED
      BY <3>4, <3>5 DEF ProfilesInv, P!LoopsAreImported
  <2> QED
    BY <2>4, <2>5
<1>3. ASSUME NEW p \in Profiles, NEW draft \in P!Profile, P!Imports(p, draft)
      PROVE  ProfilesInv'
  <2> DEFINE x == P!Merged(profiles[p], P!Normalized(p, draft))
  <2>1. /\ profiles' = [profiles EXCEPT ![p] = x]
        /\ rules' = IF p \notin P!Saved THEN [rules EXCEPT ![p] = draft.forwards] ELSE rules
        /\ imported'
    BY <1>3 DEF P!Imports
  <2>2. profiles[p] \in P!Profile \cup {P!Absent} /\ draft.forwards \in RuleSets
    BY DEF ProfilesInv, P!Profile
  <2>3. /\ x \in P!Profile
        /\ profiles[p] # P!Absent => x.forwards = profiles[p].forwards
        /\ profiles[p] = P!Absent => x.forwards = draft.forwards
    BY <2>2, MergedIsProfile
  <2> HIDE DEF x
  <2>4. PICK r \in RuleSets \cup {None} :
          rules' = [rules EXCEPT ![p] = r] /\ x.forwards = r
    <3>1. CASE p \in P!Saved
      <4>1. rules' = [rules EXCEPT ![p] = rules[p]] /\ rules[p] \in RuleSets \cup {None}
        BY <2>1, <3>1 DEF ProfilesInv
      <4>2. x.forwards = rules[p]
        BY <2>3, <3>1 DEF ProfilesInv, P!RulesAreKept, P!Saved
      <4> QED
        BY <4>1, <4>2
    <3>2. CASE p \notin P!Saved
      BY <2>1, <2>2, <2>3, <3>2 DEF P!Saved
    <3> QED
      BY <3>1, <3>2
  <2>5. /\ profiles' \in [Profiles -> P!Profile \cup {P!Absent}]
        /\ rules' \in [Profiles -> RuleSets \cup {None}]
        /\ P!RulesAreKept'
    BY <2>1, <2>3, <2>4, RulesStay
  <2> QED
    BY <2>1, <2>5 DEF ProfilesInv, P!LoopsAreImported
<1>4. ASSUME NEW p \in Profiles, NEW r \in RuleSets, P!SavesForwards(p, r)
      PROVE  ProfilesInv'
  <2> DEFINE x == [profiles[p] EXCEPT !.forwards = r]
  <2>1. /\ profiles' = [profiles EXCEPT ![p] = x]
        /\ rules' = [rules EXCEPT ![p] = r] /\ imported' = imported
        /\ profiles[p] \in P!Profile
    BY <1>4 DEF P!SavesForwards, P!Saved, ProfilesInv
  <2>2. x \in P!Profile /\ x.forwards = r /\ x.jump = profiles[p].jump
    BY <2>1 DEF P!Profile
  <2> HIDE DEF x
  <2>3. /\ profiles' \in [Profiles -> P!Profile \cup {P!Absent}]
        /\ rules' \in [Profiles -> RuleSets \cup {None}]
        /\ P!RulesAreKept'
    BY <2>1, <2>2, RulesStay
  <2>4. \A q \in Profiles : profiles'[q].jump = profiles[q].jump
    BY <2>1, <2>2 DEF ProfilesInv
  <2> QED
    BY <2>1, <2>3, <2>4 DEF ProfilesInv, P!LoopsAreImported, P!Loop
<1>5. ASSUME NEW p \in Profiles, NEW key \in BOOLEAN, P!SetsKey(p, key)
      PROVE  ProfilesInv'
  <2> DEFINE x == [profiles[p] EXCEPT !.key = key]
  <2>1. /\ profiles' = [profiles EXCEPT ![p] = x] /\ p \in P!Saved
        /\ rules' = rules /\ imported' = imported
        /\ profiles[p] \in P!Profile
    BY <1>5 DEF P!SetsKey, P!Saved, ProfilesInv
  <2>2. /\ x \in P!Profile /\ x.forwards = profiles[p].forwards
        /\ x.jump = profiles[p].jump
    BY <2>1 DEF P!Profile
  <2> HIDE DEF x
  <2>3. rules' = [rules EXCEPT ![p] = rules[p]] /\ rules[p] \in RuleSets \cup {None}
    BY <2>1 DEF ProfilesInv
  <2>4. x.forwards = rules[p]
    BY <2>1, <2>2 DEF ProfilesInv, P!RulesAreKept
  <2>5. /\ profiles' \in [Profiles -> P!Profile \cup {P!Absent}]
        /\ rules' \in [Profiles -> RuleSets \cup {None}]
        /\ P!RulesAreKept'
    BY <2>1, <2>2, <2>3, <2>4, RulesStay
  <2>6. \A q \in Profiles : profiles'[q].jump = profiles[q].jump
    BY <2>1, <2>2 DEF ProfilesInv
  <2> QED
    BY <2>1, <2>5, <2>6 DEF ProfilesInv, P!LoopsAreImported, P!Loop
<1>6. ASSUME NEW p \in Profiles, P!DeletesProfile(p)
      PROVE  ProfilesInv'
  <2>1. /\ profiles' = [profiles EXCEPT ![p] = P!Absent]
        /\ rules' = [rules EXCEPT ![p] = None] /\ imported' = imported
    BY <1>6 DEF P!DeletesProfile
  <2>2. /\ profiles' \in [Profiles -> P!Profile \cup {P!Absent}]
        /\ rules' \in [Profiles -> RuleSets \cup {None}]
        /\ P!RulesAreKept'
    BY <2>1, RulesStay
  <2>3. ASSUME NEW W \in SUBSET Profiles, P!Loop(W)' PROVE imported'
    <3>1. p \notin W
      <4>1. profiles'[p].jump = None
        BY <2>1 DEF P!Absent, ProfilesInv
      <4> QED
        BY <1>1, <2>3, <4>1 DEF P!Loop
    <3> QED
      BY <2>1, <2>3, <3>1, NoNewLoop
  <2> QED
    BY <2>2, <2>3 DEF ProfilesInv, P!LoopsAreImported
<1>7. CASE UNCHANGED registryVars
  BY <1>7 DEF registryVars, ProfilesInv, P!RulesAreKept, P!Saved, P!LoopsAreImported, P!Loop
<1> QED
  BY <1>2, <1>3, <1>4, <1>5, <1>6, <1>7 DEF P!Next

\* A list that holds no instance twice.
Distinct(list) ==
  \A i, j \in Instances :
    i # j /\ list[i] # I!NotThere /\ list[j] # I!NotThere
      => ~(list[i].address = list[j].address /\ list[i].through = list[j].through)

\* No command reads or holds one that does: each change is made to a whole list.
InstancesInv ==
  /\ instances \in I!Lists /\ Distinct(instances)
  /\ DOMAIN command = Commands
  /\ \A c \in Commands : command[c].list \in I!Lists /\ Distinct(command[c].list)

LEMMA InstancesInit ==
  I!Init => InstancesInv
BY DEF I!Init, I!Idle, I!Lists, InstancesInv, Distinct

LEMMA ChangedIsDistinct ==
  ASSUME NEW list \in I!Lists, Distinct(list), NEW new \in I!Changed(list)
  PROVE  new \in I!Lists /\ Distinct(new)
<1>1. CASE \E i \in Instances : new = [list EXCEPT ![i] = I!NotThere]
  BY <1>1 DEF I!Lists, Distinct
<1>2. CASE \E i \in Instances :
             list[i] # I!NotThere /\ new = [list EXCEPT ![i].enabled = ~@]
  <2>1. PICK i \in Instances :
          list[i] # I!NotThere /\ new = [list EXCEPT ![i].enabled = ~@]
    BY <1>2
  <2>2. list[i] \in I!Instance
    BY <2>1 DEF I!Lists
  <2> DEFINE x == [list[i] EXCEPT !.enabled = ~@]
  <2>3. x \in I!Instance /\ x.address = list[i].address /\ x.through = list[i].through
    BY <2>2 DEF I!Instance
  <2>4. new = [list EXCEPT ![i] = x]
    BY <2>1
  <2> HIDE DEF x
  <2> QED
    BY <2>1, <2>3, <2>4 DEF I!Lists, Distinct
<1> QED
  BY <1>1, <1>2 DEF I!Changed

LEMMA UpsertedIsDistinct ==
  ASSUME NEW list \in I!Lists, Distinct(list), NEW i \in Instances,
         NEW new \in I!Instance
  PROVE  I!Upserted(list, i, new) \in I!Lists /\ Distinct(I!Upserted(list, i, new))
<1> DEFINE taken == \E j \in Instances \ {i} :
              list[j].address = new.address /\ list[j].through = new.through
<1>1. CASE taken
  BY <1>1 DEF I!Upserted
<1>2. CASE ~taken
  <2>1. I!Upserted(list, i, new) = [list EXCEPT ![i] = new]
    BY <1>2 DEF I!Upserted
  <2> QED
    BY <1>2, <2>1 DEF I!Lists, Distinct
<1> QED
  BY <1>1, <1>2

\* A command goes on with a list that holds none twice.
LEMMA CommandGoesOn ==
  ASSUME InstancesInv, NEW c \in Commands, NEW state, I!Now(c, state),
         state.list \in I!Lists, Distinct(state.list), instances' = instances
  PROVE  InstancesInv'
BY DEF InstancesInv, I!Now, Distinct

LEMMA InstancesStep ==
  InstancesInv /\ [I!Next]_registryVars => InstancesInv'
<1> SUFFICES ASSUME InstancesInv, [I!Next]_registryVars PROVE InstancesInv'
  OBVIOUS
<1>1. I!Idle.list \in I!Lists /\ Distinct(I!Idle.list)
  BY DEF I!Idle, I!Lists, Distinct
<1>2. ASSUME NEW c \in Commands, I!Reads(c) PROVE InstancesInv'
  <2>1. CASE \E at \in {"list", "save"} : I!Now(c, [at |-> at, list |-> instances])
    <3>1. PICK at \in {"list", "save"} : I!Now(c, [at |-> at, list |-> instances])
      BY <2>1
    <3> QED
      BY <1>2, <3>1, CommandGoesOn DEF I!Reads, InstancesInv
  <2>2. CASE \E list \in I!Changed(instances) : I!Now(c, [at |-> "write", list |-> list])
    <3>1. PICK list \in I!Changed(instances) : I!Now(c, [at |-> "write", list |-> list])
      BY <2>2
    <3>2. list \in I!Lists /\ Distinct(list)
      BY ChangedIsDistinct DEF InstancesInv
    <3> QED
      BY <1>2, <3>1, <3>2, CommandGoesOn DEF I!Reads
  <2> QED
    BY <1>2, <2>1, <2>2 DEF I!Reads
<1>3. ASSUME NEW c \in Commands, I!ShowsList(c) \/ I!FillsSlot(c) PROVE InstancesInv'
  BY <1>1, <1>3, CommandGoesOn DEF I!ShowsList, I!FillsSlot
<1>4. ASSUME NEW c \in Commands, I!Validates(c) PROVE InstancesInv'
  <2>1. PICK i \in Instances, new \in I!Instance :
          \/ I!Now(c, [at |-> "write", list |-> I!Upserted(command[c].list, i, new)])
          \/ I!Now(c, I!Idle)
    BY <1>4 DEF I!Validates
  <2>2. CASE I!Now(c, I!Idle)
    BY <1>1, <1>4, <2>2, CommandGoesOn DEF I!Validates
  <2>3. CASE I!Now(c, [at |-> "write", list |-> I!Upserted(command[c].list, i, new)])
    <3>1. command[c].list \in I!Lists /\ Distinct(command[c].list)
      BY DEF InstancesInv
    <3>2. /\ I!Upserted(command[c].list, i, new) \in I!Lists
          /\ Distinct(I!Upserted(command[c].list, i, new))
      BY <3>1, UpsertedIsDistinct
    <3> QED
      BY <1>4, <2>3, <3>2, CommandGoesOn DEF I!Validates
  <2> QED
    BY <2>1, <2>2, <2>3
<1>5. ASSUME NEW c \in Commands, I!Writes(c) PROVE InstancesInv'
  <2>1. instances' = command[c].list
        /\ command' = [command EXCEPT ![c] = [command[c] EXCEPT !.at = "slot"]]
    BY <1>5 DEF I!Writes, I!Now
  <2>2. \A d \in Commands : command'[d].list = command[d].list
    BY <2>1 DEF InstancesInv
  <2> QED
    BY <2>1, <2>2 DEF InstancesInv, Distinct
<1>6. CASE UNCHANGED registryVars
  BY <1>6 DEF registryVars, InstancesInv, Distinct
<1> QED
  BY <1>2, <1>3, <1>4, <1>5, <1>6 DEF I!Next

RegistryInv ==
  /\ part = "profiles" => ProfilesInv
  /\ part = "instances" => InstancesInv

LEMMA RegistryActs ==
  [ConnectionsNext]_connectionVars =>
    /\ part' = part
    /\ part = "profiles" => [P!Next]_registryVars
    /\ part = "instances" => [I!Next]_registryVars
<1> SUFFICES ASSUME [ConnectionsNext]_connectionVars
             PROVE  /\ part' = part
                    /\ part = "profiles" => [P!Next]_registryVars
                    /\ part = "instances" => [I!Next]_registryVars
  OBVIOUS
<1>1. CASE ConnectionsNext
  BY <1>1 DEF ConnectionsNext
<1>2. CASE UNCHANGED connectionVars
  BY <1>2 DEF connectionVars
<1> QED
  BY <1>1, <1>2

\* Neither saving a profile nor an import undoes the rules of its forwards, no chain
\* of jumps leads back to itself, and no instance is there twice (session.rs,
\* llm/mod.rs).
THEOREM RulesAreKeptAlways == ConnectionsSpec => []RulesAreKept
<1>1. ConnectionsInit => RegistryInv
  BY ProfilesInit, InstancesInit DEF ConnectionsInit, RegistryInv
<1>2. RegistryInv /\ [ConnectionsNext]_connectionVars => RegistryInv'
  <2> SUFFICES ASSUME RegistryInv, [ConnectionsNext]_connectionVars PROVE RegistryInv'
    OBVIOUS
  <2>1. CASE part = "profiles"
    BY <2>1, RegistryActs, ProfilesStep DEF RegistryInv
  <2>2. CASE part = "instances"
    BY <2>2, RegistryActs, InstancesStep DEF RegistryInv
  <2> QED
    BY <2>1, <2>2, RegistryActs DEF RegistryInv
<1>3. RegistryInv => RulesAreKept
  BY DEF RegistryInv, RulesAreKept, ProfilesInv, InstancesInv, Distinct,
         I!InstancesDistinct
<1> QED
  BY <1>1, <1>2, <1>3, PTL DEF ConnectionsSpec

-----------------------------------------------------------------------------
(* The actions of an MCP client: McpActions proves the refinement.           *)

LEMMA CallActs == [ConnectionsNext]_connectionVars => [A!Next]_(A!vars)
  BY DEF ConnectionsNext, connectionVars, Rest, callVars, A!vars, A!asking, A!signals

\* Each call of an MCP client keeps what a question to the user promises: it acts
\* only on a yes to that call, once, a refusal or the time limit ends it, and what it
\* signals is what the user saw or began after the script had compared (mcp/mod.rs,
\* process_control.rs).
THEOREM AsksFirstAlways == ConnectionsSpec => AsksFirst
<1>1. ConnectionsInit => A!Init
  BY DEF ConnectionsInit
<1>2. A!Spec => A!AsksFirst
  BY A!PromiseKept
<1>3. A!Spec => []A!SignalsWhatWasShown
  BY A!SignalsShown
<1> QED
  BY <1>1, <1>2, <1>3, CallActs, PTL DEF ConnectionsSpec, AsksFirst, A!Spec

-----------------------------------------------------------------------------
(* Port forwards.                                                          *)

RuleThread ==
  [hop : Nat, stop : BOOLEAN,
   state : {"starting", "listening", "stopped", "lost", "in use"}]

\* A command that is about to start rules has a connection, and without one the set
\* is empty.
ThreadsInv ==
  /\ listed \subseteq Rules /\ connection \in Nat
  /\ ruleThreads \in [Rules -> Seq(RuleThread)]
  /\ \A r \in listed : ruleThreads[r] # <<>>
  /\ connection = 0 => listed = {}
  /\ F!RidesConnection
StartersInv ==
  /\ hops \in Nat /\ alive \subseteq Nat \ {0}
  /\ DOMAIN starters = Starters
  /\ \A s \in Starters :
       /\ starters[s] = [at |-> starters[s].at, rule |-> starters[s].rule, hop |-> starters[s].hop]
       /\ starters[s].hop \in Nat /\ starters[s].rule \in Rules \cup {"saved"}
       /\ starters[s].at = "start" => starters[s].hop # 0
ForwardsInv == ThreadsInv /\ StartersInv

LEMMA ForwardsInit == F!Init => ForwardsInv
<1> SUFFICES ASSUME F!Init PROVE ForwardsInv
  OBVIOUS
<1>1. ThreadsInv
  BY DEF F!Init, ThreadsInv, F!RidesConnection
<1>2. StartersInv
  BY DEF F!Init, F!Idle, StartersInv
<1> QED
  BY <1>1, <1>2 DEF ForwardsInv

\* A thread that is told to stop rides where it did.
LEMMA ToldRides ==
  ASSUME NEW q \in Seq(RuleThread), q # <<>>
  PROVE  /\ [q EXCEPT ![Len(q)].stop = TRUE] \in Seq(RuleThread)
         /\ [q EXCEPT ![Len(q)].stop = TRUE] # <<>>
<1>1. Len(q) \in 1 .. Len(q) /\ q[Len(q)] \in RuleThread
  BY EmptySeq, LenProperties, ElementOfSeq
<1>2. [q[Len(q)] EXCEPT !.stop = TRUE] \in RuleThread
  BY <1>1 DEF RuleThread
<1>3. [q EXCEPT ![Len(q)].stop = TRUE] = [q EXCEPT ![Len(q)] = [q[Len(q)] EXCEPT !.stop = TRUE]]
  OBVIOUS
<1> QED
  BY <1>1, <1>2, <1>3, ExceptSeq, EmptySeq

\* Whatever is kept rides on the connection it is kept with.
LEMMA BecomesRides ==
  ASSUME ThreadsInv, NEW keep \in SUBSET listed, NEW launched \in SUBSET Rules, NEW h \in Nat,
         F!Becomes(keep, launched, h), keep = {} \/ h = connection,
         h = 0 => keep \cup launched = {}
  PROVE  ThreadsInv'
<1> DEFINE New == [hop |-> h, stop |-> FALSE, state |-> "starting"]
           Told(r) == IF r \in listed \ keep
                      THEN [ruleThreads[r] EXCEPT ![Len(ruleThreads[r])].stop = TRUE]
                      ELSE ruleThreads[r]
<1>1. /\ ruleThreads' = [r \in Rules |-> IF r \in launched THEN Append(Told(r), New) ELSE Told(r)]
      /\ listed' = keep \cup launched /\ connection' = h
  BY DEF F!Becomes
<1>2. New \in RuleThread
  BY DEF RuleThread
<1>3. ASSUME NEW r \in Rules PROVE Told(r) \in Seq(RuleThread)
  BY ToldRides DEF ThreadsInv
<1> HIDE DEF New, Told
<1>4. ASSUME NEW r \in Rules
      PROVE  /\ ruleThreads'[r] \in Seq(RuleThread)
             /\ r \in launched => /\ ruleThreads'[r] # <<>>
                                  /\ ruleThreads'[r][Len(ruleThreads'[r])] = New
  BY <1>1, <1>2, <1>3, AppendProperties, EmptySeq
<1>5. ruleThreads' \in [Rules -> Seq(RuleThread)]
  BY <1>1, <1>4
<1>6. ASSUME NEW r \in keep \ launched PROVE ruleThreads'[r] = ruleThreads[r]
  BY <1>1 DEF Told, ThreadsInv
<1>7. ASSUME NEW r \in listed' PROVE ruleThreads'[r] # <<>> /\ F!Latest(r)'.hop = h
  <2>1. CASE r \in launched
    BY <1>4, <2>1 DEF F!Latest, New
  <2>2. CASE r \in keep \ launched
    <3>1. ruleThreads[r] # <<>> /\ F!Latest(r).hop = h
      BY <2>2 DEF ThreadsInv, F!RidesConnection
    <3> QED
      BY <1>6, <2>2, <3>1 DEF F!Latest
  <2> QED
    BY <1>1, <2>1, <2>2
<1> QED
  BY <1>1, <1>5, <1>7 DEF ThreadsInv, F!RidesConnection

\* A thread of a rule that becomes another on the same connection.
LEMMA ChangedRides ==
  ASSUME NEW q \in Seq(RuleThread), NEW i \in 1 .. Len(q),
         NEW e \in RuleThread, e.hop = q[i].hop
  PROVE  /\ [q EXCEPT ![i] = e] \in Seq(RuleThread) /\ [q EXCEPT ![i] = e] # <<>>
         /\ Len([q EXCEPT ![i] = e]) = Len(q)
         /\ [q EXCEPT ![i] = e][Len(q)].hop = q[Len(q)].hop
<1>1. Len(q) \in Nat /\ Len(q) \in 1 .. Len(q)
  BY LenProperties
<1>2. /\ [q EXCEPT ![i] = e] \in Seq(RuleThread)
      /\ Len([q EXCEPT ![i] = e]) = Len(q)
      /\ [q EXCEPT ![i] = e][Len(q)] = IF Len(q) = i THEN e ELSE q[Len(q)]
  BY <1>1, ExceptSeq
<1>3. Len(<<>>) = 0
  BY EmptySeq
<1>4. [q EXCEPT ![i] = e] # <<>>
  BY <1>1, <1>2, <1>3
<1> QED
  BY <1>1, <1>2, <1>4

\* A thread reports: it rides where it did.
LEMMA ReportKeeps ==
  ASSUME ThreadsInv, NEW r \in Rules, NEW i \in DOMAIN ruleThreads[r],
         NEW what \in {"listening", "stopped", "lost", "in use"},
         F!Reports(r, i, what), UNCHANGED <<listed, connection>>
  PROVE  ThreadsInv'
<1>1. ruleThreads[r] \in Seq(RuleThread)
  BY DEF ThreadsInv
<1>2. i \in 1 .. Len(ruleThreads[r]) /\ ruleThreads[r][i] \in RuleThread
  BY <1>1, LenProperties, ElementOfSeq
<1>3. PICK e : e = [ruleThreads[r][i] EXCEPT !.state = what]
  OBVIOUS
<1>4. e \in RuleThread /\ e.hop = ruleThreads[r][i].hop
  BY <1>2, <1>3 DEF RuleThread
<1>5. PICK new : new = [ruleThreads[r] EXCEPT ![i] = e]
  OBVIOUS
<1>6. /\ new \in Seq(RuleThread) /\ new # <<>>
      /\ new[Len(new)].hop = ruleThreads[r][Len(ruleThreads[r])].hop
  <2> DEFINE q == ruleThreads[r]
  <2> HIDE DEF q
  <2>1. q \in Seq(RuleThread) /\ i \in 1 .. Len(q) /\ e.hop = q[i].hop /\ new = [q EXCEPT ![i] = e]
    BY <1>1, <1>2, <1>4, <1>5 DEF q
  <2>2. new \in Seq(RuleThread) /\ new # <<>> /\ Len(new) = Len(q) /\ new[Len(q)].hop = q[Len(q)].hop
    BY <1>4, <2>1, ChangedRides
  <2> QED
    BY <2>2 DEF q
<1>7. ruleThreads' = [ruleThreads EXCEPT ![r] = new]
  BY <1>3, <1>5 DEF F!Reports
<1>8. ASSUME NEW p \in listed PROVE ruleThreads'[p] # <<>> /\ F!Latest(p)'.hop = F!Latest(p).hop
  <2>1. ruleThreads[p] # <<>> /\ p \in Rules
    BY DEF ThreadsInv
  <2>2. CASE p = r
    <3>1. ruleThreads'[p] = new
      BY <1>7, <2>1, <2>2 DEF ThreadsInv
    <3> QED
      BY <1>6, <2>2, <3>1 DEF F!Latest
  <2>3. CASE p # r
    BY <1>7, <2>1, <2>3 DEF F!Latest, ThreadsInv
  <2> QED
    BY <2>2, <2>3
<1>9. ruleThreads' \in [Rules -> Seq(RuleThread)]
  BY <1>6, <1>7 DEF ThreadsInv
<1> QED
  BY <1>8, <1>9 DEF ThreadsInv, F!RidesConnection

\* A command goes on, and has a connection when it is about to start rules.
LEMMA StarterGoes ==
  ASSUME StartersInv, NEW s \in Starters, NEW e, F!Goes(s, e),
         e = [at |-> e.at, rule |-> e.rule, hop |-> e.hop],
         e.hop \in Nat, e.rule \in Rules \cup {"saved"}, e.at = "start" => e.hop # 0,
         hops' \in Nat, alive' \subseteq Nat \ {0}
  PROVE  StartersInv'
<1>1. starters' = [starters EXCEPT ![s] = e]
  BY DEF F!Goes
<1>2. \A q \in Starters : starters'[q] = IF q = s THEN e ELSE starters[q]
  BY <1>1 DEF StartersInv
<1> QED
  BY <1>1, <1>2 DEF StartersInv

LEMMA ForwardsStep == ForwardsInv /\ [F!Next]_forwardVars => ForwardsInv'
<1> SUFFICES ASSUME ForwardsInv, [F!Next]_forwardVars PROVE ForwardsInv'
  OBVIOUS
<1> USE DEF ForwardsInv
<1>1. CASE UNCHANGED forwardVars
  BY <1>1 DEF forwardVars, ThreadsInv, StartersInv, F!RidesConnection, F!Latest
<1>2. ASSUME NEW s \in Starters, NEW rule \in Rules \cup {"saved"}, F!Begins(s, rule)
      PROVE  ForwardsInv'
  <2>1. ThreadsInv'
    BY <1>2 DEF F!Begins, ThreadsInv, F!RidesConnection, F!Latest
  <2>2. StartersInv'
    BY <1>2 DEF F!Begins, F!Goes, StartersInv
  <2> QED
    BY <2>1, <2>2
<1>3. ASSUME NEW s \in Starters, F!ConnectionFor(s) PROVE ForwardsInv'
  <2>1. ThreadsInv'
    BY <1>3 DEF F!ConnectionFor, ThreadsInv, F!RidesConnection, F!Latest
  <2>2. StartersInv'
    <3>1. PICK e : /\ F!Goes(s, e)
                   /\ e \in {[starters[s] EXCEPT !.at = "open"],
                             [starters[s] EXCEPT !.at = "start", !.hop = connection]}
                   /\ e.at = "start" => connection \in alive
      <4>1. [starters[s] EXCEPT !.at = "open"].at # "start"
        BY DEF StartersInv
      <4> QED
        BY <1>3, <4>1 DEF F!ConnectionFor
    <3>2. /\ e = [at |-> e.at, rule |-> e.rule, hop |-> e.hop] /\ e.rule = starters[s].rule
          /\ e.hop \in {starters[s].hop, connection}
          /\ e.at = "start" => e.hop = connection
      BY <3>1 DEF StartersInv
    <3>3. e.hop \in Nat /\ e.rule \in Rules \cup {"saved"} /\ (e.at = "start" => e.hop # 0)
      BY <3>1, <3>2 DEF StartersInv, ThreadsInv
    <3> QED
      BY <1>3, <3>1, <3>2, <3>3, StarterGoes DEF F!ConnectionFor, StartersInv
  <2> QED
    BY <2>1, <2>2
<1>4. ASSUME NEW s \in Starters, F!Opens(s) PROVE ForwardsInv'
  <2>1. ThreadsInv'
    BY <1>4 DEF F!Opens, ThreadsInv, F!RidesConnection, F!Latest
  <2>2. StartersInv'
    <3>1. CASE F!Goes(s, F!Idle) /\ UNCHANGED <<hops, alive>>
      BY <3>1, StarterGoes DEF F!Idle, StartersInv
    <3>2. CASE ~(F!Goes(s, F!Idle) /\ UNCHANGED <<hops, alive>>)
      <4>1. PICK e : /\ F!Goes(s, e) /\ e = [starters[s] EXCEPT !.at = "start", !.hop = hops']
                     /\ hops' = hops + 1 /\ alive' = alive \cup {hops'}
        BY <1>4, <3>2 DEF F!Opens
      <4>2. /\ e = [at |-> e.at, rule |-> e.rule, hop |-> e.hop]
            /\ e.rule = starters[s].rule /\ e.hop = hops'
        <5>1. starters[s] = [at |-> starters[s].at, rule |-> starters[s].rule, hop |-> starters[s].hop]
          BY DEF StartersInv
        <5>2. e = [at |-> "start", rule |-> starters[s].rule, hop |-> hops']
          BY <4>1, <5>1
        <5> QED
          BY <5>2
      <4>3. hops' \in Nat \ {0} /\ alive' \subseteq Nat \ {0}
        BY <4>1 DEF StartersInv
      <4> QED
        BY <4>1, <4>2, <4>3, StarterGoes DEF StartersInv
    <3> QED
      BY <3>1, <3>2
  <2> QED
    BY <2>1, <2>2
<1>5. ASSUME NEW s \in Starters, F!StartsSaved(s) PROVE ForwardsInv'
  <2>1. PICK keep : /\ keep = IF F!Moved(s) THEN {} ELSE {r \in listed : F!Running(r)}
                    /\ F!Becomes(keep, (SavedRules \cup listed) \ keep, starters[s].hop)
    BY <1>5 DEF F!StartsSaved
  <2>2. ThreadsInv'
    <3>1. starters[s].hop \in Nat \ {0}
      BY <1>5 DEF F!StartsSaved, StartersInv
    <3>2. keep \in SUBSET listed /\ (keep = {} \/ starters[s].hop = connection)
      BY <2>1 DEF F!Moved, ThreadsInv
    <3>3. (SavedRules \cup listed) \ keep \in SUBSET Rules
      BY ConnectionsAssumption DEF F!PortForwardsAssumption, ThreadsInv
    <3> QED
      BY <2>1, <3>1, <3>2, <3>3, BecomesRides
  <2>3. StartersInv'
    BY <1>5 DEF F!StartsSaved, F!Goes, F!Idle, StartersInv
  <2> QED
    BY <2>2, <2>3
<1>6. ASSUME NEW s \in Starters, F!StartsOne(s) PROVE ForwardsInv'
  <2>1. PICK keep, launched :
          /\ keep = IF F!Moved(s) THEN {} ELSE listed \ {starters[s].rule}
          /\ launched \subseteq (listed \cup {starters[s].rule})
          /\ F!Becomes(keep, launched, starters[s].hop)
    BY <1>6 DEF F!StartsOne
  <2>2. ThreadsInv'
    <3>1. starters[s].hop \in Nat \ {0} /\ starters[s].rule \in Rules
      BY <1>6 DEF F!StartsOne, StartersInv
    <3>2. keep \in SUBSET listed /\ (keep = {} \/ starters[s].hop = connection)
      BY <2>1 DEF F!Moved, ThreadsInv
    <3>3. launched \in SUBSET Rules
      BY <2>1, <3>1 DEF ThreadsInv
    <3> QED
      BY <2>1, <3>1, <3>2, <3>3, BecomesRides
  <2>3. StartersInv'
    BY <1>6 DEF F!StartsOne, F!Goes, F!Idle, StartersInv
  <2> QED
    BY <2>2, <2>3
<1>7. ASSUME NEW r \in Rules, F!StopsOne(r) PROVE ForwardsInv'
  <2>1. ThreadsInv'
    <3>1. PICK h : h = IF listed = {r} THEN 0 ELSE connection
      OBVIOUS
    <3>2. F!Becomes(listed \ {r}, {}, h)
      BY <1>7, <3>1 DEF F!StopsOne
    <3>3. h \in Nat /\ (listed \ {r} = {} \/ h = connection) /\ (h = 0 => listed \ {r} = {})
      BY <3>1 DEF ThreadsInv
    <3> QED
      BY <3>2, <3>3, BecomesRides
  <2>2. StartersInv'
    BY <1>7 DEF F!StopsOne, StartersInv
  <2> QED
    BY <2>1, <2>2
<1>8. ASSUME NEW r \in Rules, NEW i \in 1 .. MaxLaunches, F!Binds(r, i) PROVE ForwardsInv'
  <2>1. PICK what \in {"listening", "in use"} : F!Reports(r, i, what)
    BY <1>8 DEF F!Binds
  <2>2. ThreadsInv'
    BY <1>8, <2>1, ReportKeeps DEF F!Binds
  <2>3. StartersInv'
    BY <1>8 DEF F!Binds, StartersInv
  <2> QED
    BY <2>2, <2>3
<1>9. ASSUME NEW r \in Rules, NEW i \in 1 .. MaxLaunches, F!Ends(r, i) PROVE ForwardsInv'
  <2>1. PICK what \in {"stopped", "lost"} : F!Reports(r, i, what)
    BY <1>9 DEF F!Ends
  <2>2. ThreadsInv'
    BY <1>9, <2>1, ReportKeeps DEF F!Ends
  <2>3. StartersInv'
    BY <1>9 DEF F!Ends, StartersInv
  <2> QED
    BY <2>2, <2>3
<1>10. CASE F!Disconnects
  <2>1. ThreadsInv'
    BY <1>10, BecomesRides DEF F!Disconnects
  <2>2. StartersInv'
    BY <1>10 DEF F!Disconnects, StartersInv
  <2> QED
    BY <2>1, <2>2
<1>11. CASE F!Connects
  BY <1>11 DEF F!Connects, ThreadsInv, StartersInv, F!RidesConnection, F!Latest
<1>12. CASE F!HopDies
  BY <1>12 DEF F!HopDies, ThreadsInv, StartersInv, F!RidesConnection, F!Latest
<1> QED
  BY <1>1, <1>2, <1>3, <1>4, <1>5, <1>6, <1>7, <1>8, <1>9, <1>10, <1>11, <1>12 DEF F!Next

LEMMA ForwardsActs == [ConnectionsNext]_connectionVars => [F!Next]_forwardVars
  BY DEF ConnectionsNext, connectionVars, Rest

-----------------------------------------------------------------------------
(* The pump.                                                               *)

\* Bytes in order and without a gap, the first after n others.
Follows(q, n) == q \in Seq(Nat) /\ \A i \in 1 .. Len(q) : q[i] = n + i

LEMMA NothingFollows == ASSUME NEW n \in Nat PROVE Follows(<<>>, n) /\ Len(<<>>) = 0
  BY EmptySeq DEF Follows

LEMMA OneMoreFollows ==
  ASSUME NEW n \in Nat, NEW q, Follows(q, n)
  PROVE  Follows(Append(q, n + Len(q) + 1), n)
<1>1. q \in Seq(Nat) /\ Len(q) \in Nat
  BY LenProperties DEF Follows
<1>2. n + Len(q) + 1 \in Nat
  BY <1>1
<1>3. /\ Append(q, n + Len(q) + 1) \in Seq(Nat)
      /\ Len(Append(q, n + Len(q) + 1)) = Len(q) + 1
      /\ \A i \in 1 .. Len(q) : Append(q, n + Len(q) + 1)[i] = q[i]
      /\ Append(q, n + Len(q) + 1)[Len(q) + 1] = n + Len(q) + 1
  BY <1>1, <1>2, AppendProperties
<1> QED
  BY <1>1, <1>3 DEF Follows

\* A part that is taken from the front, and what is left.
LEMMA PartFollows ==
  ASSUME NEW n \in Nat, NEW q, Follows(q, n), NEW k \in 0 .. Len(q)
  PROVE  /\ Follows(SubSeq(q, 1, k), n) /\ Len(SubSeq(q, 1, k)) = k
         /\ Follows(SubSeq(q, k + 1, Len(q)), n + k)
         /\ Len(SubSeq(q, k + 1, Len(q))) = Len(q) - k
<1>1. q \in Seq(Nat) /\ Len(q) \in Nat /\ k \in Nat /\ k <= Len(q)
  BY LenProperties DEF Follows
<1>2. \A i \in 1 .. Len(q) : q[i] \in Nat /\ q[i] = n + i
  BY <1>1, ElementOfSeq DEF Follows
<1>3. \A i \in 1 .. k : q[i] \in Nat
  BY <1>1, <1>2
<1>4. \A i \in k + 1 .. Len(q) : q[i] \in Nat
  BY <1>1, <1>2
<1>5. /\ SubSeq(q, 1, k) \in Seq(Nat) /\ Len(SubSeq(q, 1, k)) = k
      /\ \A i \in 1 .. k : SubSeq(q, 1, k)[i] = q[i]
  BY <1>1, <1>3, SubSeqProperties
<1>6. /\ SubSeq(q, k + 1, Len(q)) \in Seq(Nat) /\ Len(SubSeq(q, k + 1, Len(q))) = Len(q) - k
      /\ \A i \in 1 .. Len(q) - k : SubSeq(q, k + 1, Len(q))[i] = n + k + i
  <2> DEFINE m == k + 1
             rest == SubSeq(q, m, Len(q))
  <2>1. m \in Int /\ Len(q) \in Int /\ \A i \in m .. Len(q) : q[i] \in Nat
    BY <1>1, <1>4
  <2> HIDE DEF m
  <2>2. /\ rest \in Seq(Nat) /\ Len(rest) = IF m <= Len(q) THEN Len(q) - m + 1 ELSE 0
        /\ \A i \in 1 .. Len(q) - m + 1 : rest[i] = q[m + i - 1]
    BY <2>1, SubSeqProperties
  <2> HIDE DEF rest
  <2>3. m = k + 1
    BY DEF m
  <2>4. ASSUME NEW i \in 1 .. Len(q) - k PROVE rest[i] = n + k + i
    <3>1. m + i - 1 = k + i /\ i \in 1 .. Len(q) - m + 1 /\ k + i \in 1 .. Len(q)
      BY <1>1, <2>3
    <3>2. rest[i] = q[m + i - 1] /\ q[k + i] = n + (k + i)
      BY <1>2, <2>2, <3>1
    <3>3. rest[i] = n + (k + i)
      BY <3>1, <3>2
    <3> QED
      BY <1>1, <3>3
  <2>5. Len(rest) = Len(q) - k
    BY <1>1, <2>2, <2>3
  <2>6. rest = SubSeq(q, k + 1, Len(q))
    BY DEF rest, m
  <2> QED
    BY <2>2, <2>4, <2>5, <2>6
<1> QED
  BY <1>1, <1>2, <1>5, <1>6 DEF Follows

LEMMA JoinedFollow ==
  ASSUME NEW n \in Nat, NEW p, Follows(p, n), NEW q, Follows(q, n + Len(p))
  PROVE  Follows(p \o q, n) /\ Len(p \o q) = Len(p) + Len(q)
<1>1. p \in Seq(Nat) /\ q \in Seq(Nat) /\ Len(p) \in Nat /\ Len(q) \in Nat
  BY LenProperties DEF Follows
<1>2. /\ p \o q \in Seq(Nat) /\ Len(p \o q) = Len(p) + Len(q)
      /\ \A i \in 1 .. Len(p) + Len(q) :
           (p \o q)[i] = IF i <= Len(p) THEN p[i] ELSE q[i - Len(p)]
  BY <1>1, ConcatProperties
<1>3. ASSUME NEW i \in 1 .. Len(p) + Len(q) PROVE (p \o q)[i] = n + i
  <2>1. CASE i <= Len(p)
    BY <1>1, <1>2, <2>1 DEF Follows
  <2>2. CASE ~(i <= Len(p))
    <3>1. i - Len(p) \in 1 .. Len(q)
      BY <1>1, <2>2
    <3>2. q[i - Len(p)] = n + Len(p) + (i - Len(p))
      BY <3>1 DEF Follows
    <3> QED
      BY <1>1, <1>2, <2>2, <3>2
  <2> QED
    BY <2>1, <2>2
<1> QED
  BY <1>2, <1>3 DEF Follows

LEMMA Sums ==
  \A i, j, k \in Nat : i + j \in Nat /\ i + j + k - i = k + j /\ i + j + k - j = i + k
  OBVIOUS

\* What arrived, what is in the buffer and what is sent follow one another, and a
\* side at whose end the loop stopped has nothing left.
BytesInv ==
  /\ \A s \in B!Sides :
       /\ Follows(arrived[s], 0)
       /\ Follows(buffer[s], Len(arrived[s]))
       /\ Follows(sent[s], Len(arrived[s]) + Len(buffer[s]))
  /\ copied = Len(arrived["socket"]) + Len(arrived["channel"])
  /\ arrived = [s \in B!Sides |-> arrived[s]] /\ buffer = [s \in B!Sides |-> buffer[s]]
  /\ sent = [s \in B!Sides |-> sent[s]]
PumpInv ==
  /\ BytesInv
  /\ ended \in B!Sides => buffer[ended] = <<>> /\ sent[ended] = <<>> /\ ended \in closed

LEMMA PumpInit == B!Init => PumpInv
<1> SUFFICES ASSUME B!Init PROVE PumpInv
  OBVIOUS
<1>1. /\ Follows(<<>>, 0) /\ Len(<<>>) = 0 /\ 0 + 0 = 0
  BY NothingFollows
<1>2. BytesInv
  BY <1>1 DEF B!Init, B!Sides, BytesInv
<1> QED
  BY <1>2 DEF B!Init, B!Sides, PumpInv

\* What one side sent moves on and the rest stays.
LEMMA BytesMove ==
  ASSUME BytesInv, NEW s \in B!Sides, NEW a, NEW b, NEW c,
         arrived' = [arrived EXCEPT ![s] = a], buffer' = [buffer EXCEPT ![s] = b],
         sent' = [sent EXCEPT ![s] = c],
         Follows(a, 0), Follows(b, Len(a)), Follows(c, Len(a) + Len(b)),
         copied' = copied + Len(a) - Len(arrived[s])
  PROVE  BytesInv'
<1>1. \A t \in B!Sides : /\ arrived'[t] = IF t = s THEN a ELSE arrived[t]
                         /\ buffer'[t] = IF t = s THEN b ELSE buffer[t]
                         /\ sent'[t] = IF t = s THEN c ELSE sent[t]
  BY DEF BytesInv
<1>2. /\ arrived' = [t \in B!Sides |-> arrived'[t]] /\ buffer' = [t \in B!Sides |-> buffer'[t]]
      /\ sent' = [t \in B!Sides |-> sent'[t]] /\ B!Sides' = B!Sides
  BY DEF BytesInv, B!Sides
<1>3. ASSUME NEW t \in B!Sides
      PROVE  /\ Follows(arrived[t], 0)' /\ Follows(buffer[t], Len(arrived[t]))'
             /\ Follows(sent[t], Len(arrived[t]) + Len(buffer[t]))'
  BY <1>1 DEF BytesInv, Follows
<1>4. \A t \in B!Sides : Len(arrived[t]) \in Nat
  BY LenProperties DEF BytesInv, Follows
<1>5. PICK l \in Nat : l = Len(a)
  BY LenProperties DEF Follows
<1>6. copied' = Len(arrived'["socket"]) + Len(arrived'["channel"])
  <2>1. PICK m \in Nat, n \in Nat :
          m = Len(arrived["socket"]) /\ n = Len(arrived["channel"]) /\ copied = m + n
    BY <1>4 DEF BytesInv, B!Sides
  <2>2. CASE s = "socket"
    <3>1. Len(arrived'["socket"]) = Len(a) /\ Len(arrived'["channel"]) = n
      BY <1>1, <2>1, <2>2 DEF B!Sides
    <3>2. copied' = m + n + l - m
      BY <1>5, <2>1, <2>2
    <3>3. m + n + l - m = l + n
      OBVIOUS
    <3> QED
      BY <1>5, <3>1, <3>2, <3>3
  <2>3. CASE s = "channel"
    <3>1. Len(arrived'["channel"]) = Len(a) /\ Len(arrived'["socket"]) = m
      BY <1>1, <2>1, <2>3 DEF B!Sides
    <3>2. copied' = m + n + l - n
      BY <1>5, <2>1, <2>3
    <3>3. m + n + l - n = m + l
      OBVIOUS
    <3> QED
      BY <1>5, <3>1, <3>2, <3>3
  <2> QED
    BY <2>2, <2>3 DEF B!Sides
<1> QED
  BY <1>2, <1>3, <1>6 DEF BytesInv

LEMMA PumpStep == PumpInv /\ [B!Next]_pumpVars => PumpInv'
<1> SUFFICES ASSUME PumpInv, [B!Next]_pumpVars PROVE PumpInv'
  OBVIOUS
<1> USE DEF PumpInv
<1>0. /\ B!Sides' = B!Sides
      /\ \A s \in B!Sides :
           /\ arrived = [arrived EXCEPT ![s] = arrived[s]]
           /\ buffer = [buffer EXCEPT ![s] = buffer[s]] /\ sent = [sent EXCEPT ![s] = sent[s]]
  BY DEF BytesInv, B!Sides
<1>01. ASSUME NEW s \in B!Sides
       PROVE  /\ Follows(arrived[s], 0) /\ Follows(buffer[s], Len(arrived[s]))
              /\ Follows(sent[s], Len(arrived[s]) + Len(buffer[s]))
              /\ Len(arrived[s]) \in Nat /\ Len(buffer[s]) \in Nat /\ Len(sent[s]) \in Nat
  BY LenProperties DEF BytesInv, Follows
<1>02. copied \in Nat /\ \A k \in Nat : copied + k - k = copied
  BY <1>01 DEF BytesInv, B!Sides
<1>1. CASE UNCHANGED pumpVars
  BY <1>0, <1>1 DEF pumpVars, BytesInv, Follows
<1>2. ASSUME NEW s \in B!Sides, B!Sends(s) PROVE PumpInv'
  <2>1. PICK m : m = Len(arrived[s]) + Len(buffer[s]) /\ m \in Nat /\ Follows(sent[s], m)
    <3>1. Len(arrived[s]) \in Nat /\ Len(buffer[s]) \in Nat
      BY <1>01
    <3>2. Len(arrived[s]) + Len(buffer[s]) \in Nat
      BY <3>1, Sums
    <3> QED
      BY <1>01, <3>2
  <2>2. PICK c : c = Append(sent[s], m + Len(sent[s]) + 1) /\ sent' = [sent EXCEPT ![s] = c]
    BY <1>2, <2>1 DEF B!Sends, B!Total
  <2>3. Follows(c, Len(arrived[s]) + Len(buffer[s]))
    BY <2>1, <2>2, OneMoreFollows
  <2>4. copied' = copied + Len(arrived[s]) - Len(arrived[s])
    BY <1>01, <1>02, <1>2 DEF B!Sends
  <2>5. arrived' = [arrived EXCEPT ![s] = arrived[s]] /\ buffer' = [buffer EXCEPT ![s] = buffer[s]]
    BY <1>0, <1>2 DEF B!Sends
  <2>6. BytesInv'
    BY <1>01, <2>2, <2>3, <2>4, <2>5, BytesMove
  <2>7. \A t \in B!Sides : t # s => sent'[t] = sent[t]
    BY <2>2 DEF BytesInv
  <2> QED
    BY <1>0, <1>2, <2>6, <2>7 DEF B!Sends
<1>3. ASSUME NEW s \in B!Sides, B!Closes(s) PROVE PumpInv'
  BY <1>0, <1>3 DEF B!Closes, BytesInv, Follows
<1>4. ASSUME NEW s \in B!Sides, B!Reads(s) PROVE PumpInv'
  <2>1. CASE UNCHANGED <<sent, buffer>>
    BY <1>0, <1>4, <2>1 DEF B!Reads, BytesInv, Follows, B!Turn, B!Sides
  <2>2. CASE ~UNCHANGED <<sent, buffer>>
    <3>1. PICK n \in 1 .. Len(sent[s]) :
            /\ buffer' = [buffer EXCEPT ![s] = SubSeq(sent[s], 1, n)]
            /\ sent' = [sent EXCEPT ![s] = SubSeq(sent[s], n + 1, Len(sent[s]))]
      BY <1>4, <2>2 DEF B!Reads
    <3>2. buffer[s] = <<>> /\ UNCHANGED <<closed, arrived, copied, ended>> /\ ended = "no"
      BY <1>4, <2>2 DEF B!Reads, B!Turn
    <3>3. PICK q, m : /\ q = sent[s] /\ m = Len(arrived[s]) /\ m \in Nat /\ Follows(q, m)
                      /\ n \in 0 .. Len(q)
      <4>1. Len(buffer[s]) = 0
        BY <3>2, NothingFollows
      <4>2. Len(arrived[s]) + Len(buffer[s]) = Len(arrived[s]) /\ n \in 0 .. Len(sent[s])
        BY <1>01, <4>1
      <4> QED
        BY <1>01, <4>2
    <3>4. PICK b, c : b = SubSeq(q, 1, n) /\ c = SubSeq(q, n + 1, Len(q))
      OBVIOUS
    <3>5. Follows(b, m) /\ Len(b) = n /\ Follows(c, m + n)
      BY <3>3, <3>4, PartFollows
    <3>6. copied' = copied + Len(arrived[s]) - Len(arrived[s])
      BY <1>01, <1>02, <3>2
    <3>7. BytesInv'
      BY <1>0, <1>01, <3>1, <3>2, <3>3, <3>4, <3>5, <3>6, BytesMove
    <3> QED
      BY <3>2, <3>7 DEF B!Sides
  <2> QED
    BY <2>1, <2>2
<1>5. ASSUME NEW s \in B!Sides, B!Writes(s) PROVE PumpInv'
  <2>1. PICK n \in 0 .. Len(buffer[s]) :
          /\ arrived' = [arrived EXCEPT ![s] = arrived[s] \o SubSeq(buffer[s], 1, n)]
          /\ buffer' = [buffer EXCEPT ![s] = SubSeq(buffer[s], n + 1, Len(buffer[s]))]
          /\ copied' = copied + n
    BY <1>5 DEF B!Writes
  <2>2. PICK q, m, r : /\ q = buffer[s] /\ r = arrived[s] /\ m = Len(r) /\ m \in Nat
                      /\ Follows(q, m) /\ Follows(r, 0) /\ n \in 0 .. Len(q)
    <3>1. Follows(buffer[s], Len(arrived[s])) /\ Follows(arrived[s], 0) /\ Len(arrived[s]) \in Nat
      BY <1>01
    <3> QED
      BY <3>1
  <2>3. PICK p, a, b : p = SubSeq(q, 1, n) /\ a = r \o p /\ b = SubSeq(q, n + 1, Len(q))
    OBVIOUS
  <2>4. Follows(p, m) /\ Len(p) = n /\ Follows(b, m + n) /\ Len(b) = Len(q) - n
    <3>1. m \in Nat /\ Follows(q, m) /\ n \in 0 .. Len(q)
      BY <2>2
    <3> QED
      BY <2>3, <3>1, PartFollows
  <2>5. Follows(a, 0) /\ Len(a) = m + n
    <3>1. Follows(p, 0 + Len(r))
      BY <2>2, <2>4
    <3>2. Follows(a, 0) /\ Len(a) = Len(r) + Len(p)
      BY <2>2, <2>3, <3>1, JoinedFollow
    <3> QED
      BY <2>2, <2>4, <3>2
  <2>6. Len(a) + Len(b) = m + Len(q) /\ copied' = copied + Len(a) - m
    <3>1. PICK l \in Nat : l = Len(q)
      BY <2>2, LenProperties DEF Follows
    <3>2. n \in Nat /\ Len(b) = l - n
      BY <2>1, <2>4, <3>1
    <3>3. m + n + (l - n) = m + l
      BY <2>2, <3>2
    <3>4. copied + n = copied + (m + n) - m
      BY <1>02, <2>2, <3>2
    <3> QED
      BY <2>1, <2>5, <3>1, <3>2, <3>3, <3>4
  <2>7. Follows(sent[s], Len(a) + Len(b)) /\ Follows(b, Len(a))
    BY <1>01, <2>2, <2>4, <2>5, <2>6
  <2>8. BytesInv'
    BY <1>0, <1>5, <2>1, <2>2, <2>3, <2>5, <2>6, <2>7, BytesMove DEF B!Writes
  <2> QED
    BY <1>5, <2>8 DEF B!Writes, B!Turn, B!Sides
<1>6. CASE B!Stops \/ B!SeesStop \/ B!Fails
  BY <1>0, <1>6 DEF B!Stops, B!SeesStop, B!Fails, BytesInv, Follows, B!Sides
<1> QED
  BY <1>1, <1>2, <1>3, <1>4, <1>5, <1>6 DEF B!Next

LEMMA PumpActs == [ConnectionsNext]_connectionVars => [B!Next]_pumpVars
  BY DEF ConnectionsNext, connectionVars, Rest

LEMMA PumpCarries == PumpInv => B!ArrivesInOrder /\ B!ClosingSideIsHeard
<1> SUFFICES ASSUME PumpInv PROVE B!ArrivesInOrder /\ B!ClosingSideIsHeard
  OBVIOUS
<1>1. ASSUME NEW s \in B!Sides, NEW i \in DOMAIN arrived[s] PROVE arrived[s][i] = i
  <2>1. arrived[s] \in Seq(Nat) /\ \A j \in 1 .. Len(arrived[s]) : arrived[s][j] = 0 + j
    BY DEF PumpInv, BytesInv, Follows
  <2>2. i \in 1 .. Len(arrived[s]) /\ i \in Nat
    BY <2>1
  <2> QED
    BY <2>1, <2>2
<1> QED
  BY <1>1 DEF PumpInv, BytesInv, B!ArrivesInOrder, B!ClosingSideIsHeard

\* A forward that is listed rides on the connection of its set, and what one side
\* sent before it closed reaches the other, in order and without a gap, however
\* reads, writes and the user's commands meet (forwarding.rs, pump.rs).
THEOREM ForwardsCarryAlways == ConnectionsSpec => []ForwardsCarry
<1>1. ConnectionsInit => ForwardsInv /\ PumpInv
  BY ForwardsInit, PumpInit DEF ConnectionsInit
<1>2. ForwardsInv /\ PumpInv /\ [ConnectionsNext]_connectionVars => ForwardsInv' /\ PumpInv'
  BY ForwardsStep, ForwardsActs, PumpStep, PumpActs
<1>3. ForwardsInv /\ PumpInv => ForwardsCarry
  BY PumpCarries DEF ForwardsInv, ThreadsInv, ForwardsCarry
<1> QED
  BY <1>1, <1>2, <1>3, PTL DEF ConnectionsSpec

-----------------------------------------------------------------------------
(* The reader of a terminal.                                               *)

\* How long the channel may be held from now on, and was at most.
Left == IF holder = None THEN 0 ELSE holder - now
Held == holds * OperationTimeout

ReaderTypes ==
  /\ now \in Nat /\ link \in {"up", "silent", "gone"}
  /\ replies \in BOOLEAN /\ shell \in {"runs", "exited"}
  /\ incoming \in BOOLEAN /\ slept \in BOOLEAN /\ stop \in BOOLEAN
  /\ reader \in [mode : {"uncalibrated", "reply", "keepalive"}, probeNow : BOOLEAN,
                 received : Nat, probed : Nat, kept : Nat]
  /\ reader.received <= now /\ reader.probed <= now
  /\ probe = None \/ (probe \in [at : Nat, until : Nat, replied : BOOLEAN] /\ probe.at <= now)
  /\ holder = None \/ (holder \in Nat /\ now <= holder /\ holder <= now + OperationTimeout)
  /\ holds \in Nat /\ naps \in Nat
  /\ silentAt = None \/ (silentAt \in Nat /\ silentAt <= now)
  /\ wokeAt = None \/ (wokeAt \in Nat /\ wokeAt <= now)
  /\ closedAs \in {None, "lost", "exited", "stopped"}

\* A probe waits no longer than it may, and one that is not answered on a
\* connection that works is the first.
ProbeInv ==
  /\ Left <= Held
  /\ reader.mode = "reply" => replies
  /\ probe # None =>
       /\ reader.mode # "keepalive"
       /\ probe.until = probe.at + T!Timeout /\ now <= probe.until
       /\ probe.replied => replies
       /\ link = "up" /\ replies /\ ~probe.replied => now <= probe.at + ReplyDelay
  /\ T!AliveIsKept

\* On a connection that went silent: what is left to read is read, the reader goes
\* idle and asks, each in its time.
SilentProbe ==
  probe # None =>
    /\ probe.replied => now = silentAt /\ (wokeAt # None => slept)
    /\ reader.mode = "reply" =>
         /\ probe.at <= silentAt + ProbeAfterIdle + Held
         /\ wokeAt # None => probe.at <= wokeAt + Held
SilentIdle ==
  reader.mode = "reply" /\ probe = None =>
    /\ now - silentAt + Left <= ProbeAfterIdle + Held
    /\ incoming => now - silentAt + Left <= Held
    /\ wokeAt # None => (slept \/ reader.probeNow) /\ now - wokeAt + Left <= Held
SilentInv ==
  link = "silent" /\ closedAs = None =>
    /\ silentAt # None
    /\ wokeAt # None => silentAt <= wokeAt
    /\ reader.mode = "reply" =>
         reader.probed <= silentAt /\ reader.received <= silentAt + Held
    /\ SilentProbe /\ SilentIdle

ReaderInv == ReaderTypes /\ ProbeInv /\ SilentInv

LEMMA ReaderConstants ==
  /\ ProbeAfterIdle \in Nat /\ ProbeTimeout \in Nat /\ CalibrationTimeout \in Nat
  /\ OperationTimeout \in Nat /\ ReplyDelay \in Nat
  /\ ReplyDelay < ProbeTimeout /\ ProbeTimeout <= CalibrationTimeout
  /\ None \notin Nat /\ None \notin {"lost", "exited", "stopped"}
  /\ None \notin [at : Nat, until : Nat, replied : BOOLEAN]
  BY ConnectionsAssumption DEF T!TerminalReaderAssumption

LEMMA Products ==
  ASSUME NEW o \in Nat
  PROVE  \A n \in Nat : n * o \in Nat /\ (n + 1) * o = n * o + o
  OBVIOUS

LEMMA HeldGrows ==
  ASSUME ReaderTypes
  PROVE  /\ Held \in Nat
         /\ UNCHANGED holds => Held' = Held
         /\ holds' = holds + 1 => Held' = Held + OperationTimeout
  BY ReaderConstants, Products DEF Held, ReaderTypes

LEMMA ReaderInit == T!Init => ReaderInv
<1> SUFFICES ASSUME T!Init PROVE ReaderInv
  OBVIOUS
<1>1. ReaderTypes
  <2>1. reader \in [mode : {"uncalibrated", "reply", "keepalive"}, probeNow : BOOLEAN,
                    received : Nat, probed : Nat, kept : Nat]
    BY DEF T!Init
  <2>2. reader.received = 0 /\ reader.probed = 0
    BY DEF T!Init
  <2>3. /\ now = 0 /\ link = "up" /\ replies \in BOOLEAN /\ shell = "runs"
        /\ ~incoming /\ ~slept /\ ~stop /\ incoming \in BOOLEAN /\ slept \in BOOLEAN
        /\ stop \in BOOLEAN /\ probe = None /\ holder = None /\ closedAs = None
        /\ holds = 0 /\ naps = 0 /\ silentAt = None /\ wokeAt = None
    BY DEF T!Init
  <2> QED
    BY <2>1, <2>2, <2>3 DEF ReaderTypes
<1>2. Left <= Held
  BY <1>1, HeldGrows, ReaderConstants DEF T!Init, Left
<1> QED
  BY <1>1, <1>2, ReaderConstants DEF T!Init, ReaderInv, ProbeInv, T!AliveIsKept, SilentInv

\* What one turn of the loop does to the record of the reader and to its probe.
LEMMA TurnCases ==
  ASSUME ReaderTypes, T!Turns
  PROVE  /\ T!Wake \in BOOLEAN /\ T!Timeout \in Nat
         /\ reader' \in [mode : {"uncalibrated", "reply", "keepalive"}, probeNow : BOOLEAN,
                         received : Nat, probed : Nat, kept : Nat]
         /\ reader'.mode = reader.mode /\ reader'.probed = reader.probed
         /\ \/ /\ closedAs' \in {"lost", "exited"} /\ (closedAs' = "lost" => link = "gone")
               /\ UNCHANGED <<incoming, reader, probe>>
            \/ /\ incoming /\ ~incoming' /\ reader'.received = now
               /\ reader'.probeNow = T!Wake /\ UNCHANGED <<probe, closedAs>>
            \/ /\ ~incoming /\ T!Asks(T!Wake) /\ ~reader'.probeNow
               /\ reader'.received = reader.received
               /\ probe' \in [at : Nat, until : Nat, replied : BOOLEAN]
               /\ probe'.at = now /\ probe'.until = now + T!Timeout /\ ~probe'.replied
               /\ UNCHANGED <<incoming, closedAs>>
            \/ /\ ~T!Asks(T!Wake) \/ reader.mode = "keepalive"
               /\ reader'.received = reader.received
               /\ T!Wake => reader'.probeNow \/ reader.mode = "keepalive"
               /\ UNCHANGED <<incoming, probe, closedAs>>
<1> USE ReaderConstants DEF ReaderTypes
<1>1. T!Wake \in BOOLEAN /\ T!Timeout \in Nat
  BY DEF T!Wake, T!Timeout
<1> DEFINE wake == T!Wake
           Same(r) == r.mode = reader.mode /\ r.probed = reader.probed
           Kind == [mode : {"uncalibrated", "reply", "keepalive"}, probeNow : BOOLEAN,
                    received : Nat, probed : Nat, kept : Nat]
<1>2. CASE link = "gone" /\ closedAs' = "lost" /\ UNCHANGED <<incoming, reader, probe>>
  BY <1>1, <1>2
<1>3. CASE closedAs' = "exited" /\ UNCHANGED <<incoming, reader, probe>>
  BY <1>1, <1>3
<1>4. CASE /\ incoming /\ incoming' = FALSE
           /\ reader' = [reader EXCEPT !.received = now, !.probeNow = wake]
           /\ UNCHANGED <<probe, closedAs>>
  <2>1. reader' \in Kind /\ Same(reader') /\ reader'.received = now /\ reader'.probeNow = wake
    BY <1>1, <1>4
  <2> QED
    BY <1>1, <1>4, <2>1
<1>5. CASE /\ T!Idle /\ T!Asks(wake)
           /\ probe' = [at |-> now, until |-> now + T!Timeout, replied |-> FALSE]
           /\ reader' = [reader EXCEPT !.probeNow = FALSE] /\ UNCHANGED <<incoming, closedAs>>
  <2>1. /\ reader' \in Kind /\ Same(reader') /\ reader'.received = reader.received
        /\ ~reader'.probeNow
    BY <1>5
  <2>2. /\ probe' \in [at : Nat, until : Nat, replied : BOOLEAN]
        /\ probe'.at = now /\ probe'.until = now + T!Timeout /\ ~probe'.replied
    BY <1>1, <1>5
  <2>3. ~incoming
    BY <1>5 DEF T!Idle
  <2> QED
    BY <1>1, <1>5, <2>1, <2>2, <2>3
<1>6. CASE /\ T!Keeps(wake) /\ reader' = [reader EXCEPT !.probeNow = FALSE, !.kept = now]
           /\ UNCHANGED <<incoming, probe, closedAs>>
  <2>1. reader' \in Kind /\ Same(reader') /\ reader'.received = reader.received
    BY <1>6
  <2> QED
    BY <1>1, <1>6, <2>1 DEF T!Keeps
<1>7. CASE /\ ~T!Asks(wake) /\ reader' = [reader EXCEPT !.probeNow = wake]
           /\ UNCHANGED <<incoming, probe, closedAs>>
  <2>1. /\ reader' \in Kind /\ Same(reader') /\ reader'.received = reader.received
        /\ reader'.probeNow = wake
    BY <1>1, <1>7
  <2> QED
    BY <1>1, <1>7, <2>1
<1> QED
  BY <1>2, <1>3, <1>4, <1>5, <1>6, <1>7 DEF T!Turns

\* What the end of a probe does to the record of the reader.
LEMMA EndCases ==
  ASSUME ReaderTypes, T!ProbeEnds
  PROVE  /\ reader' \in [mode : {"uncalibrated", "reply", "keepalive"}, probeNow : BOOLEAN,
                         received : Nat, probed : Nat, kept : Nat]
         /\ reader'.received = reader.received /\ reader'.probeNow = reader.probeNow
         /\ probe # None /\ probe' = None
         /\ \/ /\ probe.replied /\ reader'.mode = "reply" /\ reader'.probed = now
               /\ closedAs' = closedAs
            \/ /\ closedAs' = "lost" /\ reader' = reader /\ ~probe.replied
               /\ link = "gone" \/ (now >= probe.until /\ reader.mode # "uncalibrated")
            \/ reader'.mode = "keepalive" /\ reader'.probed = now /\ closedAs' = closedAs
<1> USE DEF ReaderTypes
<1>1. CASE probe.replied
  <2>1. reader' = [reader EXCEPT !.mode = "reply", !.probed = now] /\ closedAs' = closedAs
    BY <1>1 DEF T!ProbeEnds
  <2> QED
    BY <1>1, <2>1 DEF T!ProbeEnds
<1>2. CASE ~probe.replied /\ link = "gone" /\ closedAs' = "lost" /\ UNCHANGED reader
  BY <1>2 DEF T!ProbeEnds
<1>3. CASE ~probe.replied /\ now >= probe.until /\ T!GivesUp
  <2>1. CASE reader.mode = "uncalibrated"
    <3>1. reader' = [reader EXCEPT !.mode = "keepalive", !.probed = now] /\ closedAs' = closedAs
      BY <1>3, <2>1 DEF T!GivesUp
    <3> QED
      BY <3>1 DEF T!ProbeEnds
  <2>2. CASE reader.mode # "uncalibrated"
    BY <1>3, <2>2 DEF T!GivesUp, T!ProbeEnds
  <2> QED
    BY <2>1, <2>2
<1> QED
  BY <1>1, <1>2, <1>3 DEF T!ProbeEnds

LEMMA ReaderTypesStep == ReaderTypes /\ T!Next => ReaderTypes'
<1> SUFFICES ASSUME ReaderTypes, T!Next PROVE ReaderTypes'
  OBVIOUS
<1> USE ReaderConstants DEF ReaderTypes, T!env, T!ghosts
<1>1. CASE T!Outputs
  BY <1>1 DEF T!Outputs
<1>2. CASE T!Exits
  BY <1>2 DEF T!Exits
<1>3. CASE T!Replies
  BY <1>3 DEF T!Replies
<1>4. CASE T!Stops
  BY <1>4 DEF T!Stops
<1>5. CASE T!Holds
  BY <1>5 DEF T!Holds
<1>6. CASE T!LetsGo
  BY <1>6 DEF T!LetsGo
<1>7. CASE T!Turns
  <2> HIDE DEF ReaderTypes
  <2>1. PICK w, t : w = T!Wake /\ t = T!Timeout
    OBVIOUS
  <2>2. reader'.received \in {reader.received, now} /\ reader'.probed = reader.probed
    BY <1>7, TurnCases
  <2>3. probe' = probe \/ (probe' \in [at : Nat, until : Nat, replied : BOOLEAN] /\ probe'.at = now)
    BY <1>7, TurnCases
  <2>4. reader' \in [mode : {"uncalibrated", "reply", "keepalive"}, probeNow : BOOLEAN,
                     received : Nat, probed : Nat, kept : Nat]
    BY <1>7, TurnCases
  <2>5. /\ incoming' \in BOOLEAN /\ slept' \in BOOLEAN
        /\ closedAs' \in {None, "lost", "exited", "stopped"}
        /\ UNCHANGED <<now, link, replies, shell, holder, stop, holds, naps, silentAt, wokeAt>>
    BY <1>7 DEF T!Turns, ReaderTypes
  <2> QED
    BY <2>2, <2>3, <2>4, <2>5 DEF ReaderTypes
<1>8. CASE T!ProbeEnds
  <2> HIDE DEF ReaderTypes
  <2>1. /\ reader'.received = reader.received /\ reader'.probed \in {reader.probed, now}
        /\ closedAs' \in {closedAs, "lost"}
    BY <1>8, EndCases
  <2>2. reader' \in [mode : {"uncalibrated", "reply", "keepalive"}, probeNow : BOOLEAN,
                     received : Nat, probed : Nat, kept : Nat]
    BY <1>8, EndCases
  <2> QED
    BY <1>8, <2>1, <2>2 DEF T!ProbeEnds, ReaderTypes
<1>9. CASE T!Ends
  BY <1>9 DEF T!Ends
<1>10. CASE T!TimePasses
  BY <1>10 DEF T!TimePasses
<1>11. ASSUME NEW how \in {"silent", "gone"}, T!Breaks(how) PROVE ReaderTypes'
  BY <1>11 DEF T!Breaks
<1>12. ASSUME NEW b \in BOOLEAN, T!Sleeps(b) PROVE ReaderTypes'
  BY <1>12 DEF T!Sleeps
<1> QED
  BY <1>1, <1>2, <1>3, <1>4, <1>5, <1>6, <1>7, <1>8, <1>9, <1>10, <1>11, <1>12 DEF T!Next

LEMMA ProbeStep == ReaderInv /\ T!Next => ProbeInv'
<1> SUFFICES ASSUME ReaderTypes, ProbeInv, T!Next PROVE ProbeInv'
  BY DEF ReaderInv
<1>0. Held \in Nat /\ (UNCHANGED holds => Held' = Held)
  BY HeldGrows
<1> USE ReaderConstants, <1>0
    DEF ReaderTypes, T!env, T!ghosts, ProbeInv, Left, T!AliveIsKept, T!Timeout
<1>1. CASE T!Outputs
  BY <1>1 DEF T!Outputs
<1>2. CASE T!Exits
  BY <1>2 DEF T!Exits
<1>3. CASE T!Replies
  BY <1>3 DEF T!Replies
<1>4. CASE T!Stops
  BY <1>4 DEF T!Stops
<1>5. CASE T!Holds
  BY <1>5, HeldGrows DEF T!Holds
<1>6. CASE T!LetsGo
  BY <1>6 DEF T!LetsGo
<1>7. CASE T!Turns
  <2>1. probe = None /\ UNCHANGED <<now, link, replies, holder, holds>>
    BY <1>7 DEF T!Turns
  <2>2. closedAs' = "lost" => link = "gone" \/ closedAs = "lost"
    BY <1>7, TurnCases
  <2>3. reader'.mode = reader.mode
    BY <1>7, TurnCases
  <2>4. probe' # None => /\ reader.mode # "keepalive" /\ probe'.at = now
                         /\ probe'.until = now + T!Timeout /\ ~probe'.replied
    BY <1>7, <2>1, TurnCases DEF T!Asks
  <2> QED
    BY <2>1, <2>2, <2>3, <2>4
<1>8. CASE T!ProbeEnds
  <2>1. probe # None /\ probe' = None /\ UNCHANGED <<now, link, replies, holder, holds>>
    BY <1>8 DEF T!ProbeEnds
  <2>2. reader'.mode = "reply" => replies
    BY <1>8, <2>1, EndCases
  <2>3. closedAs' = "lost" => link # "up"
    <3>1. CASE closedAs = "lost"
      BY <3>1
    <3>2. CASE closedAs # "lost" /\ closedAs' = "lost"
      <4>1. ~probe.replied /\ (link = "gone" \/ (now >= probe.until /\ reader.mode # "uncalibrated"))
        BY <1>8, <3>2, EndCases
      <4>2. probe.at \in Nat /\ now \in Nat
        BY <2>1
      <4> QED
        BY <2>1, <4>1, <4>2
    <3> QED
      BY <3>1, <3>2
  <2> QED
    BY <2>1, <2>2, <2>3
<1>9. CASE T!Ends
  BY <1>9 DEF T!Ends
<1>10. CASE T!TimePasses
  BY <1>10 DEF T!TimePasses, T!ProbeMayEnd
<1>11. ASSUME NEW how \in {"silent", "gone"}, T!Breaks(how) PROVE ProbeInv'
  BY <1>11 DEF T!Breaks
<1>12. ASSUME NEW b \in BOOLEAN, T!Sleeps(b) PROVE ProbeInv'
  BY <1>12 DEF T!Sleeps
<1> QED
  BY <1>1, <1>2, <1>3, <1>4, <1>5, <1>6, <1>7, <1>8, <1>9, <1>10, <1>11, <1>12 DEF T!Next

LEMMA SilentStep == ReaderInv /\ T!Next => SilentInv'
<1> SUFFICES ASSUME ReaderTypes, ProbeInv, SilentInv, T!Next PROVE SilentInv'
  BY DEF ReaderInv
<1>0. Held \in Nat /\ (UNCHANGED holds => Held' = Held)
  BY HeldGrows
<1> USE ReaderConstants, <1>0
    DEF ReaderTypes, T!env, T!ghosts, Left, SilentInv, SilentProbe, SilentIdle
<1>1. CASE T!Outputs
  BY <1>1 DEF T!Outputs
<1>2. CASE T!Exits
  BY <1>2 DEF T!Exits
<1>3. CASE T!Replies
  BY <1>3 DEF T!Replies
<1>4. CASE T!Stops
  BY <1>4 DEF T!Stops
<1>5. CASE T!Holds
  BY <1>5, HeldGrows DEF T!Holds
<1>6. CASE T!LetsGo
  BY <1>6 DEF T!LetsGo
<1>7. CASE T!Turns
  <2>1. /\ probe = None /\ holder = None /\ closedAs = None /\ slept' = FALSE
        /\ UNCHANGED <<now, link, holder, holds, silentAt, wokeAt>>
    BY <1>7 DEF T!Turns, T!ghosts
  <2>2. reader'.mode = reader.mode /\ reader'.probed = reader.probed
    BY <1>7, TurnCases
  <2> SUFFICES ASSUME link = "silent", closedAs' = None PROVE SilentInv'
    BY <2>1
  <2>3. CASE /\ incoming /\ ~incoming' /\ reader'.received = now
             /\ reader'.probeNow = T!Wake /\ probe' = probe
    BY <2>1, <2>2, <2>3 DEF T!Wake
  <2>4. CASE /\ ~incoming /\ ~incoming' /\ reader'.received = reader.received
             /\ probe' # None /\ probe'.at = now /\ ~probe'.replied
    BY <2>1, <2>2, <2>4
  <2>5. CASE /\ reader'.received = reader.received /\ probe' = probe /\ incoming' = incoming
             /\ ~T!Asks(T!Wake) \/ reader.mode = "keepalive"
             /\ T!Wake => reader'.probeNow \/ reader.mode = "keepalive"
    BY <2>1, <2>2, <2>5 DEF T!Wake
  <2> QED
    BY <1>7, <2>1, <2>3, <2>4, <2>5, TurnCases
<1>8. CASE T!ProbeEnds
  <2>1. /\ probe # None /\ probe' = None /\ closedAs = None
        /\ UNCHANGED <<now, link, incoming, slept, holder, holds, silentAt, wokeAt>>
    BY <1>8 DEF T!ProbeEnds
  <2> SUFFICES ASSUME link = "silent", closedAs' = None PROVE SilentInv'
    BY <2>1
  <2>2. CASE /\ probe.replied /\ reader'.mode = "reply" /\ reader'.probed = now
             /\ reader'.received = reader.received
    BY <2>1, <2>2 DEF ProbeInv
  <2>3. CASE reader'.mode = "keepalive"
    BY <2>1, <2>3
  <2> QED
    BY <1>8, <2>2, <2>3, EndCases
<1>9. CASE T!Ends
  BY <1>9 DEF T!Ends
<1>10. CASE T!TimePasses
  BY <1>10 DEF T!TimePasses, T!MayTurn, T!ProbeMayEnd, T!Asks, T!Wake, T!Idle
<1>11. ASSUME NEW how \in {"silent", "gone"}, T!Breaks(how) PROVE SilentInv'
  BY <1>11 DEF T!Breaks, ProbeInv
<1>12. ASSUME NEW b \in BOOLEAN, T!Sleeps(b) PROVE SilentInv'
  BY <1>12 DEF T!Sleeps, ProbeInv
<1> QED
  BY <1>1, <1>2, <1>3, <1>4, <1>5, <1>6, <1>7, <1>8, <1>9, <1>10, <1>11, <1>12 DEF T!Next

LEMMA ReaderStep == ReaderInv /\ [T!Next]_terminalVars => ReaderInv'
<1>1. ReaderInv /\ T!Next => ReaderInv'
  BY ReaderTypesStep, ProbeStep, SilentStep DEF ReaderInv
<1>2. ReaderInv /\ UNCHANGED terminalVars => ReaderInv'
  BY DEF ReaderInv, ReaderTypes, ProbeInv, SilentInv, SilentProbe, SilentIdle, terminalVars,
         Left, Held, T!AliveIsKept, T!Timeout
<1> QED
  BY <1>1, <1>2

LEMMA ReaderActs == [ConnectionsNext]_connectionVars => [T!Next]_terminalVars
  BY DEF ConnectionsNext, connectionVars, Rest

LEMMA ReaderTells == ReaderInv => T!AliveIsKept /\ T!DeadIsNoticed
<1> SUFFICES ASSUME ReaderInv, T!Watching PROVE T!DeadIsNoticed
  BY DEF ReaderInv, ProbeInv, T!DeadIsNoticed
<1>1. Held \in Nat
  BY HeldGrows DEF ReaderInv
<1> QED
  BY <1>1, ReaderConstants
  DEF ReaderInv, ReaderTypes, ProbeInv, SilentInv, SilentProbe, SilentIdle, T!Watching,
      T!DeadIsNoticed, T!Timeout, Left, Held

-----------------------------------------------------------------------------
(* The text of a terminal.                                                 *)

\* What holds of each number when it holds of those after it holds of all.
LEMMA Downwards ==
  ASSUME NEW n \in Nat, NEW X,
         \A i \in 1 .. n : (\A j \in i + 1 .. n : j \in X) => i \in X
  PROVE  1 .. n \subseteq X
<1> DEFINE N == {m \in Nat : m < n /\ n - m \notin X}
<1>1. CASE N = {}
  <2>1. ASSUME NEW i \in 1 .. n PROVE i \in X
    <3>1. n - i \in Nat /\ n - i < n /\ n - (n - i) = i
      OBVIOUS
    <3> QED
      BY <1>1, <3>1
  <2> QED
    BY <2>1
<1>2. CASE N # {}
  <2>1. PICK m \in N : \A k \in N : m <= k
    <3>1. N \subseteq Nat
      OBVIOUS
    <3> HIDE DEF N
    <3> QED
      BY <1>2, <3>1, LeastExists
  <2>2. n - m \in 1 .. n
    OBVIOUS
  <2>3. ASSUME NEW j \in (n - m) + 1 .. n PROVE j \in X
    <3>1. n - j \in Nat /\ n - j < n /\ ~(m <= n - j) /\ n - (n - j) = j
      OBVIOUS
    <3> QED
      BY <2>1, <3>1
  <2> QED
    BY <2>2, <2>3
<1> QED
  BY <1>1, <1>2

Bytes == Seq(0 .. 4)
Wanted(b, i) == IF b[i] = 0 THEN 0 ELSE b[i] - 1
Following(b, i, k) ==
  /\ k \in Nat /\ k <= Wanted(b, i) /\ i + k <= Len(b) /\ \A j \in 1 .. k : b[i + j] = 0
  /\ k = Wanted(b, i) \/ i + k = Len(b) \/ b[i + k + 1] # 0

LEMMA FollowIs ==
  ASSUME NEW b \in Bytes, NEW i \in 1 .. Len(b)
  PROVE  Following(b, i, U!Follow(b, i))
<1> DEFINE w == Wanted(b, i)
           fits == {k \in 0 .. w : i + k <= Len(b) /\ \A j \in 1 .. k : b[i + j] = 0}
<1>1. Len(b) \in Nat /\ i \in Nat /\ b[i] \in 0 .. 4
  BY ElementOfSeq, LenProperties DEF Bytes
<1>2. w \in 0 .. 3 /\ 0 \in fits
  BY <1>1 DEF Wanted
<1>3. PICK k \in fits : \A j \in fits : k >= j
  <2>1. fits \subseteq 0 .. 3
    BY <1>2
  <2> HIDE DEF fits
  <2> QED
    BY <1>2, <2>1
<1>4. U!Follow(b, i) = U!Max(fits)
  BY DEF U!Follow, Wanted
<1>5. U!Max(fits) \in fits /\ \A j \in fits : U!Max(fits) >= j
  <2> HIDE DEF fits
  <2> QED
    BY <1>3 DEF U!Max
<1>6. PICK m : m = U!Follow(b, i) /\ m \in fits /\ \A j \in fits : m >= j
  BY <1>4, <1>5
<1>7. ASSUME m < w, i + m < Len(b), b[i + m + 1] = 0 PROVE FALSE
  <2>1. m + 1 \in 0 .. w /\ i + (m + 1) <= Len(b) /\ m \in Nat
    BY <1>1, <1>2, <1>6, <1>7
  <2>2. ASSUME NEW j \in 1 .. m + 1 PROVE b[i + j] = 0
    <3>1. CASE j = m + 1
      <4>1. i + j = i + m + 1
        BY <1>1, <2>1, <3>1
      <4> QED
        BY <1>7, <4>1
    <3>2. CASE j \in 1 .. m
      BY <1>6, <3>2
    <3> QED
      BY <2>1, <3>1, <3>2
  <2>3. m + 1 \in fits
    BY <2>1, <2>2
  <2> HIDE DEF fits
  <2> QED
    BY <1>6, <2>1, <2>3
<1>8. m \in 0 .. w /\ i + m <= Len(b) /\ \A j \in 1 .. m : b[i + j] = 0
  BY <1>6
<1> HIDE DEF fits
<1>9. m = w \/ i + m = Len(b) \/ b[i + m + 1] # 0
  BY <1>1, <1>2, <1>7, <1>8
<1>10. m \in Nat /\ m <= Wanted(b, i)
  BY <1>2, <1>8
<1>11. w = Wanted(b, i)
  OBVIOUS
<1> HIDE DEF w
<1> QED
  BY <1>6, <1>8, <1>9, <1>10, <1>11 DEF Following

LEMMA FollowIsOnly ==
  ASSUME NEW b \in Bytes, NEW i \in 1 .. Len(b), NEW k, Following(b, i, k)
  PROVE  U!Follow(b, i) = k
<1>1. PICK m : m = U!Follow(b, i) /\ Following(b, i, m)
  BY FollowIs
<1>2. i \in Nat /\ m \in Nat /\ k \in Nat /\ Len(b) \in Nat /\ Wanted(b, i) \in Nat
  <2>1. b[i] \in 0 .. 4 /\ Len(b) \in Nat
    BY ElementOfSeq, LenProperties DEF Bytes
  <2>2. Wanted(b, i) \in Nat
    BY <2>1 DEF Wanted
  <2>3. m \in Nat /\ k \in Nat
    BY <1>1 DEF Following
  <2> QED
    BY <2>1, <2>2, <2>3
<1>3. ASSUME NEW p \in Nat, NEW q \in Nat, Following(b, i, p), Following(b, i, q), p < q
      PROVE  FALSE
  <2>1. p + 1 \in 1 .. q /\ i + (p + 1) = i + p + 1
    BY <1>2, <1>3
  <2>2. b[i + p + 1] = 0
    BY <1>3, <2>1 DEF Following
  <2>3. p < Wanted(b, i) /\ i + p < Len(b)
    BY <1>2, <1>3 DEF Following
  <2> QED
    BY <1>2, <1>3, <2>2, <2>3 DEF Following
<1> QED
  BY <1>1, <1>2, <1>3

LEMMA ContinuationsFit ==
  ASSUME NEW b \in Bytes, NEW i \in 1 .. Len(b)
  PROVE  /\ U!Follow(b, i) \in Nat /\ i + U!Follow(b, i) <= Len(b)
         /\ i + 1 + U!Follow(b, i) \in i + 1 .. Len(b) + 1
         /\ U!Char(b, i) \in Bytes
         /\ U!Cut(b, i) => Len(b) - i < 3
<1>1. PICK k : k = U!Follow(b, i) /\ Following(b, i, k)
  BY FollowIs
<1>2. b[i] \in 0 .. 4 /\ Len(b) \in Nat
  BY ElementOfSeq, LenProperties DEF Bytes
<1>3. k \in Nat /\ i + k <= Len(b) /\ k <= Wanted(b, i)
  BY <1>1 DEF Following
<1>4. U!Char(b, i) \in Bytes
  <2>1. \A j \in i .. i + k : b[j] \in 0 .. 4
    BY <1>2, <1>3, ElementOfSeq DEF Bytes
  <2>2. i \in Int /\ i + k \in Int
    BY <1>3
  <2>3. SubSeq(b, i, i + k) \in Bytes
    BY <2>1, <2>2, SubSeqProperties DEF Bytes
  <2>4. U!Bad \in Bytes
    BY EmptySeq DEF U!Bad, Bytes
  <2> QED
    BY <1>1, <2>3, <2>4 DEF U!Char
<1>5. U!Cut(b, i) => Len(b) - i < 3
  BY <1>1, <1>2, <1>3 DEF U!Cut, U!Complete, Wanted
<1> QED
  BY <1>1, <1>2, <1>3, <1>4, <1>5

\* Where two sequences agree up to the end of one, they have the same character,
\* unless it is cut off at that end.
LEMMA SameChar ==
  ASSUME NEW b \in Bytes, NEW c \in Bytes, NEW i \in 1 .. Len(b), NEW j \in 1 .. Len(c),
         Len(b) - i <= Len(c) - j,
         \A k \in 0 .. Len(b) - i : b[i + k] = c[j + k],
         Len(b) - i = Len(c) - j \/ ~U!Cut(b, i)
  PROVE  /\ U!Follow(c, j) = U!Follow(b, i) /\ (U!Cut(c, j) <=> U!Cut(b, i))
         /\ U!Char(c, j) = U!Char(b, i)
<1>1. PICK k : k = U!Follow(b, i) /\ Following(b, i, k)
  BY FollowIs
<1>2. b[i] \in 0 .. 4 /\ Len(b) \in Nat /\ Len(c) \in Nat /\ k \in Nat
  BY <1>1, ElementOfSeq, LenProperties DEF Bytes, Following
<1>3. b[i] = c[j] /\ Wanted(c, j) = Wanted(b, i)
  <2>1. 0 \in 0 .. Len(b) - i /\ i + 0 = i /\ j + 0 = j
    BY <1>2
  <2>2. b[i + 0] = c[j + 0]
    BY <2>1
  <2> QED
    BY <2>1, <2>2 DEF Wanted
<1>4. Following(c, j, k)
  <2>1. k <= Wanted(c, j) /\ j + k <= Len(c)
    BY <1>1, <1>2, <1>3 DEF Following
  <2>2. ASSUME NEW m \in 1 .. k PROVE c[j + m] = 0
    <3>1. i + k <= Len(b) /\ b[i + m] = 0
      BY <1>1 DEF Following
    <3>2. m \in 0 .. Len(b) - i
      BY <1>2, <3>1
    <3> QED
      BY <3>1, <3>2
  <2>3. CASE k = Wanted(b, i)
    BY <1>2, <1>3, <2>1, <2>2, <2>3 DEF Following
  <2>4. CASE i + k < Len(b) /\ b[i + k + 1] # 0
    <3>1. k + 1 \in 0 .. Len(b) - i /\ i + (k + 1) = i + k + 1 /\ j + (k + 1) = j + k + 1
      BY <1>2, <2>4
    <3>2. c[j + k + 1] # 0
      BY <2>4, <3>1
    <3> QED
      BY <1>2, <2>1, <2>2, <3>2 DEF Following
  <2>5. CASE i + k = Len(b) /\ k # Wanted(b, i)
    <3>1. U!Cut(b, i)
      BY <1>1, <1>2, <2>5 DEF U!Cut, U!Complete, Wanted, Following
    <3>2. j + k = Len(c)
      BY <1>2, <2>5, <3>1
    <3> QED
      BY <1>2, <2>1, <2>2, <3>2 DEF Following
  <2>6. k = Wanted(b, i) \/ i + k = Len(b) \/ (b[i + k + 1] # 0 /\ i + k <= Len(b))
    BY <1>1 DEF Following
  <2> QED
    BY <1>2, <2>3, <2>4, <2>5, <2>6
<1>5. U!Follow(c, j) = k
  BY <1>4, FollowIsOnly
<1>6. U!Complete(c, j) <=> U!Complete(b, i)
  BY <1>1, <1>3, <1>5 DEF U!Complete
<1>7. U!Cut(c, j) <=> U!Cut(b, i)
  <2>1. /\ U!Cut(c, j) <=> b[i] # 0 /\ ~U!Complete(b, i) /\ j + k = Len(c)
        /\ U!Cut(b, i) <=> b[i] # 0 /\ ~U!Complete(b, i) /\ i + k = Len(b)
    BY <1>1, <1>3, <1>5, <1>6 DEF U!Cut
  <2>2. i + k <= Len(b)
    BY <1>1 DEF Following
  <2>3. i + k = Len(b) /\ U!Cut(b, i) => j + k = Len(c)
    BY <1>2
  <2>4. j + k = Len(c) => i + k = Len(b)
    BY <1>2, <2>2
  <2> QED
    BY <2>1, <2>3, <2>4
<1>8. SubSeq(c, j, j + k) = SubSeq(b, i, i + k)
  <2> DEFINE p == SubSeq(b, i, i + k)
             q == SubSeq(c, j, j + k)
  <2>1. i + k <= Len(b) /\ j + k <= Len(c) /\ i \in Int /\ i + k \in Int /\ j \in Int /\ j + k \in Int
    BY <1>1, <1>2, <1>4 DEF Following
  <2>2. (\A m \in i .. i + k : b[m] \in 0 .. 4) /\ (\A m \in j .. j + k : c[m] \in 0 .. 4)
    BY <1>2, <2>1, ElementOfSeq DEF Bytes
  <2>3. /\ p \in Bytes /\ Len(p) = k + 1 /\ \A m \in 1 .. i + k - i + 1 : p[m] = b[i + m - 1]
    BY <1>2, <2>1, <2>2, SubSeqProperties DEF Bytes
  <2>4. /\ q \in Bytes /\ Len(q) = k + 1 /\ \A m \in 1 .. j + k - j + 1 : q[m] = c[j + m - 1]
    BY <1>2, <2>1, <2>2, SubSeqProperties DEF Bytes
  <2> HIDE DEF p, q
  <2>5. ASSUME NEW m \in 1 .. k + 1 PROVE p[m] = q[m]
    <3>1. /\ m \in 1 .. i + k - i + 1 /\ m \in 1 .. j + k - j + 1 /\ m - 1 \in 0 .. Len(b) - i
          /\ i + (m - 1) = i + m - 1 /\ j + (m - 1) = j + m - 1
      BY <1>2, <2>1
    <3>2. b[i + (m - 1)] = c[j + (m - 1)]
      BY <3>1
    <3> QED
      BY <2>3, <2>4, <3>1, <3>2
  <2>6. p = q
    BY <2>3, <2>4, <2>5, SeqEqual DEF Bytes
  <2> QED
    BY <2>6 DEF p, q
<1> QED
  BY <1>1, <1>5, <1>6, <1>7, <1>8 DEF U!Char

Piece(b, f, i) ==
  IF i > Len(b) \/ U!Cut(b, i) THEN [text |-> <<>>, rest |-> i]
  ELSE [text |-> <<U!Char(b, i)>> \o f[i + 1 + U!Follow(b, i)].text,
        rest |-> f[i + 1 + U!Follow(b, i)].rest]
Reading(b, f) == [i \in 1 .. Len(b) + 1 |-> Piece(b, f, i)]
IsReading(b, f) == f = Reading(b, f)

\* The function of Decoded exists.
LEMMA ReadingExists ==
  ASSUME NEW b \in Bytes
  PROVE  \E f : IsReading(b, f) /\ U!Decoded(b) = f[1]
<1>1. PICK n : n = Len(b) + 1 /\ n \in Nat /\ Len(b) \in Nat
  BY LenProperties DEF Bytes
<1> DEFINE X == {i \in 1 .. n : \E f : f = [j \in i .. n |-> Piece(b, f, j)]}
<1>2. ASSUME NEW i \in 1 .. n, \A j \in i + 1 .. n : j \in X PROVE i \in X
  <2>1. PICK f : f = [j \in i + 1 .. n |-> Piece(b, f, j)]
    <3>1. CASE i < n
      <4>1. i + 1 \in i + 1 .. n
        BY <1>1, <3>1
      <4> QED
        BY <1>2, <4>1
    <3>2. CASE i = n
      <4>1. i + 1 .. n = {}
        BY <1>1, <3>2
      <4> DEFINE f == [j \in i + 1 .. n |-> 0]
      <4>2. f = [j \in i + 1 .. n |-> Piece(b, f, j)]
        BY <4>1
      <4> QED
        BY <4>2
    <3> QED
      BY <1>1, <3>1, <3>2
  <2> DEFINE g == [j \in i .. n |-> IF j = i THEN Piece(b, f, i) ELSE f[j]]
  <2>2. ASSUME NEW j \in i .. n PROVE g[j] = Piece(b, g, j)
    <3>1. Piece(b, g, j) = Piece(b, f, j)
      <4>1. CASE j > Len(b) \/ U!Cut(b, j)
        BY <4>1 DEF Piece
      <4>2. CASE ~(j > Len(b)) /\ ~U!Cut(b, j)
        <5>1. j \in 1 .. Len(b)
          BY <1>1, <4>2
        <5>2. PICK next : next = j + 1 + U!Follow(b, j) /\ next \in j + 1 .. Len(b) + 1
          BY <5>1, ContinuationsFit
        <5>3. next \in i .. n /\ next # i
          BY <1>1, <5>2
        <5>4. g[next] = f[next]
          BY <5>3
        <5> HIDE DEF g
        <5> QED
          BY <4>2, <5>2, <5>4 DEF Piece
      <4> QED
        BY <4>1, <4>2
    <3>2. CASE j = i
      BY <3>1, <3>2
    <3>3. CASE j # i
      <4>1. j \in i + 1 .. n
        BY <1>1, <3>3
      <4>2. g[j] = f[j]
        BY <3>3
      <4>3. f[j] = Piece(b, f, j)
        BY <2>1, <4>1
      <4> QED
        BY <3>1, <4>2, <4>3
    <3> QED
      BY <3>2, <3>3
  <2>3. g = [j \in i .. n |-> Piece(b, g, j)]
    BY <2>2
  <2> HIDE DEF g
  <2> QED
    BY <2>3
<1>3. 1 \in X
  <2> HIDE DEF X
  <2>1. 1 .. n \subseteq X
    BY <1>1, <1>2, Downwards
  <2> QED
    BY <1>1, <2>1
<1>4. \E f : f = Reading(b, f)
  BY <1>1, <1>3 DEF Reading
<1>5. PICK f : f = Reading(b, f) /\ f = CHOOSE g : g = Reading(b, g)
  BY <1>4
<1>6. U!Decoded(b) = (CHOOSE g : g = Reading(b, g))[1]
  BY Zenon DEF U!Decoded, Reading, Piece
<1> QED
  BY <1>5, <1>6 DEF IsReading

\* What is read from i on: characters, up to the end or where one is cut off.
Read(b, f, i) ==
  /\ f[i].text \in Seq(Bytes) /\ f[i].rest \in i .. Len(b) + 1
  /\ f[i].rest = Len(b) + 1 \/ U!Cut(b, f[i].rest)

LEMMA ReadingStops ==
  ASSUME NEW b \in Bytes, NEW f, IsReading(b, f), NEW i \in 1 .. Len(b) + 1,
         i = Len(b) + 1 \/ U!Cut(b, i)
  PROVE  f[i].text = <<>> /\ f[i].rest = i
<1>1. Len(b) \in Nat
  BY LenProperties DEF Bytes
<1>2. f[i] = Piece(b, f, i)
  BY DEF Reading, IsReading
<1>3. f[i] = [text |-> <<>>, rest |-> i]
  BY <1>1, <1>2 DEF Piece
<1> QED
  BY <1>3

GoesOn(b, f, i, next) ==
  /\ next \in i + 1 .. Len(b) + 1 /\ next = i + 1 + U!Follow(b, i)
  /\ f[i].text = <<U!Char(b, i)>> \o f[next].text /\ f[i].rest = f[next].rest

LEMMA ReadingGoesOn ==
  ASSUME NEW b \in Bytes, NEW f, IsReading(b, f), NEW i \in 1 .. Len(b), ~U!Cut(b, i)
  PROVE  \E next : GoesOn(b, f, i, next)
<1>1. Len(b) \in Nat
  BY LenProperties DEF Bytes
<1>2. f[i] = Piece(b, f, i) /\ ~(i > Len(b))
  BY <1>1 DEF Reading, IsReading
<1>3. PICK next \in i + 1 .. Len(b) + 1 : next = i + 1 + U!Follow(b, i)
  BY ContinuationsFit
<1>4. f[i] = [text |-> <<U!Char(b, i)>> \o f[next].text, rest |-> f[next].rest]
  BY <1>2, <1>3 DEF Piece
<1> QED
  BY <1>3, <1>4 DEF GoesOn

LEMMA ReadingIs ==
  ASSUME NEW b \in Bytes, NEW f, IsReading(b, f)
  PROVE  \A i \in 1 .. Len(b) + 1 : Read(b, f, i)
<1>1. PICK n : n = Len(b) + 1 /\ n \in Nat /\ Len(b) \in Nat
  BY LenProperties DEF Bytes
<1> DEFINE X == {i \in 1 .. n : Read(b, f, i)}
<1>2. ASSUME NEW i \in 1 .. n, \A j \in i + 1 .. n : j \in X PROVE i \in X
  <2>0. i \in 1 .. Len(b) + 1
    BY <1>1
  <2>1. CASE i = Len(b) + 1 \/ U!Cut(b, i)
    <3>1. f[i].text = <<>> /\ f[i].rest = i
      BY <2>0, <2>1, ReadingStops
    <3>2. <<>> \in Seq(Bytes)
      BY EmptySeq
    <3>3. i \in i .. Len(b) + 1
      BY <1>1
    <3>4. Read(b, f, i)
      BY <2>1, <3>1, <3>2, <3>3 DEF Read
    <3> QED
      BY <3>4
  <2>2. CASE i # Len(b) + 1 /\ ~U!Cut(b, i)
    <3>1. i \in 1 .. Len(b)
      BY <1>1, <2>2
    <3>2. PICK next : GoesOn(b, f, i, next)
      BY <2>2, <3>1, ReadingGoesOn
    <3>3. Read(b, f, next) /\ next > i /\ next \in Nat
      BY <1>1, <1>2, <3>2 DEF GoesOn
    <3>4. <<U!Char(b, i)>> \in Seq(Bytes)
      BY <3>1, ContinuationsFit
    <3>5. f[i].text \in Seq(Bytes)
      BY <3>2, <3>3, <3>4, ConcatProperties DEF Read, GoesOn
    <3>6. f[i].rest \in i .. Len(b) + 1
      BY <1>1, <3>2, <3>3 DEF Read, GoesOn
    <3>7. Read(b, f, i)
      BY <3>2, <3>3, <3>5, <3>6 DEF Read, GoesOn
    <3> QED
      BY <3>7
  <2> QED
    BY <2>1, <2>2
<1>3. 1 .. n \subseteq X
  <2> HIDE DEF X
  <2> QED
    BY <1>1, <1>2, Downwards
<1> QED
  BY <1>1, <1>3

LEMMA JoinedAny ==
  ASSUME NEW X, NEW p \in Seq(X), NEW q \in Seq(X), NEW r \in Seq(X)
  PROVE  p \o q \in Seq(X) /\ (p \o q) \o r = p \o (q \o r)
<1>1. p \o q \in Seq(X)
  BY ConcatProperties
<1>2. (p \o q) \o r = p \o (q \o r)
  BY ConcatAssociative
<1> QED
  BY <1>1, <1>2

LEMMA Joined ==
  \A p, q, r \in Seq(Bytes) : p \o q \in Seq(Bytes) /\ (p \o q) \o r = p \o (q \o r)
  BY JoinedAny

\* A part of a sequence, from after k up to h.
Slice(b, c, k, h) ==
  /\ k \in Nat /\ h \in Nat /\ k <= h /\ h <= Len(c)
  /\ b \in Bytes /\ Len(b) = h - k /\ \A i \in 1 .. h - k : b[i] = c[k + i]

LEMMA SliceIs ==
  ASSUME NEW c \in Bytes, NEW k \in Nat, NEW h \in Nat, k <= h, h <= Len(c)
  PROVE  Slice(SubSeq(c, k + 1, h), c, k, h)
<1>1. Len(c) \in Nat
  BY LenProperties DEF Bytes
<1> DEFINE m == k + 1
           b == SubSeq(c, m, h)
<1>2. m \in Int /\ h \in Int
  BY <1>1
<1>3. \A i \in m .. h : c[i] \in 0 .. 4
  BY <1>1, ElementOfSeq DEF Bytes
<1>4. m = k + 1 /\ b = SubSeq(c, m, h) /\ b = SubSeq(c, k + 1, h)
  OBVIOUS
<1> HIDE DEF b, m
<1>5. /\ b \in Bytes /\ Len(b) = IF m <= h THEN h - m + 1 ELSE 0
      /\ \A i \in 1 .. h - m + 1 : b[i] = c[m + i - 1]
  BY <1>2, <1>3, <1>4, SubSeqProperties DEF Bytes
<1>6. Len(b) = h - k /\ 1 .. h - m + 1 = 1 .. h - k
  BY <1>1, <1>4, <1>5
<1>7. \A i \in 1 .. h - k : m + i - 1 = k + i
  BY <1>1, <1>4
<1>8. ASSUME NEW i \in 1 .. h - k PROVE b[i] = c[k + i]
  <2>1. b[i] = c[m + i - 1] /\ m + i - 1 = k + i
    BY <1>5, <1>6, <1>7
  <2> QED
    BY <2>1
<1>9. Slice(b, c, k, h)
  BY <1>5, <1>6, <1>8 DEF Slice
<1> QED
  BY <1>4, <1>9

LEMMA SlicesJoined ==
  ASSUME NEW c \in Bytes, NEW k, NEW n, NEW h, NEW v, Slice(v, c, k, n),
         NEW w, Slice(w, c, n, h)
  PROVE  Slice(v \o w, c, k, h)
<1>1. /\ v \in Seq(0 .. 4) /\ w \in Seq(0 .. 4) /\ k \in Nat /\ n \in Nat /\ h \in Nat
      /\ k <= n /\ n <= h /\ h <= Len(c) /\ Len(v) = n - k /\ Len(w) = h - n
  BY DEF Slice, Bytes
<1>2. /\ v \o w \in Seq(0 .. 4) /\ Len(v \o w) = Len(v) + Len(w)
      /\ \A i \in 1 .. Len(v) + Len(w) :
           (v \o w)[i] = IF i <= Len(v) THEN v[i] ELSE w[i - Len(v)]
  BY <1>1, ConcatProperties
<1>3. PICK u : u = v \o w
  OBVIOUS
<1>4. u \in Bytes /\ Len(u) = h - k
  <2>1. Len(v) + Len(w) = h - k
    BY <1>1
  <2> QED
    BY <1>2, <1>3, <2>1 DEF Bytes
<1>5. ASSUME NEW i \in 1 .. h - k PROVE u[i] = c[k + i]
  <2>1. u[i] = IF i <= n - k THEN v[i] ELSE w[i - (n - k)]
    <3>1. Len(v) + Len(w) = h - k
      BY <1>1
    <3> QED
      BY <1>1, <1>2, <1>3, <3>1
  <2>2. CASE i <= n - k
    <3>1. i \in 1 .. n - k
      BY <1>1, <2>2
    <3>2. v[i] = c[k + i]
      BY <3>1 DEF Slice
    <3> QED
      BY <2>1, <2>2, <3>2
  <2>3. CASE ~(i <= n - k)
    <3>1. PICK j : j = i - (n - k) /\ j \in 1 .. h - n /\ n + j = k + i
      BY <1>1, <2>3
    <3>2. w[j] = c[n + j]
      BY <3>1 DEF Slice
    <3> QED
      BY <2>1, <2>3, <3>1, <3>2
  <2> QED
    BY <2>2, <2>3
<1>6. k <= h
  BY <1>1
<1> QED
  BY <1>1, <1>3, <1>4, <1>5, <1>6 DEF Slice

LEMMA SliceOfSlice ==
  ASSUME NEW c \in Bytes, NEW k, NEW h, NEW b, Slice(b, c, k, h), NEW s, NEW v,
         Slice(v, b, s, Len(b))
  PROVE  Slice(v, c, k + s, h)
<1>1. /\ k \in Nat /\ h \in Nat /\ k <= h /\ h <= Len(c) /\ Len(b) = h - k
      /\ s \in Nat /\ s <= Len(b) /\ Len(v) = Len(b) - s /\ v \in Bytes
  BY DEF Slice
<1>2. /\ k + s \in Nat /\ k + s <= h /\ Len(v) = h - (k + s)
  BY <1>1
<1>3. ASSUME NEW i \in 1 .. h - (k + s) PROVE v[i] = c[(k + s) + i]
  <2>1. i \in 1 .. Len(b) - s
    BY <1>1
  <2>2. v[i] = b[s + i]
    BY <2>1 DEF Slice
  <2>3. s + i \in 1 .. h - k /\ k + (s + i) = (k + s) + i
    BY <1>1
  <2>4. b[s + i] = c[k + (s + i)]
    BY <2>3 DEF Slice
  <2> QED
    BY <2>2, <2>3, <2>4
<1> QED
  BY <1>1, <1>2, <1>3 DEF Slice

\* What begins a character at the end does so in any part up to the end.
LEMMA SliceIsCut ==
  ASSUME NEW c \in Bytes, NEW s, NEW v, Slice(v, c, s, Len(c)), s < Len(c)
  PROVE  U!Cut(v, 1) <=> U!Cut(c, s + 1)
<1>1. s \in Nat /\ Len(c) \in Nat /\ v \in Bytes /\ Len(v) = Len(c) - s
  BY DEF Slice
<1>2. PICK j : j = s + 1 /\ j \in 1 .. Len(c) /\ 1 \in 1 .. Len(v) /\ Len(v) - 1 = Len(c) - j
  BY <1>1
<1>3. ASSUME NEW m \in 0 .. Len(v) - 1 PROVE v[1 + m] = c[j + m]
  <2>1. 1 + m \in 1 .. Len(c) - s /\ s + (1 + m) = j + m
    BY <1>1, <1>2
  <2>2. v[1 + m] = c[s + (1 + m)]
    BY <2>1 DEF Slice
  <2> QED
    BY <2>1, <2>2
<1>4. Len(v) - 1 <= Len(c) - j
  BY <1>1, <1>2
<1>5. U!Cut(c, j) <=> U!Cut(v, 1)
  BY <1>1, <1>2, <1>3, <1>4, SameChar
<1> QED
  BY <1>2, <1>5

\* A part is read as the whole is, up to where it is cut off.
Alike(f, g, k, i) ==
  /\ g[k + i].text = f[i].text \o g[k + f[i].rest].text
  /\ g[k + i].rest = g[k + f[i].rest].rest

LEMMA SliceIsRead ==
  ASSUME NEW c \in Bytes, NEW k, NEW h, NEW b \in Bytes, Slice(b, c, k, h),
         NEW f, IsReading(b, f), NEW g, IsReading(c, g)
  PROVE  \A i \in 1 .. Len(b) + 1 : Alike(f, g, k, i)
<1>1. Len(c) \in Nat /\ k \in Nat /\ h \in Nat /\ k <= h /\ h <= Len(c) /\ b \in Bytes
  BY LenProperties DEF Bytes, Slice
<1>2. Len(b) = h - k /\ \A i \in 1 .. h - k : b[i] = c[k + i]
  BY DEF Slice
<1>3. PICK n : n = Len(b) + 1 /\ n \in Nat /\ n = h - k + 1
  BY <1>1, <1>2
<1> DEFINE X == {i \in 1 .. n : /\ g[k + i].text = f[i].text \o g[k + f[i].rest].text
                               /\ g[k + i].rest = g[k + f[i].rest].rest}
<1>4. \A i \in 1 .. n : k + i \in 1 .. Len(c) + 1 /\ Read(c, g, k + i)
  <2>1. \A i \in 1 .. n : k + i \in 1 .. Len(c) + 1
    BY <1>1, <1>3
  <2> QED
    BY <2>1, ReadingIs
<1>5. \A i \in 1 .. n : Read(b, f, i)
  BY <1>2, <1>3, ReadingIs
<1>6. ASSUME NEW i \in 1 .. n, \A j \in i + 1 .. n : j \in X PROVE i \in X
  <2>0. i \in 1 .. Len(b) + 1
    BY <1>3
  <2>1. CASE i = Len(b) + 1 \/ U!Cut(b, i)
    <3>1. f[i].text = <<>> /\ f[i].rest = i
      BY <2>0, <2>1, ReadingStops
    <3>2. g[k + i].text \in Seq(Bytes)
      BY <1>4 DEF Read
    <3> QED
      BY <3>1, <3>2, ConcatEmptySeq
  <2>2. CASE i # Len(b) + 1 /\ ~U!Cut(b, i)
    <3>1. i \in 1 .. Len(b) /\ k + i \in 1 .. Len(c)
      BY <1>1, <1>2, <1>3, <2>2
    <3>2. PICK next : GoesOn(b, f, i, next)
      BY <2>2, <3>1, ReadingGoesOn
    <3>3. /\ U!Follow(c, k + i) = U!Follow(b, i) /\ ~U!Cut(c, k + i)
          /\ U!Char(c, k + i) = U!Char(b, i)
      <4>1. Len(b) - i <= Len(c) - (k + i)
        BY <1>1, <1>2
      <4>2. ASSUME NEW m \in 0 .. Len(b) - i PROVE b[i + m] = c[(k + i) + m]
        <5>1. i + m \in 1 .. h - k /\ k + (i + m) = (k + i) + m
          BY <1>1, <1>2, <3>1
        <5> QED
          BY <1>2, <5>1
      <4> QED
        BY <2>2, <3>1, <4>1, <4>2, SameChar
    <3>4. PICK next2 : GoesOn(c, g, k + i, next2)
      BY <3>1, <3>3, ReadingGoesOn
    <3>5. next2 = k + next
      <4>1. U!Follow(b, i) \in Nat
        BY <3>1, ContinuationsFit
      <4> QED
        BY <1>1, <3>2, <3>3, <3>4, <4>1 DEF GoesOn
    <3>6. next \in i + 1 .. n /\ next \in 1 .. n
      BY <1>3, <3>2 DEF GoesOn
    <3>7. /\ g[k + next].text = f[next].text \o g[k + f[next].rest].text
          /\ g[k + next].rest = g[k + f[next].rest].rest
      BY <1>6, <3>6
    <3>8. /\ <<U!Char(b, i)>> \in Seq(Bytes) /\ f[next].text \in Seq(Bytes)
          /\ g[k + f[next].rest].text \in Seq(Bytes)
      <4>1. Read(b, f, next)
        BY <1>5, <3>6
      <4>2. f[next].rest \in 1 .. n
        BY <1>3, <3>6, <4>1 DEF Read
      <4>3. Read(c, g, k + f[next].rest)
        BY <1>4, <4>2
      <4>4. U!Char(b, i) \in Bytes
        BY <3>1, ContinuationsFit
      <4> QED
        BY <4>1, <4>3, <4>4 DEF Read
    <3>9. g[k + i].text = (<<U!Char(b, i)>> \o f[next].text) \o g[k + f[next].rest].text
      <4>1. PICK p, q, r : /\ p = <<U!Char(b, i)>> /\ q = f[next].text
                           /\ r = g[k + f[next].rest].text
        OBVIOUS
      <4>2. p \in Seq(Bytes) /\ q \in Seq(Bytes) /\ r \in Seq(Bytes)
        BY <3>8, <4>1
      <4>3. (p \o q) \o r = p \o (q \o r)
        BY <4>2, Joined
      <4>4. g[k + i].text = p \o (q \o r)
        BY <3>3, <3>4, <3>5, <3>7, <4>1 DEF GoesOn
      <4> QED
        BY <4>1, <4>3, <4>4
    <3> QED
      BY <3>2, <3>4, <3>5, <3>7, <3>9 DEF GoesOn
  <2> QED
    BY <2>1, <2>2
<1>7. 1 .. n \subseteq X
  <2> HIDE DEF X
  <2> QED
    BY <1>3, <1>6, Downwards
<1>8. \A i \in 1 .. n : Alike(f, g, k, i)
  BY <1>7 DEF Alike
<1> QED
  BY <1>3, <1>8

\* From after the first k bytes on, the stream is read as from the start: what was
\* shown comes before, and what waits is the beginning of a character.
Waits(b, t, w, n, k) ==
  /\ Slice(w, b, k, n) /\ t \in Seq(Bytes)
  /\ w = <<>> \/ U!Cut(w, 1)
  /\ \E g : /\ IsReading(b, g) /\ U!Decoded(b) = g[1]
            /\ g[1].text = t \o g[k + 1].text /\ g[1].rest = g[k + 1].rest

StreamInv ==
  /\ output \in Bytes /\ read \in 0 .. Len(output) /\ over \in BOOLEAN
  /\ ~over => \E k : Waits(output, text, waiting, read, k)
  /\ over => waiting = <<>> /\ text = U!Lossy(output)

LEMMA StreamInit == U!Init => StreamInv
<1> SUFFICES ASSUME U!Init PROVE StreamInv
  OBVIOUS
<1>1. output \in Bytes /\ read = 0 /\ waiting = <<>> /\ text = <<>> /\ over = FALSE
  BY ConnectionsAssumption DEF U!Init, U!Utf8StreamAssumption, Bytes
<1>2. PICK g : IsReading(output, g) /\ U!Decoded(output) = g[1]
  BY <1>1, ReadingExists
<1>3. Len(output) \in Nat /\ Len(<<>>) = 0 /\ <<>> \in Bytes /\ <<>> \in Seq(Bytes)
  BY <1>1, LenProperties, EmptySeq DEF Bytes
<1>4. g[1].text \in Seq(Bytes)
  <2>1. 1 \in 1 .. Len(output) + 1
    BY <1>3
  <2> QED
    BY <1>1, <1>2, <2>1, ReadingIs DEF Read
<1>5. g[1].text = <<>> \o g[1].text
  BY <1>4, ConcatEmptySeq
<1>6. Slice(<<>>, output, 0, 0)
  BY <1>3 DEF Slice
<1>7. Waits(output, <<>>, <<>>, 0, 0)
  <2>1. g[1].text = <<>> \o g[0 + 1].text /\ g[1].rest = g[0 + 1].rest
    BY <1>5
  <2> QED
    BY <1>2, <1>3, <1>6, <2>1 DEF Waits
<1>8. \E k : Waits(output, text, waiting, read, k)
  BY <1>1, <1>7
<1>9. output \in Bytes /\ read \in 0 .. Len(output) /\ over \in BOOLEAN
  <2>1. output \in Bytes
    BY Zenon, <1>1
  <2>2. over \in BOOLEAN
    BY Zenon, <1>1
  <2>3. read \in 0 .. Len(output)
    BY <1>1, <1>3
  <2> QED
    BY <2>1, <2>2, <2>3
<1>10. over => waiting = <<>> /\ text = U!Lossy(output)
  BY <1>1
<1> QED
  BY <1>8, <1>9, <1>10 DEF StreamInv

\* A read: what waited and what came are read together, and what is cut off waits.
LEMMA ReadsOn ==
  ASSUME NEW b \in Bytes, NEW t, NEW w, NEW n, NEW k, Waits(b, t, w, n, k),
         NEW h, NEW a, Slice(a, b, k, h)
  PROVE  \E q : Waits(b, t \o U!Decoded(a).text, SubSeq(a, U!Decoded(a).rest, Len(a)), h, q)
<1>1. a \in Bytes
  BY DEF Slice
<1>2. PICK d, f : IsReading(a, f) /\ d = f[1] /\ d = U!Decoded(a)
  BY <1>1, ReadingExists
<1>3. PICK g : /\ IsReading(b, g) /\ U!Decoded(b) = g[1]
               /\ g[1].text = t \o g[k + 1].text /\ g[1].rest = g[k + 1].rest
  BY DEF Waits
<1>4. PICK l : l = Len(a) /\ l \in Nat /\ 1 \in 1 .. l + 1
  BY <1>1, LenProperties DEF Bytes
<1>5. /\ g[k + 1].text = d.text \o g[k + d.rest].text /\ g[k + 1].rest = g[k + d.rest].rest
  <2>1. 1 \in 1 .. Len(a) + 1
    BY <1>4
  <2>3. IsReading(a, f) /\ IsReading(b, g)
    BY <1>2, <1>3
  <2>2. \A i \in 1 .. Len(a) + 1 : Alike(f, g, k, i)
    BY <1>1, <2>3, SliceIsRead
  <2>4. Alike(f, g, k, 1)
    BY <2>1, <2>2
  <2> QED
    BY <1>2, <2>4 DEF Alike
<1>6. d.rest \in 1 .. l + 1 /\ d.text \in Seq(Bytes) /\ (d.rest = l + 1 \/ U!Cut(a, d.rest))
  <2>1. Read(a, f, 1)
    BY <1>1, <1>2, <1>4, ReadingIs
  <2> QED
    BY <1>2, <1>4, <2>1 DEF Read
<1>7. PICK s : s \in Nat /\ s <= l /\ s + 1 = d.rest
  <2>1. PICK r : r = d.rest /\ r \in 1 .. l + 1
    BY <1>6
  <2>2. r - 1 \in Nat /\ r - 1 <= l /\ (r - 1) + 1 = r
    BY <1>4, <2>1
  <2> QED
    BY <2>1, <2>2
<1>8. PICK v : v = SubSeq(a, d.rest, Len(a)) /\ Slice(v, a, s, Len(a))
  <2>1. Slice(SubSeq(a, s + 1, Len(a)), a, s, Len(a))
    BY <1>1, <1>4, <1>7, SliceIs
  <2> QED
    BY <1>7, <2>1
<1>9. Slice(v, b, k + s, h)
  BY <1>1, <1>8, SliceOfSlice
<1>10. v = <<>> \/ U!Cut(v, 1)
  <2>1. CASE s = l
    <3>1. Len(v) = l - s /\ v \in Bytes
      BY <1>4, <1>8 DEF Slice
    <3>2. Len(v) = 0
      BY <1>4, <2>1, <3>1
    <3> QED
      BY <3>1, <3>2, EmptySeq DEF Bytes
  <2>2. CASE s # l
    <3>1. s < Len(a) /\ s + 1 # l + 1
      BY <1>4, <1>7, <2>2
    <3>2. U!Cut(v, 1) <=> U!Cut(a, s + 1)
      BY <1>1, <1>8, <3>1, SliceIsCut
    <3> QED
      BY <1>6, <1>7, <3>1, <3>2
  <2> QED
    BY <2>1, <2>2
<1>11. PICK x, y : x = d.text /\ y = g[k + d.rest].text
  OBVIOUS
<1>12. k + d.rest = (k + s) + 1 /\ k + d.rest \in 1 .. Len(b) + 1
  <2>1. /\ k \in Nat /\ h \in Nat /\ k <= h /\ h <= Len(b) /\ l = h - k
    BY <1>1, <1>4 DEF Slice
  <2>2. Len(b) \in Nat
    BY LenProperties DEF Bytes
  <2>3. k + (s + 1) = (k + s) + 1 /\ k + (s + 1) \in 1 .. Len(b) + 1
    BY <1>7, <2>1, <2>2
  <2> QED
    BY <1>7, <2>3
<1>13. t \in Seq(Bytes) /\ x \in Seq(Bytes) /\ y \in Seq(Bytes)
  <2>1. Read(b, g, k + d.rest)
    BY <1>3, <1>12, ReadingIs
  <2> QED
    BY <1>6, <1>11, <2>1 DEF Read, Waits
<1>14. t \o x \in Seq(Bytes) /\ (t \o x) \o y = t \o (x \o y)
  BY <1>13, Joined
<1>15. /\ g[1].text = (t \o d.text) \o g[(k + s) + 1].text /\ g[1].rest = g[(k + s) + 1].rest
       /\ t \o d.text \in Seq(Bytes)
  BY <1>3, <1>5, <1>11, <1>12, <1>14
<1>16. Waits(b, t \o d.text, v, h, k + s)
  BY <1>3, <1>9, <1>10, <1>15 DEF Waits
<1> QED
  BY <1>2, <1>8, <1>16
\* What the whole stream reads as: what was shown, and what waits as no character.
LEMMA EndsWhole ==
  ASSUME NEW b \in Bytes, NEW t, NEW w, NEW k, Waits(b, t, w, Len(b), k)
  PROVE  U!Lossy(b) = t \o (IF w = <<>> THEN <<>> ELSE U!Lossy(w))
<1>1. PICK g : /\ IsReading(b, g) /\ U!Decoded(b) = g[1]
               /\ g[1].text = t \o g[k + 1].text /\ g[1].rest = g[k + 1].rest
  BY DEF Waits
<1>2. /\ w \in Bytes /\ k \in Nat /\ Len(b) \in Nat /\ k <= Len(b) /\ Len(w) = Len(b) - k
      /\ t \in Seq(Bytes)
  BY DEF Waits, Slice
<1>3. CASE w = <<>>
  <2>1. k + 1 = Len(b) + 1 /\ k + 1 \in 1 .. Len(b) + 1
    <3>1. Len(w) = 0
      BY <1>3
    <3> QED
      BY <1>2, <3>1
  <2>2. g[k + 1].text = <<>> /\ g[k + 1].rest = k + 1
    BY <1>1, <2>1, ReadingStops
  <2>3. g[1].text = t /\ g[1].rest > Len(b)
    BY <1>1, <1>2, <2>1, <2>2, ConcatEmptySeq
  <2> QED
    BY <1>1, <1>3, <2>3 DEF U!Lossy
<1>4. CASE w # <<>>
  <2>1. Len(w) \in Nat /\ Len(w) # 0
    BY <1>2, <1>4, EmptySeq DEF Bytes
  <2>2. k < Len(b) /\ k + 1 \in 1 .. Len(b) + 1 /\ 1 \in 1 .. Len(w) + 1 /\ ~(1 > Len(w))
        /\ ~(k + 1 > Len(b))
    BY <1>2, <2>1
  <2>3. U!Cut(w, 1) /\ U!Cut(b, k + 1)
    BY <1>4, <2>2, SliceIsCut DEF Waits
  <2>4. g[k + 1].text = <<>> /\ g[k + 1].rest = k + 1
    BY <1>1, <2>2, <2>3, ReadingStops
  <2>5. g[1].text = t /\ ~(g[1].rest > Len(b))
    BY <1>1, <1>2, <2>2, <2>4, ConcatEmptySeq
  <2>6. U!Lossy(b) = t \o <<U!Bad>>
    BY <1>1, <2>5 DEF U!Lossy
  <2>7. PICK f : IsReading(w, f) /\ U!Decoded(w) = f[1]
    BY <1>2, ReadingExists
  <2>8. f[1].text = <<>> /\ f[1].rest = 1
    BY <1>2, <2>2, <2>3, <2>7, ReadingStops
  <2>9. U!Lossy(w) = <<>> \o <<U!Bad>>
    BY <2>2, <2>7, <2>8 DEF U!Lossy
  <2>10. <<>> \o <<U!Bad>> = <<U!Bad>>
    <3>1. <<U!Bad>> \in Seq({U!Bad})
      OBVIOUS
    <3> QED
      BY <3>1, ConcatEmptySeq
  <2> QED
    BY <1>4, <2>6, <2>9, <2>10
<1> QED
  BY <1>3, <1>4

LEMMA StreamStep == StreamInv /\ [U!Next]_streamVars => StreamInv'
<1> SUFFICES ASSUME StreamInv, [U!Next]_streamVars PROVE StreamInv'
  OBVIOUS
<1>1. CASE UNCHANGED streamVars
  BY <1>1 DEF StreamInv, streamVars
<1>2. ASSUME NEW m \in 1 .. Len(output), U!Reads(m) PROVE StreamInv'
  <2>1. PICK k : Waits(output, text, waiting, read, k)
    BY <1>2 DEF StreamInv, U!Reads
  <2>2. PICK c, h : h = read + m /\ c = SubSeq(output, read + 1, h) /\ Slice(c, output, read, h)
    <3>1. PICK h : h = read + m /\ h \in Nat /\ read \in Nat /\ read <= h /\ h <= Len(output)
      BY <1>2 DEF U!Reads, StreamInv
    <3> QED
      BY <3>1, SliceIs DEF StreamInv
  <2>3. PICK a : a = waiting \o c /\ Slice(a, output, k, h)
    <3>1. output \in Bytes /\ Slice(waiting, output, k, read) /\ Slice(c, output, read, h)
      BY <2>1, <2>2 DEF StreamInv, Waits
    <3>2. Slice(waiting \o c, output, k, h)
      BY <3>1, SlicesJoined
    <3> QED
      BY <3>2
  <2>4. PICK d, v : d = U!Decoded(a) /\ v = SubSeq(a, d.rest, Len(a))
    OBVIOUS
  <2>5. PICK q : Waits(output, text \o d.text, v, h, q)
    BY <2>1, <2>3, <2>4, ReadsOn DEF StreamInv
  <2>6. text' = text \o d.text /\ waiting' = v
    BY <1>2, <2>2, <2>3, <2>4 DEF U!Reads, U!Drain
  <2>7. read' = h /\ h \in 0 .. Len(output) /\ output' = output /\ over' = over /\ ~over
    BY <1>2, <2>2 DEF U!Reads, Slice
  <2>8. \E p : Waits(output', text', waiting', read', p)
    BY <2>5, <2>6, <2>7
  <2> QED
    BY <2>7, <2>8 DEF StreamInv
<1>3. CASE U!Ends
  <2>1. PICK k : Waits(output, text, waiting, read, k)
    BY <1>3 DEF StreamInv, U!Ends
  <2>2. PICK t : t = U!Lossy(output)
    OBVIOUS
  <2>3. text' = t
    BY <1>3, <2>1, <2>2, EndsWhole DEF StreamInv, U!Ends
  <2>4. output' = output /\ read' = read /\ over' /\ over' = TRUE /\ waiting' = <<>>
    BY <1>3 DEF U!Ends
  <2>5. text' = U!Lossy(output')
    BY <2>2, <2>3, <2>4
  <2> QED
    BY <2>4, <2>5 DEF StreamInv
<1> QED
  BY <1>1, <1>2, <1>3 DEF U!Next
LEMMA StreamActs == [ConnectionsNext]_connectionVars => [U!Next]_streamVars
  BY DEF ConnectionsNext, connectionVars, Rest

LEMMA PrefixJoined ==
  ASSUME NEW X, NEW s \in Seq(X), NEW t \in Seq(X)
  PROVE  U!IsPrefix(s, s \o t)
<1>1. /\ s \o t \in Seq(X) /\ Len(s \o t) = Len(s) + Len(t) /\ Len(s) \in Nat /\ Len(t) \in Nat
      /\ \A i \in 1 .. Len(s) + Len(t) : (s \o t)[i] = IF i <= Len(s) THEN s[i] ELSE t[i - Len(s)]
  BY ConcatProperties, LenProperties
<1>2. PICK u : u = s \o t
  OBVIOUS
<1>3. \A i \in 1 .. Len(s) : u[i] \in X /\ u[i] = s[i] /\ s[i] \in X
  BY <1>1, <1>2, ElementOfSeq
<1>4. PICK p, q : p = SubSeq(s, 1, Len(s)) /\ q = SubSeq(u, 1, Len(s))
  OBVIOUS
<1>5. p \in Seq(X) /\ Len(p) = Len(s) /\ \A i \in 1 .. Len(s) : p[i] = s[i]
  BY <1>1, <1>3, <1>4, SubSeqProperties
<1>6. q \in Seq(X) /\ Len(q) = Len(s) /\ \A i \in 1 .. Len(s) : q[i] = u[i]
  BY <1>1, <1>3, <1>4, SubSeqProperties
<1>7. p = q
  BY <1>3, <1>5, <1>6, SeqEqual
<1> QED
  BY <1>1, <1>2, <1>4, <1>7 DEF U!IsPrefix

LEMMA StreamTells == StreamInv => U!ChunksDoNotShow
<1> SUFFICES ASSUME StreamInv PROVE U!ChunksDoNotShow
  OBVIOUS
<1>1. CASE over
  <2>1. waiting = <<>> /\ text = U!Lossy(output)
    BY <1>1 DEF StreamInv
  <2>2. U!IsPrefix(U!Lossy(output), U!Lossy(output))
    <3>1. PICK g : IsReading(output, g) /\ U!Decoded(output) = g[1]
      BY ReadingExists DEF StreamInv
    <3>2. g[1].text \in Seq(Bytes)
      <4>1. 1 \in 1 .. Len(output) + 1 /\ output \in Bytes
        BY LenProperties DEF StreamInv, Bytes
      <4> QED
        BY <3>1, <4>1, ReadingIs DEF Read
    <3>3. U!Lossy(output) \in Seq(Bytes)
      <4>1. <<>> \in Seq(Bytes) /\ <<U!Bad>> \in Seq(Bytes)
        BY EmptySeq DEF U!Bad, Bytes
      <4> QED
        BY <3>1, <3>2, <4>1, ConcatProperties DEF U!Lossy
    <3>4. U!Lossy(output) \o <<>> = U!Lossy(output) /\ <<>> \in Seq(Bytes)
      BY <3>3, ConcatEmptySeq, EmptySeq
    <3> QED
      BY <3>3, <3>4, PrefixJoined
  <2> QED
    BY <2>1, <2>2 DEF U!ChunksDoNotShow
<1>2. CASE ~over
  <2>1. PICK k : Waits(output, text, waiting, read, k)
    BY <1>2 DEF StreamInv
  <2>2. PICK g : /\ IsReading(output, g) /\ U!Decoded(output) = g[1]
                 /\ g[1].text = text \o g[k + 1].text
    BY <2>1 DEF Waits
  <2>3. /\ output \in Bytes /\ Len(output) \in Nat /\ k \in Nat /\ k + 1 \in 1 .. Len(output) + 1
        /\ text \in Seq(Bytes) /\ waiting \in Bytes
    <3>1. output \in Bytes /\ Len(output) \in Nat /\ read <= Len(output) /\ read \in Nat
      BY LenProperties DEF StreamInv, Bytes
    <3>2. k \in Nat /\ k <= read /\ text \in Seq(Bytes) /\ waiting \in Bytes
      BY <2>1 DEF Waits, Slice
    <3> QED
      BY <3>1, <3>2
  <2>4. g[k + 1].text \in Seq(Bytes)
    BY <2>2, <2>3, ReadingIs DEF Read
  <2>5. U!IsPrefix(text, U!Lossy(output))
    <3>1. PICK x, y : /\ x = g[k + 1].text
                      /\ y = IF U!Decoded(output).rest > Len(output) THEN <<>> ELSE <<U!Bad>>
      OBVIOUS
    <3>2. x \in Seq(Bytes) /\ y \in Seq(Bytes)
      <4>1. <<>> \in Seq(Bytes) /\ <<U!Bad>> \in Seq(Bytes)
        BY EmptySeq DEF U!Bad, Bytes
      <4> QED
        BY <2>4, <3>1, <4>1
    <3>3. U!Lossy(output) = (text \o x) \o y
      BY <2>2, <3>1 DEF U!Lossy
    <3>4. (text \o x) \o y = text \o (x \o y) /\ x \o y \in Seq(Bytes)
      BY <2>3, <3>2, Joined
    <3> QED
      BY <2>3, <3>3, <3>4, PrefixJoined
  <2>6. Len(waiting) <= 3
    <3>1. CASE waiting = <<>>
      BY <3>1
    <3>2. CASE waiting # <<>>
      <4>1. Len(waiting) \in Nat /\ Len(waiting) # 0
        BY <2>3, <3>2, EmptySeq DEF Bytes
      <4>2. U!Cut(waiting, 1) /\ 1 \in 1 .. Len(waiting)
        BY <2>1, <3>2, <4>1 DEF Waits
      <4>3. Len(waiting) - 1 < 3
        BY <2>3, <4>2, ContinuationsFit
      <4> QED
        BY <4>1, <4>3
    <3> QED
      BY <3>1, <3>2
  <2> QED
    BY <1>2, <2>5, <2>6 DEF U!ChunksDoNotShow
<1> QED
  BY <1>1, <1>2

\* A terminal whose connection went silent is reported lost within the wait for a
\* probe and its answer, but for the time the channel was held, and at once after a
\* sleep; one whose connection works never is; and what is shown of the bytes of the
\* terminal is what the whole reads as, however they are cut (terminal.rs).
THEOREM LossIsRealAlways == ConnectionsSpec => []LossIsReal
<1>1. ConnectionsInit => ReaderInv /\ StreamInv
  BY ReaderInit, StreamInit DEF ConnectionsInit
<1>2. ReaderInv /\ StreamInv /\ [ConnectionsNext]_connectionVars => ReaderInv' /\ StreamInv'
  BY ReaderStep, ReaderActs, StreamStep, StreamActs
<1>3. ReaderInv /\ StreamInv => LossIsReal
  BY ReaderTells, StreamTells DEF LossIsReal
<1> QED
  BY <1>1, <1>2, <1>3, PTL DEF ConnectionsSpec
=============================================================================
