------------------------------ MODULE HostKeys ------------------------------
(***************************************************************************)
(* The file of trusted host keys (ssh/session.rs): connections read it     *)
(* without a lock, and two kinds of writer rewrite all of it under one:    *)
(* the user who trusts a key, and a connection that gives an entry from    *)
(* before key types were recorded its type.                                *)
(***************************************************************************)
CONSTANTS Hosts, Types, PublicKeys, Threads, None

ASSUME HostKeysAssumption ==
  /\ None \notin PublicKeys \cup Threads /\ "untyped" \notin Types
  /\ Hosts # {} /\ Types # {} /\ PublicKeys # {}

VARIABLES
  file,     \* known_hosts.json: an entry has a key for each type, or one
            \* without a type, or none
  lock,     \* KNOWN_HOSTS_LOCK
  pc,       \* what each thread does
  shown,    \* the key its host presented
  copy,     \* what it read under the lock, or is about to put in its place
  trusted   \* the last key the user trusted, each type, since the file was last
            \* lost; not in the code

vars == <<file, lock, pc, shown, copy, trusted>>

Slots == Types \cup {"untyped"}
Entry == [Slots -> PublicKeys \cup {None}]
Presented == [host : Hosts, type : Types, key : PublicKeys]
NoEntry == [s \in Slots |-> None]
NoCopy == [h \in Hosts |-> NoEntry]

\* An entry is of one kind or the other.
IsEntry(e) ==
  /\ e \in Entry
  /\ e["untyped"] # None => \A t \in Types : e[t] = None

TypeOK ==
  /\ file \in [Hosts -> Entry] /\ \A h \in Hosts : IsEntry(file[h])
  /\ lock \in Threads \cup {None}
  /\ pc \in [Threads -> {"idle", "verify", "migrate", "rewrite", "asking",
                         "write", "renameTyped", "renameTrusted", "accepted"}]
  /\ shown \in [Threads -> Presented]
  /\ copy \in [Threads -> [Hosts -> Entry]]
  /\ \A t \in Threads, h \in Hosts : IsEntry(copy[t][h])
  /\ trusted \in [Hosts -> [Types -> PublicKeys \cup {None}]]

\* A file from an older version, or none.
Init ==
  /\ file \in [Hosts -> Entry]
  /\ \A h \in Hosts : \A t \in Types : file[h][t] = None
  /\ lock = None
  /\ pc = [t \in Threads |-> "idle"]
  /\ shown \in [Threads -> {CHOOSE p \in Presented : TRUE}]
  /\ copy = [t \in Threads |-> NoCopy]
  /\ trusted = [h \in Hosts |-> [k \in Types |-> None]]

-----------------------------------------------------------------------------
\* evaluate_host_key
Evaluate(e, type, key) ==
  CASE e["untyped"] = key -> "legacy"
    [] e["untyped"] # None /\ e["untyped"] # key -> "unknown"
    [] e["untyped"] = None /\ e[type] = key -> "trusted"
    [] e["untyped"] = None /\ e[type] = None -> "unknown"
    [] OTHER -> "mismatch"

Typed(type, key) == [NoEntry EXCEPT ![type] = key]

Goes(t, where) == pc' = [pc EXCEPT ![t] = where]

\* A handshake; the key is the one the host, or whoever answers, presents.
Handshake(t) ==
  /\ pc[t] \in {"idle", "accepted"} /\ Goes(t, "verify")
  /\ \E p \in Presented : shown' = [shown EXCEPT ![t] = p]
  /\ UNCHANGED <<file, lock, copy, trusted>>

\* verify_known_host: a key that is not trusted is an error the user is shown.
Verify(t) ==
  /\ pc[t] = "verify"
  /\ LET p == shown[t]
         said == Evaluate(file[p.host], p.type, p.key)
     IN Goes(t, CASE said = "trusted" -> "accepted"
                  [] said = "legacy" -> "migrate"
                  [] OTHER -> "asking")
  /\ UNCHANGED <<file, lock, shown, copy, trusted>>

\* lock_known_hosts and the read under it.
Locks(t, from, to) ==
  /\ pc[t] = from /\ lock = None
  /\ lock' = t /\ copy' = [copy EXCEPT ![t] = file] /\ Goes(t, to)
  /\ UNCHANGED <<file, shown, trusted>>

MigrateLocks(t) == Locks(t, "migrate", "rewrite")

Unlocks(t) ==
  lock' = None /\ copy' = [copy EXCEPT ![t] = NoCopy] /\ UNCHANGED shown

\* What a thread does once its write has ended, well or not: a connection goes on.
Done(t) == Goes(t, IF pc[t] \in {"rewrite", "renameTyped"} THEN "accepted" ELSE "idle")

\* write_json_file: the copy with one entry changed replaces the file, or something
\* fails and it stays as it was; or, where a rename does not replace, the old file is
\* removed first.
Rewrites(t, host, entry) ==
  LET new == [copy[t] EXCEPT ![host] = entry]
  IN \/ file' \in {file, new} /\ Unlocks(t) /\ Done(t)
     \/ /\ file # NoCopy /\ file' = NoCopy
        /\ copy' = [copy EXCEPT ![t] = new] /\ UNCHANGED <<lock, shown>>
        /\ Goes(t, IF pc[t] = "rewrite" THEN "renameTyped" ELSE "renameTrusted")

\* A migration that goes by what the connection saw before it had the lock.
MigrateWrites_Unchecked(t) ==
  /\ pc[t] = "rewrite" /\ UNCHANGED trusted
  /\ Rewrites(t, shown[t].host, Typed(shown[t].type, shown[t].key))

\* migrate_legacy_host_key: looks again; accepted whether it works or not.
MigrateWrites(t) ==
  /\ pc[t] = "rewrite" /\ UNCHANGED trusted
  /\ LET p == shown[t]
     IN IF Evaluate(copy[t][p.host], p.type, p.key) = "legacy"
        THEN Rewrites(t, p.host, Typed(p.type, p.key))
        ELSE Unlocks(t) /\ Done(t) /\ UNCHANGED file

\* The user is asked about the key and leaves it, or trusts it.
Declines(t) ==
  /\ pc[t] = "asking" /\ Goes(t, "idle")
  /\ UNCHANGED <<file, lock, shown, copy, trusted>>

TrustLocks(t) == Locks(t, "asking", "write")

\* trust_host_key: joins the keys of other types; replaces an untyped one.
TrustWrites(t) ==
  /\ pc[t] = "write"
  /\ LET p == shown[t]
         old == copy[t][p.host]
         new == IF old["untyped"] = None THEN [old EXCEPT ![p.type] = p.key]
                ELSE Typed(p.type, p.key)
     IN /\ Rewrites(t, p.host, new)
        /\ trusted' = IF file'[p.host][p.type] = p.key \/ pc'[t] = "renameTrusted"
                      THEN [trusted EXCEPT ![p.host][p.type] = p.key]
                      ELSE trusted

\* The rename; if it fails, or the program ends before it, there is no file.
Renames(t) ==
  /\ pc[t] \in {"renameTyped", "renameTrusted"}
  /\ file' \in {NoCopy, copy[t]} /\ Unlocks(t) /\ Done(t)
  /\ trusted' = IF file' = copy[t] THEN trusted ELSE [h \in Hosts |-> [k \in Types |-> None]]

Thread(t) ==
  \/ Handshake(t) \/ Verify(t) \/ MigrateLocks(t) \/ MigrateWrites(t)
  \/ Declines(t) \/ TrustLocks(t) \/ TrustWrites(t) \/ Renames(t)

Next == \E t \in Threads : Thread(t)

Spec == Init /\ [][Next]_vars

-----------------------------------------------------------------------------
(* Properties.                                                             *)

\* What the user trusted stays, in the file or in the copy that is about to be put in
\* its place: no write of another thread, about this host or another, undoes it
\* ("Re-reads under the write lock so a trust recorded since the caller's read
\* survives", session.rs:2047), unless the whole file is lost.
TrustStands ==
  \A h \in Hosts, k \in Types :
    trusted[h][k] # None =>
      \/ file[h][k] = trusted[h][k]
      \/ \E t \in Threads : /\ pc[t] \in {"renameTyped", "renameTrusted"}
                            /\ copy[t][h][k] = trusted[h][k]

\* A thread that rewrites the file has the lock and a copy that is current, or has
\* removed the file.
OneWriter ==
  \A t \in Threads :
    /\ pc[t] \in {"rewrite", "write"} => lock = t /\ copy[t] = file
    /\ pc[t] \in {"renameTyped", "renameTrusted"} => lock = t /\ file = NoCopy

-----------------------------------------------------------------------------
(* Two that do not hold where a rename does not replace.                   *)

\* A write that fails leaves what was trusted.
TrustIsNotLost == [][\A h \in Hosts, k \in Types : trusted[h][k] # None => trusted'[h][k] # None]_vars

\* A key the user trusted is not asked about again: connections read without a lock,
\* and may find no file.
TrustedIsNotAsked ==
  [][\A t \in Threads : pc[t] = "verify" /\ pc'[t] = "asking"
       => trusted[shown[t].host][shown[t].type] # shown[t].key]_vars
=============================================================================
