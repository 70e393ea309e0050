------------------------------- MODULE Vault -------------------------------
(***************************************************************************)
(* The credential vault (ssh/credentials.rs, ssh/biometric.rs): a file     *)
(* sealed with a key derived from the master password and a salt, a copy   *)
(* of what is in it while it is open, an index for the user interface and  *)
(* a copy of the key behind the sensor of the machine.  Each operation     *)
(* holds the lock of the runtime, but an unlock works out the key and      *)
(* opens the file before it takes it.  Vaults are numbered: a key belongs  *)
(* to the salt of one vault.                                               *)
(***************************************************************************)
EXTENDS Naturals

CONSTANTS
  Accounts, Secrets,
  MaxVaults,      \* vaults made one after the other: a bound
  RemovesFirst,   \* whether the old file goes before the new one is there
  None

VaultAssumption ==
  MaxVaults \in Nat /\ RemovesFirst \in BOOLEAN /\ None \notin Secrets

VARIABLES
  file,      \* credentials.enc: the salt, the key it is sealed with, the entries
  index,     \* credential_index.json
  runtime,   \* VaultRuntime: the key, 0 if there is none, and the payload
  known,     \* known_present
  sensor,    \* the key kept for Touch ID or Windows Hello, 0 if there is none
  opening,   \* the unlock under way, with what it has read: CredentialVaultGate
             \* lets one command go at a time and none once the vault is open
  made,      \* how many vaults were made; not in the code
  saved      \* what saves have been confirmed; not in the code

vars == <<file, index, runtime, known, sensor, opening, made, saved>>

Entries == [Accounts -> Secrets \cup {None}]
NoEntries == [a \in Accounts |-> None]
NoFile == [salt |-> 0, key |-> 0, entries |-> NoEntries]
Closed == [key |-> 0, entries |-> NoEntries]
Present(e) == {a \in Accounts : e[a] # None}

TypeOK ==
  /\ file \in [salt : 0 .. MaxVaults, key : 0 .. MaxVaults, entries : Entries]
  /\ index \subseteq Accounts /\ known \subseteq Accounts
  /\ runtime \in [key : 0 .. MaxVaults, entries : Entries]
  /\ opening \in [key : 0 .. MaxVaults, entries : Entries]
  /\ sensor \in 0 .. MaxVaults /\ made \in 0 .. MaxVaults
  /\ saved \in Entries

Init ==
  /\ file = NoFile /\ index = {} /\ runtime = Closed /\ known = {}
  /\ sensor = 0 /\ opening = Closed /\ made = 0 /\ saved = NoEntries

-----------------------------------------------------------------------------
\* A gate that takes commands while one is under way.
Gate_Always == TRUE

\* One command at a time, until the vault is open (busy, status.unlocked).
Gate == opening = Closed /\ runtime.key = 0

\* write_json_file: a new file in place of the old one, or an error and the old
\* one; on Windows the old one is removed first.
Written(new) ==
  {new, file} \cup (IF RemovesFirst THEN {NoFile} ELSE {})

\* sync_index: a failure is not told.
SyncIndex == index' \in {index, known'}

\* initialize
Initialize ==
  /\ Gate /\ file = NoFile /\ made < MaxVaults
  /\ made' = made + 1
  /\ file' \in Written([salt |-> made', key |-> made', entries |-> NoEntries])
  /\ IF file'.salt = made'
     THEN /\ runtime' = [key |-> made', entries |-> NoEntries]
          /\ known' = {} /\ SyncIndex
          /\ sensor' \in {0, sensor}
     ELSE UNCHANGED <<runtime, known, index, sensor>>
  /\ UNCHANGED <<opening, saved>>

\* unlock: the right password gives the key that belongs to the salt.  With any
\* other, or a file it cannot open, nothing changes.
Unlock ==
  /\ Gate /\ file # NoFile /\ file.key = file.salt
  /\ opening' = [key |-> file.salt, entries |-> file.entries]
  /\ UNCHANGED <<file, index, runtime, known, sensor, made, saved>>

\* unlock_with_biometrics: a key that does not open the file is forgotten.
UnlockWithSensor ==
  /\ Gate /\ file # NoFile /\ sensor # 0
  /\ IF sensor = file.key
     THEN opening' = [key |-> sensor, entries |-> file.entries] /\ UNCHANGED sensor
     ELSE sensor' \in {0, sensor} /\ UNCHANGED opening
  /\ UNCHANGED <<file, index, runtime, known, made, saved>>

\* The rest of unlock_with_key, under the lock.
Opened ==
  /\ opening # Closed /\ opening' = Closed
  /\ runtime' = opening /\ known' = Present(opening.entries) /\ SyncIndex
  /\ UNCHANGED <<file, sensor, made, saved>>

\* reset: the removals are made in this order until one fails.
Reset ==
  /\ Gate
  /\ runtime' = Closed /\ known' = {} /\ UNCHANGED <<opening, made>>
  /\ \/ UNCHANGED <<file, index, sensor>>
     \/ file' = NoFile /\ UNCHANGED <<index, sensor>>
     \/ file' = NoFile /\ index' = {} /\ sensor' \in {0, sensor}
  /\ saved' = IF file' = NoFile THEN NoEntries ELSE saved

\* persist_runtime, with the salt that is in the file.
Persisted(entries) ==
  Written([salt |-> file.salt, key |-> runtime.key, entries |-> entries])

\* Changes an entry; what is in memory is put back if the file cannot be
\* written.
Update(entries) ==
  /\ file' \in IF file = NoFile THEN {file} ELSE Persisted(entries)
  /\ runtime' = IF file'.entries = entries /\ file' # NoFile
                THEN [runtime EXCEPT !.entries = entries] ELSE runtime

\* A save whose failure is not undone in memory.
SetPassword_NoRollback(a, s) ==
  /\ runtime.key # 0 /\ runtime.entries[a] # s
  /\ file' \in IF file = NoFile THEN {file}
               ELSE Persisted([runtime.entries EXCEPT ![a] = s])
  /\ runtime' = [runtime EXCEPT !.entries[a] = s]
  /\ IF runtime'.entries = file'.entries
     THEN saved' = [saved EXCEPT ![a] = s] /\ known' = known \cup {a} /\ SyncIndex
     ELSE UNCHANGED <<saved, known, index>>
  /\ UNCHANGED <<sensor, opening, made>>

\* set_password; a secret that is there already is not written again.
SetPassword(a, s) ==
  /\ runtime.key # 0 /\ runtime.entries[a] # s
  /\ Update([runtime.entries EXCEPT ![a] = s])
  /\ IF runtime' # runtime
     THEN saved' = [saved EXCEPT ![a] = s] /\ known' = known \cup {a} /\ SyncIndex
     ELSE UNCHANGED <<saved, known, index>>
  /\ UNCHANGED <<sensor, opening, made>>

\* clear_password
ClearPassword(a) ==
  /\ runtime.key # 0
  /\ IF runtime.entries[a] = None THEN UNCHANGED <<file, runtime>>
     ELSE Update([runtime.entries EXCEPT ![a] = None])
  /\ IF runtime'.entries[a] = None
     THEN /\ saved' = [saved EXCEPT ![a] = None]
          /\ known' = known \ {a} /\ SyncIndex
     ELSE UNCHANGED <<saved, known, index>>
  /\ UNCHANGED <<sensor, opening, made>>

\* enable_biometric_unlock and disable_biometric_unlock.
UseSensor ==
  /\ \/ runtime.key # 0 /\ sensor' = runtime.key
     \/ sensor' = 0
  /\ UNCHANGED <<file, index, runtime, known, opening, made, saved>>

\* The program ends and is started again.
Restart ==
  /\ runtime' = Closed /\ opening' = Closed /\ known' = index
  /\ UNCHANGED <<file, index, sensor, made, saved>>

Next ==
  \/ Initialize \/ Unlock \/ UnlockWithSensor \/ Opened \/ Reset \/ UseSensor
  \/ Restart
  \/ \E a \in Accounts : ClearPassword(a) \/ \E s \in Secrets : SetPassword(a, s)

Spec == Init /\ [][Next]_vars

-----------------------------------------------------------------------------
(* Properties.                                                             *)

\* A secret whose save was confirmed is in the file until it is cleared or the
\* vault is reset, through failed writes, restarts and other vaults, and the
\* master password opens the file it is in.
SavedStays ==
  /\ file.key = file.salt
  /\ \A a \in Accounts : saved[a] # None => file.entries[a] = saved[a]

\* What is in memory is what is in the file: connections use the one, the next
\* start the other.
OpenIsCurrent ==
  runtime.key # 0 => runtime.key = file.key /\ runtime.entries = file.entries
=============================================================================
