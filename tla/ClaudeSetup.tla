----------------------------- MODULE ClaudeSetup -----------------------------
(***************************************************************************)
(* configure_claude_quota_monitor (ssh/agent_monitor.rs): the helper that  *)
(* publishes Claude's limits is installed and made the status line in      *)
(* Claude's settings, here or over SFTP.  A file is written beside the old *)
(* one and takes its place; SFTP cannot rename over a file, so there the   *)
(* old one goes first (write_remote_file_atomically, ssh/system_monitor.rs)*)
(***************************************************************************)
EXTENDS Naturals, Sequences

CONSTANTS
  Keys,            \* what the user has in the settings
  MayNotOpen,      \* whether a file of a host that is there may not open
  MaxEdits,        \* edits of the settings by others during a setup: a bound
  None, Partial    \* no file; a file that is being written

Lines == {"none", "ours", "other"}   \* the status line: another's, or ours
Settings == [keys : SUBSET Keys, line : Lines]

SetupAssumption ==
  /\ MayNotOpen \in BOOLEAN /\ MaxEdits \in Nat /\ None # Partial
  /\ {None, Partial} \cap (Settings \cup {"old", "new"}) = {}

Files == {"helper", "settings", "backup"}

VARIABLES
  via,       \* "local" or "remote"
  runtime,   \* whether the host can run the helper
  files,     \* what is at each place
  beside,    \* and beside it
  plan,      \* the files still to write, in order
  step,      \* "idle", "write", "unlink", "rename", "done", "failed"
  read,      \* the settings as they were read, None for no file
  told,      \* the answer to the user
  asked,     \* whether a quota refresh is due
  edits

vars == <<via, runtime, files, beside, plan, step, read, told, asked, edits>>

TypeOK ==
  /\ via \in {"local", "remote"} /\ runtime \in BOOLEAN
  /\ files.helper \in {None, Partial, "old", "new"}
  /\ files.settings \in Settings \cup {None, Partial}
  /\ files.backup \in Settings \cup {None, Partial}
  /\ DOMAIN beside = Files /\ plan \in Seq(Files)
  /\ step \in {"idle", "write", "unlink", "rename", "done", "failed"}
  /\ read \in Settings \cup {None} /\ asked \in BOOLEAN /\ edits \in 0 .. MaxEdits
  /\ told \in {None, "unsupported", "conflict", "configured", "alreadyConfigured"}

\* An earlier setup may have left a helper.
Init ==
  /\ via \in {"local", "remote"} /\ runtime \in BOOLEAN
  /\ \E s \in Settings \cup {None}, h \in {None, "old"} :
       /\ files = [helper |-> h, settings |-> s, backup |-> None]
       /\ (s # None /\ s.line = "ours") => h = "old"
  /\ beside = [f \in Files |-> None]
  /\ plan = <<>> /\ step = "idle" /\ read = None /\ told = None /\ asked = FALSE
  /\ edits = 0

-----------------------------------------------------------------------------
Answers(how) ==
  /\ told' = how /\ step' = "done" /\ asked' = (how \in {"configured", "alreadyConfigured"})
  /\ UNCHANGED <<via, runtime, files, beside, plan, read, edits>>

Unsupported == step = "idle" /\ ~runtime /\ Answers("unsupported")

\* read_claude_settings and read_remote_claude_settings: there, a file that
\* does not open counts as none.
Found == {files.settings} \cup (IF MayNotOpen /\ via = "remote" THEN {None} ELSE {})

HasLine(s) == s # None /\ s.line # "none"

\* A status line of another tool is left alone.
Conflict ==
  /\ step = "idle" /\ runtime /\ files.settings # None /\ files.settings.line = "other"
  /\ Answers("conflict")

\* Over SFTP the old settings are kept aside only when they had a status line.
KeepsAside(s) == IF via = "local" THEN files.settings # None ELSE HasLine(s)

Reads ==
  /\ step = "idle" /\ runtime
  /\ \E s \in Found :
       /\ s # None => s.line # "other"
       /\ read' = s
       /\ plan' = <<"helper">> \o (IF KeepsAside(s) THEN <<"backup">> ELSE <<>>)
                    \o <<"settings">>
  /\ step' = "write"
  /\ UNCHANGED <<via, runtime, files, beside, told, asked, edits>>

\* What a file is to hold: the settings with our status line, the keys kept.
Contents(f) ==
  CASE f = "helper" -> "new"
    [] f = "backup" -> files.settings
    [] f = "settings" -> [keys |-> IF read = None THEN {} ELSE read.keys, line |-> "ours"]

\* The file itself is opened, not one beside it.
Writes_InPlace ==
  /\ step = "write" /\ plan # <<>>
  /\ LET f == Head(plan)
     IN IF files[f] # Partial
        THEN files' = [files EXCEPT ![f] = Partial]
             /\ UNCHANGED <<via, runtime, beside, plan, step, read, told, asked, edits>>
        ELSE /\ files' = [files EXCEPT ![f] = IF f = "backup" THEN None ELSE Contents(f)]
             /\ plan' = Tail(plan)
             /\ UNCHANGED <<via, runtime, beside, step, read, told, asked, edits>>

\* write_claude_helper, backup_and_write_json, write_remote_file_atomically: the
\* local backup is a copy in place.
Writes ==
  /\ step = "write" /\ plan # <<>>
  /\ LET f == Head(plan)
     IN IF f = "backup" /\ via = "local"
        THEN IF files.backup = Partial
             THEN /\ files' = [files EXCEPT !.backup = Contents(f)] /\ plan' = Tail(plan)
                  /\ UNCHANGED <<step, beside>>
             ELSE files' = [files EXCEPT !.backup = Partial] /\ UNCHANGED <<plan, step, beside>>
        ELSE IF beside[f] # Partial
             THEN beside' = [beside EXCEPT ![f] = Partial] /\ UNCHANGED <<files, plan, step>>
             ELSE /\ beside' = [beside EXCEPT ![f] = Contents(f)]
                  /\ step' = "rename" /\ UNCHANGED <<files, plan>>
  /\ UNCHANGED <<via, runtime, read, told, asked, edits>>

Placed ==
  LET f == Head(plan)
  IN /\ files' = [files EXCEPT ![f] = beside[f]]
     /\ beside' = [beside EXCEPT ![f] = None]
     /\ plan' = Tail(plan) /\ step' = "write"

Renames ==
  /\ step = "rename"
  /\ IF via = "local" \/ files[Head(plan)] = None THEN Placed
     ELSE step' = "unlink" /\ UNCHANGED <<files, beside, plan>>
  /\ UNCHANGED <<via, runtime, read, told, asked, edits>>

Unlinks ==
  /\ step = "unlink"
  /\ files' = [files EXCEPT ![Head(plan)] = None] /\ step' = "rename"
  /\ UNCHANGED <<via, runtime, beside, plan, read, told, asked, edits>>

\* The helpers of other systems are removed, and the card is told.
Finishes ==
  /\ step = "write" /\ plan = <<>>
  /\ Answers(IF HasLine(read) THEN "alreadyConfigured" ELSE "configured")

\* A write fails, the connection is lost or the program ends.  A local rename
\* that fails takes the file beside it away; a backup on a host that fails is
\* passed over.
Fails ==
  /\ step \in {"write", "unlink", "rename"} /\ plan # <<>>
  /\ step' = "failed"
  /\ beside' = IF step = "rename" /\ via = "local" /\ Head(plan) = "helper"
               THEN [beside EXCEPT !.helper = None] ELSE beside
  /\ UNCHANGED <<via, runtime, files, plan, read, told, asked, edits>>

SkipsBackup ==
  /\ step = "write" /\ via = "remote" /\ plan # <<>> /\ Head(plan) = "backup"
  /\ plan' = Tail(plan)
  /\ UNCHANGED <<via, runtime, files, beside, step, read, told, asked, edits>>

\* The user asks again.
Again ==
  /\ step \in {"done", "failed"} /\ step' = "idle" /\ told' = None
  /\ plan' = <<>> /\ read' = None
  /\ UNCHANGED <<via, runtime, files, beside, asked, edits>>

\* Claude or the user adds a key.
Edits(k) ==
  /\ edits < MaxEdits /\ files.settings \notin {None, Partial}
  /\ k \notin files.settings.keys
  /\ files' = [files EXCEPT !.settings.keys = @ \cup {k}] /\ edits' = edits + 1
  /\ UNCHANGED <<via, runtime, beside, plan, step, read, told, asked>>

Next ==
  \/ Unsupported \/ Conflict \/ Reads \/ Writes \/ Renames \/ Unlinks \/ Finishes
  \/ Fails \/ SkipsBackup \/ Again
  \/ \E k \in Keys : Edits(k)

Spec == Init /\ [][Next]_vars

-----------------------------------------------------------------------------
(* Properties.                                                             *)

Whole(c) == c # None /\ c # Partial

\* "A failed transfer cannot leave a truncated or empty file where a working one
\* was" (system_monitor.rs:1754), whatever step fails.
NeverPartial == files.helper # Partial /\ files.settings # Partial

\* The keys the settings had when a setup read them are in the settings, or in the
\* file beside them, until the next setup: "The complete contents are already on the
\* remote before the destination is touched" (system_monitor.rs:1764).
KeysAreSomewhere ==
  step # "idle" /\ read # None =>
    \E c \in {files.settings, beside.settings} : Whole(c) /\ read.keys \subseteq c.keys

\* The helper of a host is being replaced, or was when a setup failed.
Replacing ==
  via = "remote" /\ step # "done" /\ (plan # <<>> => Head(plan) = "helper")

\* Where the status line is ours the helper it names is there: here, whichever step
\* fails; on a host, but for a setup that is made again and stops at the helper.
LineHasHelper ==
  files.settings # None /\ files.settings.line = "ours"
    => files.helper # None \/ Replacing

-----------------------------------------------------------------------------
(* Four that do not hold.                                                  *)

\* "Absent settings are the first-run case" (agent_monitor.rs:3107): settings
\* that are there and do not open are taken for that, and replaced.
FirstRunIsAbsent == [][Reads => (read' = None <=> files.settings = None)]_vars

\* What is written to the settings while they are changed stays.
EditsSurvive ==
  [][\A k \in Keys : Whole(files.settings) /\ k \in files.settings.keys /\ step # "unlink"
       => (Whole(files'.settings) => k \in files'.settings.keys)]_vars

\* Whatever step fails, the settings name a helper that is there: one that was made
\* the status line before is gone when its new one cannot take its place.
LineNamesHelper ==
  files.settings # None /\ files.settings.line = "ours" => files.helper # None

\* No step takes the last copy of a key away: a setup that failed after the old
\* settings were removed, and is made again, finds none.
Held == UNION {IF Whole(c) THEN c.keys ELSE {} :
                 c \in {files.settings, files.backup, beside.settings}}
LastCopyStays == [][Held \subseteq Held']_vars
=============================================================================
