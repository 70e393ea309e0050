------------------------------ MODULE TreeCopy ------------------------------
(***************************************************************************)
(* The transfer of a folder (sftp.rs, transfer_dir and plan_tree): the     *)
(* tree is planned one folder at a time, then its folders are made, what   *)
(* is there already is looked for, and the files are copied, while someone *)
(* else may write at either end, but puts no link in the place of a folder *)
(* of the source.  How one file is copied: Transfers.                      *)
(***************************************************************************)
EXTENDS Naturals, Sequences, SequencesExt, FiniteSets

CONSTANTS
  Entries,     \* the paths in the folder, numbers in the order of their names
  Top,         \* the folder
  Parent,      \* the folder each entry is in
  Name,        \* the path it gets: a file system that does not tell the case of
               \* letters gives one path to two entries
  MaxDepth, MaxEntries,   \* MAX_TREE_DEPTH, MAX_TREE_ENTRIES
  MaxOthers,   \* how often someone else writes: a bound
  Old,         \* what may be at the destination before: functions on the paths
  None

TreeCopyAssumption ==
  /\ Entries \subseteq Nat /\ Top \notin Entries
  /\ Parent \in [Entries -> Entries \cup {Top}] /\ \A e \in Entries : Parent[e] # e
  /\ {MaxDepth, MaxEntries, MaxOthers} \subseteq Nat

Paths == {Name[e] : e \in Entries}
Kinds == {None, "dir", "file", "other"}

\* What is at a path: its kind, and the entry it is a copy of.
Thing(kind) == [kind |-> kind, of |-> Top]
Copy(e) == [kind |-> "copy", of |-> e]

\* What is in a folder is there only as long as the folder is.
Tree(kind) == \A e \in Entries :
  kind[e] # None /\ Parent[e] # Top => kind[Parent[e]] = "dir"

VARIABLES
  source,    \* the kind of each entry
  dest,      \* what is at each path
  keep,      \* keep_existing
  step, queue, seen,
  dirs, files, skippedOther, skippedExisting, copied,  \* TreePlan, the summary
  outcome,
  others,
  changed, before   \* the entries and paths others wrote to, and the destination
                    \* when it was looked at, with the paths at which every look
                    \* succeeded: not in the code

plan == <<queue, seen, dirs, files, skippedOther>>
ghosts == <<changed, before>>
vars == <<source, dest, keep, step, plan, skippedExisting, copied, outcome, others, ghosts>>

Init ==
  /\ source \in {kind \in [Entries -> Kinds] : Tree(kind)}
  /\ dest \in {[p \in Paths |-> Thing(old[p])] : old \in Old} /\ keep \in BOOLEAN
  /\ step = "plan" /\ queue = <<[folder |-> Top, depth |-> 0]>> /\ seen = 0
  /\ dirs = <<>> /\ files = <<>> /\ skippedOther = {} /\ skippedExisting = {}
  /\ copied = <<>> /\ outcome = None /\ others = 0 /\ changed = {} /\ before = None

------------------------------------------------------------------------------
In(folder) == {e \in Entries : Parent[e] = folder /\ source[e] # None}

\* What plan_tree takes for a folder at this depth.
Enters(e, depth) == source[e] = "dir" /\ depth + 1 < MaxDepth

\* What is told as skipped: links, and folders that are too deep.
Skips_Links(folder, depth) == {e \in In(folder) : source[e] = "other"}

Skips(folder, depth) == {e \in In(folder) : source[e] # "file" /\ ~Enters(e, depth)}

\* plan_tree, one folder: it is listed, sorted and sorted out.
Lists ==
  LET folder == Head(queue).folder
      depth == Head(queue).depth
      Sorted(S) == SetToSortSeq(S, <)
      down == Sorted({e \in In(folder) : Enters(e, depth)})
  IN /\ step = "plan" /\ queue # <<>> /\ outcome = None
     /\ folder # Top => source[folder] = "dir"
     /\ seen + Cardinality(In(folder)) <= MaxEntries
     /\ seen' = seen + Cardinality(In(folder))
     /\ dirs' = dirs \o down
     /\ queue' = Tail(queue) \o [k \in DOMAIN down |-> [folder |-> down[k], depth |-> depth + 1]]
     /\ files' = files \o Sorted({e \in In(folder) : source[e] = "file"})
     /\ skippedOther' = skippedOther \cup Skips(folder, depth)
     /\ UNCHANGED <<source, dest, keep, step, skippedExisting, copied, outcome, others, ghosts>>

Planned ==
  /\ step = "plan" /\ queue = <<>> /\ outcome = None
  /\ step' = "dirs" /\ queue' = dirs
  /\ UNCHANGED <<source, dest, keep, seen, dirs, files, skippedOther, skippedExisting, copied,
                 outcome, others, ghosts>>

\* ensure_remote_directory, ensure_local_directory
Ensures(path) ==
  /\ dest[path].kind \in {None, "dir"}
  /\ dest' = [dest EXCEPT ![path] = Thing("dir")]

MakesFolder ==
  /\ step = "dirs" /\ queue # <<>> /\ outcome = None
  /\ Ensures(Name[Head(queue)]) /\ queue' = Tail(queue)
  /\ UNCHANGED <<source, keep, step, seen, dirs, files, skippedOther, skippedExisting, copied,
                 outcome, others, ghosts>>

\* Which of the files are there already, all before the first is copied.  A look
\* that fails finds nothing.
Kept_Never(e, unseen) == FALSE

Kept(e, unseen) == keep /\ dest[Name[e]].kind # None /\ e \notin unseen

LooksForExisting ==
  /\ step = "dirs" /\ queue = <<>> /\ outcome = None
  /\ step' = "copy"
  /\ \E unseen \in SUBSET Range(files) :
       /\ skippedExisting' = {e \in Range(files) : Kept(e, unseen)}
       /\ queue' = SelectSeq(files, LAMBDA e : ~Kept(e, unseen))
       /\ before' = [what |-> dest, seen |-> Paths \ {Name[e] : e \in unseen}]
  /\ UNCHANGED <<source, dest, keep, seen, dirs, files, skippedOther, copied, outcome, others,
                 changed>>

\* upload_file, download_remote_file: a folder is never replaced.
Replaceable_Any(path) == TRUE

Replaceable(path) == dest[path].kind # "dir"

CopiesFile ==
  LET e == Head(queue)
  IN /\ step = "copy" /\ queue # <<>> /\ outcome = None
     /\ source[e] # None /\ Replaceable(Name[e])
     /\ dest' = [dest EXCEPT ![Name[e]] = Copy(e)]
     /\ copied' = Append(copied, e) /\ queue' = Tail(queue)
     /\ UNCHANGED <<source, keep, step, seen, dirs, files, skippedOther, skippedExisting,
                    outcome, others, ghosts>>

Succeeds ==
  /\ step = "copy" /\ queue = <<>> /\ outcome = None /\ outcome' = "ok"
  /\ UNCHANGED <<source, dest, keep, step, plan, skippedExisting, copied, others, ghosts>>

\* finalize_remote_part: where a rename does not replace, what is there is removed
\* first, and the second rename fails.
FailsToReplace ==
  LET path == Name[Head(queue)]
  IN /\ step = "copy" /\ queue # <<>> /\ outcome = None
     /\ dest[path].kind # None /\ Replaceable(path)
     /\ dest' = [dest EXCEPT ![path] = Thing(None)] /\ outcome' = "failed"
     /\ UNCHANGED <<source, keep, step, plan, skippedExisting, copied, others, ghosts>>

\* Any of the other steps may fail or be canceled, and ends the transfer.
Fails ==
  /\ outcome = None /\ outcome' = "failed"
  /\ UNCHANGED <<source, dest, keep, step, plan, skippedExisting, copied, others, ghosts>>

------------------------------------------------------------------------------
Other == outcome = None /\ others < MaxOthers /\ others' = others + 1

SourceChanges(e, kind) ==
  /\ Other /\ source[e] # kind
  /\ source' = [f \in Entries |-> IF f = e THEN kind
                                  ELSE IF Parent[f] = e THEN None ELSE source[f]]
  /\ Tree(source')
  /\ changed' = changed \cup {f \in Entries : source'[f] # source[f]}
  /\ UNCHANGED <<dest, keep, step, plan, skippedExisting, copied, outcome, before>>

\* A file appears at the destination, or is removed there.
DestChanges(path, what) ==
  /\ Other /\ dest[path].kind \notin {"dir", what}
  /\ dest' = [dest EXCEPT ![path] = Thing(what)]
  /\ changed' = changed \cup {e \in Entries : Name[e] = path}
  /\ UNCHANGED <<source, keep, step, plan, skippedExisting, copied, outcome, before>>

Next ==
  \/ Lists \/ Planned \/ MakesFolder \/ LooksForExisting \/ CopiesFile
  \/ Succeeds \/ FailsToReplace \/ Fails
  \/ \E e \in Entries, kind \in Kinds \ {"other"} : SourceChanges(e, kind)
  \/ \E path \in Paths, what \in {None, "old"} : DestChanges(path, what)

Spec == Init /\ [][Next]_vars

------------------------------------------------------------------------------
TypeOK ==
  /\ source \in [Entries -> Kinds] /\ DOMAIN dest = Paths
  /\ step \in {"plan", "dirs", "copy"} /\ seen \in 0 .. MaxEntries
  /\ UNION {Range(dirs), Range(files), skippedOther, Range(copied)} \subseteq Entries
  /\ outcome \in {None, "ok", "failed"}

RECURSIVE Above(_)
Above(e) == IF Parent[e] = Top THEN {} ELSE {Parent[e]} \cup Above(Parent[e])

\* No other entry has the path of the entry.
OnlyOfItsName(e) == \A f \in Entries : Name[f] = Name[e] => f = e

\* What became of an entry: told as skipped, kept what was there, copied, made.
Became(e) ==
  {k \in {"skipped", "kept", "copied", "made"} :
     \/ k = "skipped" /\ e \in skippedOther
     \/ k = "kept" /\ e \in skippedExisting
     \/ k = "copied" /\ source[e] = "file" /\ dest[Name[e]].of = e
     \/ k = "made" /\ source[e] = "dir" /\ e \in Range(dirs) /\ dest[Name[e]].kind = "dir"}

AllAlong(e) == source[e] # None /\ ({e} \cup Above(e)) \cap changed = {}

\* Everything that was there all along under a name of its own at the destination
\* ends up copied, kept because something was there, or told as skipped, itself or
\* a folder it is in, and of these one only: a transfer that succeeds loses nothing
\* without a word ("how many entries were left alone", sftp.rs:94).
NothingIsLost ==
  outcome = "ok" => \A e \in Entries :
    AllAlong(e) /\ OnlyOfItsName(e) =>
      Above(e) \cap skippedOther # {} \/ Cardinality(Became(e)) = 1

\* Not so of entries whose names are one at the destination: the later replaces
\* the earlier, and the transfer counts both (sftp.rs:564).
NothingIsLostOfOneName ==
  outcome = "ok" => \A e \in Entries :
    AllAlong(e) => Above(e) \cap skippedOther # {} \/ Became(e) # {}

\* A folder at the destination is never replaced, whatever has its name, and a file
\* the user chose to keep stays if it was found when it was looked for ("no
\* transfer may delete a tree to free up a name", sftp.rs:1105).
KeptIn(p) == keep /\ before # None /\ before.what[p].kind = "old"
             /\ \A e \in changed' : Name[e] # p
FoldersStay == \A p \in Paths : dest[p].kind = "dir" => dest'[p].kind = "dir"
KeptStays == \A p \in Paths : KeptIn(p) /\ p \in before.seen => dest'[p] = before.what[p]
TreeStandsStep == FoldersStay /\ KeptStays
TreeStands == [][TreeStandsStep]_vars

\* Not so of one that was there: any error of the look passes for "not there", and
\* the file is replaced (sftp.rs:549).
KeptAlwaysStays == [][\A p \in Paths : KeptIn(p) => dest'[p] = before.what[p]]_vars

\* Each file has a folder to be in.
PlacedInFolder ==
  \A e \in Range(copied) : Parent[e] = Top \/ dest[Name[Parent[e]]].kind = "dir"
=============================================================================
