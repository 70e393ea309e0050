----------------------------- MODULE Transfers -----------------------------
(***************************************************************************)
(* File transfers: the commands of ssh/sftp.rs that upload and download    *)
(* one item through a part file, the queue of SftpBrowser.tsx that starts  *)
(* them, the store that shows their status and the button that cancels     *)
(* them.                                                                   *)
(*                                                                         *)
(* A file is an inode: the "old" one that was at a destination, or the one *)
(* a transfer created.  Directories bind names to inodes, an open file     *)
(* writes to its inode whatever the names say.  A folder is a transfer of  *)
(* one file, planned first.  Any call on a file or on the server may fail. *)
(***************************************************************************)
EXTENDS Naturals, FiniteSets

CONSTANTS
  Transfers,   \* the items dropped
  Uploads,     \* those that write on the server; the others write locally
  Folders,     \* those of a folder
  Dests,       \* the names of the files at the destinations
  Dest,        \* where each transfer puts its file
  Batch,       \* which drop each transfer is part of
  Existing,    \* the destinations at which there is a file before
  Overwrites,  \* whether the server's rename replaces a file
  Limit,       \* MAX_CONCURRENT_TRANSFERS
  Chunks,      \* chunks in a file: a bound
  None

ASSUME TransfersAssumption ==
  /\ Uploads \subseteq Transfers /\ Folders \subseteq Transfers
  /\ Dest \in [Transfers -> Dests]
  /\ Transfers \cap Dests = {}
  /\ Existing \subseteq Dests
  /\ Overwrites \in BOOLEAN
  /\ Limit \in Nat \ {0} /\ Chunks \in Nat \ {0}
  /\ {None, "old"} \cap (Transfers \cup Dests) = {}
  /\ None \notin {"old", "ok", "error", "canceled"}

VARIABLES
  dest,    \* the file at each destination
  part,    \* the part files
  data,    \* which transfer wrote each chunk of each file
  pc,      \* where the thread of each transfer is
  file,    \* the file it writes
  at,      \* the chunks it wrote
  result,  \* how it ended
  flag,    \* transfer_cancels: "none", or whether the transfer is canceled
  promise, \* runTransfer in the user interface
  keep,    \* keep_existing
  status,  \* useTransferStore: the status shown
  event,   \* the last "sftp-progress" event, under way
  cancel   \* cancel_transfer: not called, sent, or ran and not answered

store == <<dest, part, data>>
worker == <<pc, file, at, result>>
ui == <<promise, keep, status>>
vars == <<store, worker, flag, ui, event, cancel>>

\* Defect: The part file of an upload named after the destination alone.
PartName_Shared(t) == Dest[t]

(***************************************************************************)
(* An upload has a part file of its own, named with the id of the          *)
(* transfer; the part file of a download is named after the destination.   *)
(***************************************************************************)
PartName(t) == IF t \in Uploads THEN t ELSE Dest[t]
PartNames == Uploads \cup Dests
Steps == {"idle", "sent", "connect", "plan", "begin", "clear", "create",
          "copy", "rename", "unlink", "retry", "replace", "move", "discard",
          "ended", "returned"}
Files == Transfers \cup {"old"}

TypeOK ==
  /\ dest \in [Dests -> Files \cup {None}]
  /\ part \in [PartNames -> Transfers \cup {None}]
  /\ data \in [Transfers -> [1 .. Chunks -> Transfers \cup {None}]]
  /\ pc \in [Transfers -> Steps]
  /\ file \in [Transfers -> Transfers \cup {None}]
  /\ at \in [Transfers -> 0 .. Chunks]
  /\ result \in [Transfers -> {None, "ok", "error", "canceled"}]
  /\ flag \in [Transfers -> {"none", "run", "cancel"}]
  /\ promise \in [Transfers ->
       {"new", "asking", "approved", "invoked", "rejected", "settled"}]
  /\ keep \in [Transfers -> BOOLEAN]
  /\ status \in [Transfers -> {"new", "pending", "running", "done", "failed",
                               "canceled", "cleared"}]
  /\ event \in [Transfers -> {None, "ok", "error", "canceled"}]
  /\ cancel \in [Transfers -> {"no", "sent", "ran"}]

Init ==
  /\ dest = [d \in Dests |-> IF d \in Existing THEN "old" ELSE None]
  /\ part = [n \in PartNames |-> None]
  /\ data = [t \in Transfers |-> [k \in 1 .. Chunks |-> None]]
  /\ pc = [t \in Transfers |-> "idle"]
  /\ file = [t \in Transfers |-> None]
  /\ at = [t \in Transfers |-> 0]
  /\ result = [t \in Transfers |-> None]
  /\ flag = [t \in Transfers |-> "none"]
  /\ promise = [t \in Transfers |-> "new"]
  /\ keep = [t \in Transfers |-> FALSE]
  /\ status = [t \in Transfers |-> "new"]
  /\ event = [t \in Transfers |-> None]
  /\ cancel = [t \in Transfers |-> "no"]

-----------------------------------------------------------------------------
(* The user interface: the queue and the store. *)

Together(t) == {u \in Transfers : Batch[u] = Batch[t]}

\* updateTask: a task that was cleared is not there to be updated.
Shows(t, s) ==
  status' = IF status[t] = "cleared" THEN status ELSE [status EXCEPT ![t] = s]

\* enqueueUploads, enqueueDownloads: the questions of a drop are asked one
\* after the other.
Enqueue(t) ==
  /\ promise[t] = "new"
  /\ \A u \in Together(t) : promise[u] # "asking"
  /\ promise' = [promise EXCEPT ![t] = "asking"]
  /\ status' = [status EXCEPT ![t] = "pending"]
  /\ UNCHANGED <<store, worker, flag, keep, event, cancel>>

\* The user, or nobody if there is nothing at the destination, lets the
\* transfer go on.
Approve(t) ==
  /\ promise[t] = "asking"
  /\ promise' = [promise EXCEPT ![t] = "approved"]
  /\ \E k \in IF t \in Folders THEN BOOLEAN ELSE {FALSE} :
       keep' = [keep EXCEPT ![t] = k]
  /\ UNCHANGED <<store, worker, flag, status, event, cancel>>

\* The item is skipped, or what is at the destination cannot be told.
Skip(t) ==
  /\ promise[t] = "asking"
  /\ promise' = [promise EXCEPT ![t] = "settled"]
  /\ \/ Shows(t, "failed")
     \/ (t \in Folders \/ dest[Dest[t]] # None) /\ Shows(t, "canceled")
  /\ UNCHANGED <<store, worker, flag, keep, event, cancel>>

AllAsked(t) == \A u \in Together(t) : promise[u] \notin {"new", "asking"}

\* mapWithConcurrencyLimit starts runTransfer when all were asked about and
\* one of its runners is free.
Start(t) ==
  /\ promise[t] = "approved" /\ AllAsked(t)
  /\ Cardinality({u \in Together(t) : promise[u] \in {"invoked", "rejected"}})
       < Limit
  /\ promise' = [promise EXCEPT ![t] = "invoked"]
  /\ Shows(t, "running")
  /\ pc' = [pc EXCEPT ![t] = "sent"]
  /\ UNCHANGED <<store, file, at, result, flag, keep, event, cancel>>

\* The answer of the command: done, or rejected.
Answered(t) ==
  /\ promise[t] = "invoked" /\ pc[t] = "returned"
  /\ IF result[t] = "ok"
     THEN promise' = [promise EXCEPT ![t] = "settled"] /\ Shows(t, "done")
     ELSE promise' = [promise EXCEPT ![t] = "rejected"] /\ UNCHANGED status
  /\ UNCHANGED <<store, worker, flag, keep, event, cancel>>

\* Defect: A rejected transfer is shown as failed, canceled or not.
Settle_Unasked(t) ==
  /\ promise[t] = "rejected"
  /\ promise' = [promise EXCEPT ![t] = "settled"]
  /\ Shows(t, "failed")
  /\ UNCHANGED <<store, worker, flag, keep, event, cancel>>

\* Defect: A rejection ends the runner instead of freeing it.
Settle_Stuck(t) ==
  /\ promise[t] = "rejected"
  /\ UNCHANGED promise
  /\ IF status[t] = "canceled" THEN UNCHANGED status ELSE Shows(t, "failed")
  /\ UNCHANGED <<store, worker, flag, keep, event, cancel>>

\* After a timer of 0 ms a rejected transfer is shown as failed, unless it is
\* shown as canceled.
Settle(t) ==
  /\ promise[t] = "rejected"
  /\ promise' = [promise EXCEPT ![t] = "settled"]
  /\ IF status[t] = "canceled" THEN UNCHANGED status ELSE Shows(t, "failed")
  /\ UNCHANGED <<store, worker, flag, keep, event, cancel>>

\* updateFromProgress, with the event that ends the transfer.  The others
\* only make a pending task a running one, and it is running before.
Progress(t) ==
  /\ event[t] # None
  /\ event' = [event EXCEPT ![t] = None]
  /\ Shows(t, CASE event[t] = "canceled" -> "canceled"
                [] event[t] = "error" -> "failed"
                [] OTHER -> "done")
  /\ UNCHANGED <<store, worker, flag, promise, keep, cancel>>

ClickCancel(t) ==
  /\ status[t] \in {"pending", "running"}
  /\ cancel[t] = "no"
  /\ cancel' = [cancel EXCEPT ![t] = "sent"]
  /\ UNCHANGED <<store, ui, worker, flag, event>>

CancelAnswered(t) ==
  /\ cancel[t] = "ran"
  /\ cancel' = [cancel EXCEPT ![t] = "no"]
  /\ Shows(t, "canceled")
  /\ UNCHANGED <<store, worker, flag, promise, keep, event>>

ClearFinished ==
  /\ \E t \in Transfers : status[t] \in {"done", "failed", "canceled"}
  /\ status' = [t \in Transfers |->
                  IF status[t] \in {"done", "failed", "canceled"}
                  THEN "cleared" ELSE status[t]]
  /\ UNCHANGED <<store, worker, flag, promise, keep, event, cancel>>

-----------------------------------------------------------------------------
(* The commands.  Goes: the thread gets to the next step; Ends: it ends,   *)
(* with an event (finish_transfer) or before there is one.                 *)

Goes(t, from, to) ==
  /\ pc[t] = from /\ pc' = [pc EXCEPT ![t] = to]
  /\ UNCHANGED <<file, at, result>>

Fails(t, how) ==
  /\ pc' = [pc EXCEPT ![t] = "discard"]
  /\ result' = [result EXCEPT ![t] = how]
  /\ UNCHANGED <<file, at>>

EndsSilently(t, how) ==
  /\ pc' = [pc EXCEPT ![t] = "ended"]
  /\ result' = [result EXCEPT ![t] = how]
  /\ UNCHANGED <<file, at>>

Ends(t, how) ==
  /\ EndsSilently(t, how)
  /\ event' = [event EXCEPT ![t] = how]

\* check_transfer_canceled, before a step that may fail for other reasons.
Canceled(t) == flag[t] = "cancel"
Stopped(t) ==
  \/ Canceled(t) /\ Ends(t, "canceled")
  \/ ~Canceled(t) /\ Ends(t, "error")

\* The command looks the session up and registers the flag.
Register(t) ==
  /\ pc[t] = "sent"
  /\ \/ EndsSilently(t, "error") /\ UNCHANGED flag
     \/ Goes(t, "sent", "connect") /\ flag' = [flag EXCEPT ![t] = "run"]
  /\ UNCHANGED <<store, ui, event, cancel>>

\* A connection of its own, and a look at the source.
Connect(t) ==
  /\ pc[t] = "connect"
  /\ \/ EndsSilently(t, "error")
     \/ Goes(t, "connect", IF t \in Folders THEN "plan" ELSE "begin")
  /\ UNCHANGED <<store, ui, flag, event, cancel>>

\* transfer_dir: the folder is listed, and what is there already left out.
Plan(t) ==
  /\ pc[t] = "plan"
  /\ \/ Stopped(t)
     \/ /\ ~Canceled(t)
        /\ IF keep[t] /\ dest[Dest[t]] # None
           THEN Ends(t, "ok")
           ELSE Goes(t, "plan", "begin") /\ UNCHANGED event
  /\ UNCHANGED <<store, ui, flag, cancel>>

\* upload_file, download_remote_file: both ends are looked at and opened.
Begin(t) ==
  /\ pc[t] = "begin"
  /\ \/ Stopped(t)
     \/ /\ ~Canceled(t)
        /\ Goes(t, "begin", IF t \in Uploads THEN "create" ELSE "clear")
        /\ UNCHANGED event
  /\ UNCHANGED <<store, ui, flag, cancel>>

\* remove_local_entry_if_exists on the part file.
Clear(t) ==
  /\ pc[t] = "clear"
  /\ \/ Ends(t, "error") /\ UNCHANGED part
     \/ /\ Goes(t, "clear", "create")
        /\ part' = [part EXCEPT ![PartName(t)] = None]
        /\ UNCHANGED event
  /\ UNCHANGED <<dest, data, ui, flag, cancel>>

\* Defect: the destination itself is created.
Create_InPlace(t) ==
  /\ pc[t] = "create"
  /\ pc' = [pc EXCEPT ![t] = "copy"]
  /\ file' = [file EXCEPT ![t] = t]
  /\ dest' = [dest EXCEPT ![Dest[t]] = t]
  /\ UNCHANGED <<at, result, part, data, ui, flag, event, cancel>>

\* The part file is created, or truncated if there is one by now.
Create(t) ==
  LET there == part[PartName(t)]
      created == IF there = None THEN t ELSE there
  IN /\ pc[t] = "create"
     /\ \/ Ends(t, "error") /\ UNCHANGED <<part, data>>
        \/ /\ pc' = [pc EXCEPT ![t] = "copy"]
           /\ file' = [file EXCEPT ![t] = created]
           /\ part' = [part EXCEPT ![PartName(t)] = created]
           /\ data' = [data EXCEPT ![created] = [k \in 1 .. Chunks |-> None]]
           /\ UNCHANGED <<at, result, event>>
     /\ UNCHANGED <<dest, ui, flag, cancel>>

\* Defect: The thread counts a chunk it has not read.
Copy_Overruns(t) ==
  /\ pc[t] = "copy"
  /\ at' = [at EXCEPT ![t] = @ + 1]
  /\ data' = [data EXCEPT ![file[t]][at[t] + 1] = t]
  /\ UNCHANGED <<dest, part, pc, file, result, ui, flag, event, cancel>>

\* copy_transfer_stream: one turn of its loop.
Copy(t) ==
  /\ pc[t] = "copy"
  /\ \/ Canceled(t) /\ Fails(t, "canceled") /\ UNCHANGED data
     \/ ~Canceled(t) /\ Fails(t, "error") /\ UNCHANGED data
     \/ /\ ~Canceled(t) /\ at[t] < Chunks
        /\ at' = [at EXCEPT ![t] = @ + 1]
        /\ data' = [data EXCEPT ![file[t]][at[t] + 1] = t]
        /\ UNCHANGED <<pc, file, result>>
     \/ /\ ~Canceled(t) /\ at[t] = Chunks
        /\ Goes(t, "copy", IF t \in Uploads THEN "rename" ELSE "replace")
        /\ UNCHANGED data
  /\ UNCHANGED <<dest, part, ui, flag, event, cancel>>

\* The part file of a transfer that failed is removed, if that works.
Discard(t) ==
  /\ pc[t] = "discard"
  /\ Ends(t, result[t])
  /\ \/ part' = [part EXCEPT ![PartName(t)] = None]
     \/ UNCHANGED part
  /\ UNCHANGED <<dest, data, ui, flag, cancel>>

\* rename, on the server; fs::rename replaces whatever is there.
Renames(t) ==
  /\ part[PartName(t)] # None
  /\ dest[Dest[t]] = None \/ Overwrites \/ t \notin Uploads
  /\ dest' = [dest EXCEPT ![Dest[t]] = part[PartName(t)]]
  /\ part' = [part EXCEPT ![PartName(t)] = None]

\* finalize_remote_part: rename; if that fails unlink what is at the
\* destination and rename again, but keep the part file if that fails too.
Rename(t) ==
  /\ pc[t] = "rename"
  /\ \/ Renames(t) /\ Ends(t, "ok")
     \/ Goes(t, "rename", "unlink") /\ UNCHANGED <<dest, part, event>>
  /\ UNCHANGED <<data, ui, flag, cancel>>

Unlink(t) ==
  /\ pc[t] = "unlink"
  /\ \/ /\ dest[Dest[t]] # None
        /\ Goes(t, "unlink", "retry")
        /\ dest' = [dest EXCEPT ![Dest[t]] = None]
     \/ Fails(t, "error") /\ UNCHANGED dest
  /\ UNCHANGED <<part, data, ui, flag, event, cancel>>

\* Defect: The part file removed whenever the rename fails.
Retry_Discards(t) ==
  /\ pc[t] = "retry"
  /\ \/ Renames(t) /\ Ends(t, "ok")
     \/ Fails(t, "error") /\ UNCHANGED <<dest, part, event>>
  /\ UNCHANGED <<data, ui, flag, cancel>>

Retry(t) ==
  /\ pc[t] = "retry"
  /\ \/ Renames(t) /\ Ends(t, "ok")
     \/ Ends(t, "error") /\ UNCHANGED <<dest, part>>
  /\ UNCHANGED <<data, ui, flag, cancel>>

\* The end of download_remote_file: the destination is removed, then the part
\* file renamed.
Replace(t) ==
  /\ pc[t] = "replace"
  /\ \/ /\ Goes(t, "replace", "move")
        /\ dest' = [dest EXCEPT ![Dest[t]] = None]
        /\ UNCHANGED event
     \/ Ends(t, "error") /\ UNCHANGED dest
  /\ UNCHANGED <<part, data, ui, flag, cancel>>

\* Defect: the part file removed when it cannot be renamed.
Move_Discards(t) ==
  /\ pc[t] = "move"
  /\ \/ Renames(t) /\ Ends(t, "ok")
     \/ Fails(t, "error") /\ UNCHANGED <<dest, part, event>>
  /\ UNCHANGED <<data, ui, flag, cancel>>

Move(t) ==
  /\ pc[t] = "move"
  /\ \/ Renames(t) /\ Ends(t, "ok")
     \/ Ends(t, "error") /\ UNCHANGED <<dest, part>>
  /\ UNCHANGED <<data, ui, flag, cancel>>

\* remove_transfer_cancel, and the answer.
Return(t) ==
  /\ Goes(t, "ended", "returned")
  /\ flag' = [flag EXCEPT ![t] = "none"]
  /\ UNCHANGED <<store, ui, event, cancel>>

\* cancel_transfer.
CancelRuns(t) ==
  /\ cancel[t] = "sent"
  /\ cancel' = [cancel EXCEPT ![t] = "ran"]
  /\ flag' = IF flag[t] = "none" THEN flag ELSE [flag EXCEPT ![t] = "cancel"]
  /\ UNCHANGED <<store, ui, worker, event>>

-----------------------------------------------------------------------------
User(t) == Enqueue(t) \/ Approve(t) \/ Skip(t) \/ ClickCancel(t)

Finalize(t) ==
  \/ Rename(t) \/ Unlink(t) \/ Retry(t)
  \/ Replace(t) \/ Move(t)

Thread(t) ==
  \/ Register(t) \/ Connect(t) \/ Plan(t) \/ Begin(t)
  \/ Clear(t) \/ Create(t) \/ Copy(t) \/ Discard(t)
  \/ Finalize(t) \/ Return(t)

Interface(t) ==
  \/ Start(t) \/ Answered(t) \/ Settle(t) \/ Progress(t) \/ CancelAnswered(t)

Next ==
  \/ \E t \in Transfers : User(t) \/ Thread(t) \/ Interface(t) \/ CancelRuns(t)
  \/ ClearFinished

Spec == Init /\ [][Next]_vars

(***************************************************************************)
(* Every call on a file or on the server returns (set_timeout bounds it),  *)
(* so a thread goes on; the event loops deliver what was sent.  Nothing is *)
(* asked of the user.                                                      *)
(***************************************************************************)
Fairness == \A t \in Transfers : WF_vars(Thread(t)) /\ WF_vars(Interface(t))

FairSpec == Spec /\ Fairness

-----------------------------------------------------------------------------
(* Properties. *)

\* The file is the old one, or what one transfer wrote from end to end.
Whole(f) ==
  f = "old" \/ \E t \in Transfers : \A k \in 1 .. Chunks : data[f][k] = t

\* Nothing partial is ever seen at a destination: neither a canceled or
\* failed transfer nor two at once leave a truncated or mixed file there.
WholeFiles == \A d \in Dests : dest[d] # None => Whole(dest[d])

\* Where there was a file there always is a whole copy of something, at the
\* destination or in a part file: replacing a file, which removes it before
\* the rename, never leaves the user without the old and without the new one.
SurvivingCopy ==
  \A d \in Existing :
    \/ dest[d] # None /\ Whole(dest[d])
    \/ \E t \in Transfers :
         /\ Dest[t] = d
         /\ part[PartName(t)] # None
         /\ Whole(part[PartName(t)])

AtRest(t) ==
  promise[t] = "settled" /\ event[t] = None /\ cancel[t] = "no"

\* When all was delivered, what is shown is what happened: the event and the
\* answer come in either order, with the answers of cancels between them, and
\* never make a failure a success or a cancel a failure.
HonestStatus ==
  \A t \in Transfers :
    AtRest(t) =>
      /\ status[t] = "done" => result[t] = "ok"
      /\ result[t] = "canceled" => status[t] \in {"canceled", "cleared"}
      /\ result[t] = "error" =>
           status[t] \in {"failed", "canceled", "cleared"}

\* When the questions of a drop are answered, a transfer the user let go on is
\* started and ends, whatever becomes of the others.
ApprovedIsSettled ==
  \A t \in Transfers :
    promise[t] = "approved" /\ AllAsked(t) ~> promise[t] = "settled"

\* The comment of cancel_transfer: "A missing flag means the transfer already
\* finished".  It does not: the flag may not be there yet.
MissingFlagMeansFinished ==
  [][\A t \in Transfers :
       cancel[t] = "sent" /\ cancel'[t] = "ran" /\ flag[t] = "none"
         => pc[t] = "returned"]_vars

\* The comment of keep_existing: "leave files that already exist at the
\* destination instead of replacing them".  They are looked for in the plan,
\* and replaced if they came after it.
KeepsExisting ==
  [][\A t \in Transfers :
       keep[t] /\ pc'[t] # pc[t] /\ dest[Dest[t]] # None
         => dest'[Dest[t]] = dest[Dest[t]]]_vars

-----------------------------------------------------------------------------
(* For TLC: to one destination or to different ones, and in drops of one item  *)
(* or in a single drop.                                                        *)

Same == [t \in Transfers |-> CHOOSE d \in Dests : TRUE]
Apart == CHOOSE to \in [Transfers -> Dests] :
           \A t, u \in Transfers : t # u => to[t] # to[u]
TwoDrops == [t \in Transfers |-> t]
OneDrop == [t \in Transfers |-> CHOOSE u \in Transfers : TRUE]
=============================================================================
