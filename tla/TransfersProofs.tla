-------------------------- MODULE TransfersProofs --------------------------
(***************************************************************************)
(* Whatever the number of transfers, where they go and how they end:       *)
(* nothing partial is at a destination, and a file that was there is lost  *)
(* only when there is another whole copy - if no two transfers share a     *)
(* part file.                                                              *)
(*                                                                         *)
(* The invariant follows the file of a transfer.  Until the thread has     *)
(* read all, it is known as the part file only, which nobody else names;   *)
(* then it is whole; and once it is at a destination the thread is over,   *)
(* so that it stays whole.  A destination is emptied only by a thread that *)
(* keeps its part file from then on.                                       *)
(*                                                                         *)
(* And what is shown of a transfer in the end is what happened to it.      *)
(***************************************************************************)
EXTENDS Transfers, TLAPS

PrivateParts ==
  \A t, u \in Transfers : t # u => PartName(t) # PartName(u)

Full(t) == \A k \in 1 .. Chunks : data[t][k] = t

Finishing == {"rename", "unlink", "retry", "replace", "move"}
Over == {"ended", "returned"}

\* A part file belongs to its transfer.
Owned == \A t \in Transfers : part[PartName(t)] \in {t, None}

\* A thread that copies has its part file and wrote it so far.
Written ==
  \A t \in Transfers :
    pc[t] \in Finishing \cup {"copy"} =>
      /\ file[t] = t /\ part[PartName(t)] = t
      /\ \A k \in 1 .. at[t] : data[t][k] = t

\* It goes on to the destination when it wrote all.
Complete ==
  \A t \in Transfers : pc[t] \in Finishing => at[t] = Chunks

\* The file at a destination is not written any more.
Landed ==
  \A d \in Dests :
    dest[d] \in Transfers => pc[dest[d]] \in Over /\ Full(dest[d])

\* A destination is empty only while somebody keeps a whole part file for it.
Rescue(t) ==
  /\ part[PartName(t)] = t /\ Full(t)
  /\ pc[t] \in {"retry", "move"} \cup Over

Rescued ==
  \A d \in Existing :
    dest[d] = None => \E t \in Transfers : Dest[t] = d /\ Rescue(t)

\* A thread is started once.
Unstarted ==
  \A t \in Transfers :
    promise[t] \in {"new", "asking", "approved"} => pc[t] = "idle"

\* Nothing is written before the copy.
Early == {"idle", "sent", "connect", "plan", "begin", "clear", "create"}

Fresh == \A t \in Transfers : pc[t] \in Early => at[t] = 0

Safe == Owned /\ Written /\ Complete /\ Landed /\ Rescued

IInv == TypeOK /\ Unstarted /\ Fresh /\ Safe

-----------------------------------------------------------------------------
(* Types, and that a thread is started once.                               *)

LEMMA PartNameType ==
  ASSUME NEW t \in Transfers
  PROVE  PartName(t) \in PartNames /\ Dest[t] \in Dests
BY TransfersAssumption DEF PartName, PartNames

LEMMA StepType ==
  ASSUME TypeOK, NEW t \in Transfers, NEW to,
         to \in {"sent", "connect", "plan", "begin", "clear", "create", "copy",
                "rename", "unlink", "retry", "replace", "move", "discard",
                "ended", "returned"},
         pc' = [pc EXCEPT ![t] = to]
  PROVE  pc' \in [Transfers -> Steps]
<1>1. to \in Steps
  BY DEF Steps
<1> QED
  BY <1>1 DEF TypeOK

LEMMA ShowsType ==
  ASSUME TypeOK, NEW t \in Transfers,
         NEW s \in {"running", "done", "failed", "canceled"}, Shows(t, s)
  PROVE  status' \in [Transfers -> {"new", "pending", "running", "done",
                                    "failed", "canceled", "cleared"}]
BY DEF TypeOK, Shows

LEMMA InterfaceType ==
  ASSUME TypeOK, Unstarted, NEW t \in Transfers,
         User(t) \/ Interface(t)
  PROVE  TypeOK' /\ Unstarted'
<1> USE DEF store, worker
<1>1. CASE Enqueue(t)
  BY <1>1 DEF Enqueue, TypeOK, Unstarted
<1>2. CASE Approve(t)
  <2>1. keep' \in [Transfers -> BOOLEAN]
    BY <1>2 DEF Approve, TypeOK
  <2> QED
    BY <1>2, <2>1 DEF Approve, TypeOK, Unstarted
<1>3. CASE Skip(t)
  <2>1. Shows(t, "failed") \/ Shows(t, "canceled")
    BY <1>3 DEF Skip
  <2> QED
    BY <1>3, <2>1, ShowsType DEF Skip, TypeOK, Unstarted
<1>4. CASE ClickCancel(t)
  BY <1>4 DEF ClickCancel, TypeOK, Unstarted, ui
<1>5. CASE Start(t)
  <2>1. /\ promise[t] = "approved"
        /\ promise' = [promise EXCEPT ![t] = "invoked"]
        /\ pc' = [pc EXCEPT ![t] = "sent"]
        /\ Shows(t, "running")
        /\ UNCHANGED <<store, file, at, result, flag, keep, event, cancel>>
    BY <1>5 DEF Start
  <2>2. status' \in [Transfers -> {"new", "pending", "running", "done",
                                   "failed", "canceled", "cleared"}]
    BY <2>1, ShowsType
  <2>3. TypeOK'
    BY <2>1, <2>2, StepType DEF TypeOK
  <2>4. Unstarted'
    BY <2>1 DEF TypeOK, Unstarted
  <2> QED
    BY <2>3, <2>4
<1>6. CASE Answered(t)
  <2>1. /\ promise[t] = "invoked"
        /\ \/ promise' = [promise EXCEPT ![t] = "settled"]
           \/ promise' = [promise EXCEPT ![t] = "rejected"]
        /\ Shows(t, "done") \/ UNCHANGED status
        /\ UNCHANGED <<store, worker, flag, keep, event, cancel>>
    BY <1>6 DEF Answered
  <2> QED
    BY <2>1, ShowsType DEF TypeOK, Unstarted
<1>7. CASE Settle(t)
  <2>1. /\ promise[t] = "rejected"
        /\ promise' = [promise EXCEPT ![t] = "settled"]
        /\ Shows(t, "failed") \/ UNCHANGED status
        /\ UNCHANGED <<store, worker, flag, keep, event, cancel>>
    BY <1>7 DEF Settle
  <2> QED
    BY <2>1, ShowsType DEF TypeOK, Unstarted
<1>8. CASE Progress(t)
  <2>1. Shows(t, "failed") \/ Shows(t, "canceled") \/ Shows(t, "done")
    BY <1>8 DEF Progress
  <2> QED
    BY <1>8, <2>1, ShowsType DEF Progress, TypeOK, Unstarted
<1>9. CASE CancelAnswered(t)
  BY <1>9, ShowsType DEF CancelAnswered, TypeOK, Unstarted
<1> QED
  BY <1>1, <1>2, <1>3, <1>4, <1>5, <1>6, <1>7, <1>8, <1>9
  DEF User, Interface

\* What Goes, Fails and Ends have in common.
Moved(t, to) ==
  /\ pc' \in [Transfers -> Steps] /\ pc'[t] = to
  /\ \A u \in Transfers \ {t} : pc'[u] = pc[u]
  /\ result' \in [Transfers -> {None, "ok", "error", "canceled"}]
  /\ UNCHANGED <<file, at>>

LEMMA GoesMoves ==
  ASSUME TypeOK, NEW t \in Transfers, NEW from, NEW to,
         to \in {"sent", "connect", "plan", "begin", "clear", "create", "copy",
                "rename", "unlink", "retry", "replace", "move", "discard",
                "ended", "returned"},
         Goes(t, from, to)
  PROVE  Moved(t, to) /\ pc[t] = from
<1>1. pc' \in [Transfers -> Steps]
  BY StepType DEF Goes
<1> QED
  BY <1>1 DEF Moved, Goes, TypeOK

LEMMA FailsMoves ==
  ASSUME TypeOK, NEW t \in Transfers,
         NEW how \in {"ok", "error", "canceled"}, Fails(t, how)
  PROVE  Moved(t, "discard")
<1>1. pc' \in [Transfers -> Steps]
  BY StepType DEF Fails
<1> QED
  BY <1>1 DEF Moved, Fails, TypeOK

LEMMA EndsMoves ==
  ASSUME TypeOK, NEW t \in Transfers,
         NEW how \in {None, "ok", "error", "canceled"}, EndsSilently(t, how)
  PROVE  Moved(t, "ended")
<1>1. pc' \in [Transfers -> Steps]
  BY StepType DEF EndsSilently
<1> QED
  BY <1>1 DEF Moved, EndsSilently, TypeOK

LEMMA EndsEvent ==
  ASSUME TypeOK, NEW t \in Transfers,
         NEW how \in {None, "ok", "error", "canceled"}, Ends(t, how)
  PROVE  /\ Moved(t, "ended")
         /\ event' \in [Transfers -> {None, "ok", "error", "canceled"}]
BY EndsMoves DEF Ends, TypeOK

LEMMA StoppedMoves ==
  ASSUME TypeOK, NEW t \in Transfers, Stopped(t)
  PROVE  /\ Moved(t, "ended")
         /\ event' \in [Transfers -> {None, "ok", "error", "canceled"}]
BY EndsEvent DEF Stopped

\* A thread on its way leaves the files alone but where it says so.
LEMMA QuietSteps ==
  ASSUME TypeOK, NEW t \in Transfers,
         \/ Register(t) \/ Connect(t) \/ Plan(t) \/ Begin(t) \/ Return(t)
  PROVE  /\ UNCHANGED <<store, ui, cancel>>
         /\ flag' \in [Transfers -> {"none", "run", "cancel"}]
         /\ event' \in [Transfers -> {None, "ok", "error", "canceled"}]
         /\ \/ Moved(t, "ended") /\ pc[t] \in {"sent", "connect", "plan", "begin"}
            \/ Moved(t, "connect") /\ pc[t] = "sent"
            \/ Moved(t, "plan") /\ pc[t] = "connect"
            \/ Moved(t, "begin") /\ pc[t] \in {"connect", "plan"}
            \/ (Moved(t, "create") \/ Moved(t, "clear")) /\ pc[t] = "begin"
            \/ Moved(t, "returned") /\ pc[t] = "ended"
<1>1. CASE Register(t)
  <2>1. /\ pc[t] = "sent" /\ UNCHANGED <<store, ui, event, cancel>>
        /\ \/ EndsSilently(t, "error") /\ UNCHANGED flag
           \/ Goes(t, "sent", "connect") /\ flag' = [flag EXCEPT ![t] = "run"]
    BY <1>1 DEF Register
  <2> QED
    BY <2>1, EndsMoves, GoesMoves DEF TypeOK
<1>2. CASE Connect(t)
  <2>1. \/ EndsSilently(t, "error")
        \/ Goes(t, "connect", "plan") \/ Goes(t, "connect", "begin")
    BY <1>2 DEF Connect
  <2>2. pc[t] = "connect" /\ UNCHANGED <<store, ui, flag, event, cancel>>
    BY <1>2 DEF Connect
  <2> QED
    BY <2>1, <2>2, EndsMoves, GoesMoves DEF TypeOK
<1>3. CASE Plan(t)
  <2>1. \/ Stopped(t) \/ Ends(t, "ok")
        \/ Goes(t, "plan", "begin") /\ UNCHANGED event
    BY <1>3 DEF Plan
  <2>2. pc[t] = "plan" /\ UNCHANGED <<store, ui, flag, cancel>>
    BY <1>3 DEF Plan
  <2> QED
    BY <2>1, <2>2, StoppedMoves, EndsEvent, GoesMoves DEF TypeOK
<1>4. CASE Begin(t)
  <2>1. \/ Stopped(t)
        \/ Goes(t, "begin", "create") /\ UNCHANGED event
        \/ Goes(t, "begin", "clear") /\ UNCHANGED event
    BY <1>4 DEF Begin
  <2>2. pc[t] = "begin" /\ UNCHANGED <<store, ui, flag, cancel>>
    BY <1>4 DEF Begin
  <2> QED
    BY <2>1, <2>2, StoppedMoves, GoesMoves DEF TypeOK
<1>5. CASE Return(t)
  <2>1. /\ Goes(t, "ended", "returned")
        /\ flag' = [flag EXCEPT ![t] = "none"]
        /\ UNCHANGED <<store, ui, event, cancel>>
    BY <1>5 DEF Return
  <2> QED
    BY <2>1, GoesMoves DEF TypeOK
<1> QED
  BY <1>1, <1>2, <1>3, <1>4, <1>5

-----------------------------------------------------------------------------
(* The files.                                                              *)

StoreType ==
  /\ dest \in [Dests -> Files \cup {None}]
  /\ part \in [PartNames -> Transfers \cup {None}]
  /\ data \in [Transfers -> [1 .. Chunks -> Transfers \cup {None}]]
  /\ file \in [Transfers -> Transfers \cup {None}]
  /\ at \in [Transfers -> 0 .. Chunks]

LEMMA TypeStore == TypeOK => StoreType
BY DEF TypeOK, StoreType

\* A thread that does not touch the files may move on, but not to a step
\* before which something must be true of them, nor away from its rescue.
LEMMA QuietSafe ==
  ASSUME Safe, NEW t \in Transfers, NEW to, Moved(t, to), UNCHANGED store,
         to \notin Finishing \cup {"copy"},
         pc[t] \in {"retry", "move"} \cup Over => to \in Over
  PROVE  Safe'
<1> USE DEF Moved, store
<1>1. Owned'
  BY DEF Safe, Owned, PartName
<1>2. Written'
  BY DEF Safe, Written, PartName
<1>3. Complete'
  BY DEF Safe, Complete
<1>4. Landed'
  BY DEF Safe, Landed, Full
<1>5. Rescued'
  BY DEF Safe, Rescued, Rescue, Full, PartName
<1> QED
  BY <1>1, <1>2, <1>3, <1>4, <1>5 DEF Safe

\* From the end of the copy on it may, as it wrote all.
LEMMA OnwardSafe ==
  ASSUME Safe, NEW t \in Transfers, NEW to, Moved(t, to), UNCHANGED store,
         pc[t] \in {"copy", "rename"}, to \in Finishing, at[t] = Chunks
  PROVE  Safe'
<1> USE DEF Moved, store, Finishing, Over
<1>1. Owned'
  BY DEF Safe, Owned, PartName
<1>2. Written'
  BY DEF Safe, Written, PartName
<1>3. Complete'
  BY DEF Safe, Complete
<1>4. Landed'
  BY DEF Safe, Landed, Full
<1>5. Rescued'
  BY DEF Safe, Rescued, Rescue, Full, PartName
<1> QED
  BY <1>1, <1>2, <1>3, <1>4, <1>5 DEF Safe

\* Clearing the part file of a thread that has not copied, or gave up.
LEMMA DropPartSafe ==
  ASSUME PrivateParts, StoreType, Safe, NEW t \in Transfers, NEW to,
         Moved(t, to), UNCHANGED <<dest, data>>,
         pc[t] \in {"clear", "discard"}, to \in {"create", "ended"},
         part' = [part EXCEPT ![PartName(t)] = None]
  PROVE  Safe'
<1>1. /\ part'[PartName(t)] = None
      /\ \A u \in Transfers \ {t} : part'[PartName(u)] = part[PartName(u)]
  BY PartNameType DEF StoreType, PrivateParts
<1> USE DEF Moved, Finishing, Over
<1>2. Owned'
  BY <1>1 DEF Safe, Owned, PartName
<1>3. Written'
  BY <1>1 DEF Safe, Written, PartName
<1>4. Complete'
  BY DEF Safe, Complete
<1>5. Landed'
  BY DEF Safe, Landed, Full
<1>6. Rescued'
  BY <1>1 DEF Safe, Rescued, Rescue, Full, PartName
<1> QED
  BY <1>2, <1>3, <1>4, <1>5, <1>6 DEF Safe

\* Creating it: nothing of this thread is at a destination yet.
LEMMA CreateSafe ==
  ASSUME PrivateParts, StoreType, Safe, NEW t \in Transfers,
         pc[t] = "create", pc' = [pc EXCEPT ![t] = "copy"],
         pc' \in [Transfers -> Steps], pc \in [Transfers -> Steps],
         file' = [file EXCEPT ![t] = t], at[t] = 0,
         part' = [part EXCEPT ![PartName(t)] = t],
         data' = [data EXCEPT ![t] = [k \in 1 .. Chunks |-> None]],
         UNCHANGED <<dest, at>>
  PROVE  Safe'
<1>1. /\ part'[PartName(t)] = t
      /\ \A u \in Transfers \ {t} : part'[PartName(u)] = part[PartName(u)]
  BY PartNameType DEF StoreType, PrivateParts
<1>2. \A u \in Transfers \ {t} : /\ data'[u] = data[u] /\ pc'[u] = pc[u]
                                 /\ file'[u] = file[u]
  BY DEF StoreType
<1>3. pc'[t] = "copy" /\ file'[t] = t
  BY DEF StoreType
<1> USE DEF Finishing, Over
<1>4. Owned'
  BY <1>1 DEF Safe, Owned, PartName
<1>5. Written'
  BY <1>1, <1>2, <1>3 DEF Safe, Written, PartName
<1>6. Complete'
  BY <1>2, <1>3 DEF Safe, Complete
<1>7. Landed'
  BY <1>2 DEF Safe, Landed, Full
<1>8. Rescued'
  BY <1>1, <1>2 DEF Safe, Rescued, Rescue, Full, PartName
<1> QED
  BY <1>4, <1>5, <1>6, <1>7, <1>8 DEF Safe

\* Writing a chunk, to the file the thread created itself.
LEMMA WriteSafe ==
  ASSUME StoreType, Safe, NEW t \in Transfers,
         pc[t] = "copy", at[t] < Chunks, UNCHANGED <<pc, file, dest, part>>,
         at' = [at EXCEPT ![t] = @ + 1],
         data' = [data EXCEPT ![file[t]][at[t] + 1] = t]
  PROVE  Safe'
<1>1. file[t] = t /\ at[t] \in Nat /\ \A k \in 1 .. at[t] : data[t][k] = t
  BY DEF Safe, Written, StoreType
<1>2. data' = [data EXCEPT ![t] = [data[t] EXCEPT ![at[t] + 1] = t]]
  BY <1>1
<1>3. /\ \A u \in Transfers \ {t} : data'[u] = data[u] /\ at'[u] = at[u]
      /\ at'[t] = at[t] + 1
  BY <1>2 DEF StoreType
<1>4. at[t] + 1 \in 1 .. Chunks
  BY <1>1, TransfersAssumption
<1>5. data'[t] = [data[t] EXCEPT ![at[t] + 1] = t]
  BY <1>2 DEF StoreType
<1>6. data[t] \in [1 .. Chunks -> Transfers \cup {None}]
  BY DEF StoreType
<1>7. \A k \in 1 .. at[t] + 1 : data'[t][k] = t
  <2> TAKE k \in 1 .. at[t] + 1
  <2>1. k \in 1 .. Chunks /\ (k = at[t] + 1 \/ k \in 1 .. at[t])
    BY <1>1, <1>4, TransfersAssumption
  <2> QED
    BY <1>1, <1>5, <1>6, <2>1
<1> USE DEF Finishing, Over
<1>8. Owned'
  BY DEF Safe, Owned, PartName
<1>9. Written'
  BY <1>3, <1>7 DEF Safe, Written, PartName
<1>10. Complete'
  BY <1>3 DEF Safe, Complete
<1>11. Landed'
  BY <1>3 DEF Safe, Landed, Full
<1>12. Rescued'
  BY <1>3 DEF Safe, Rescued, Rescue, Full, PartName
<1> QED
  BY <1>8, <1>9, <1>10, <1>11, <1>12 DEF Safe

\* A thread that gets to the destination wrote its file from end to end.
LEMMA FinishingFull ==
  ASSUME Safe, NEW t \in Transfers, pc[t] \in Finishing
  PROVE  part[PartName(t)] = t /\ Full(t)
BY DEF Safe, Written, Complete, Full

\* The rename: the file is whole and the thread done with it.
LEMMA RenamesSafe ==
  ASSUME PrivateParts, StoreType, Safe, NEW t \in Transfers,
         pc[t] \in {"rename", "retry", "move"}, Moved(t, "ended"),
         Renames(t), UNCHANGED data
  PROVE  Safe'
<1>1. part[PartName(t)] = t /\ Full(t)
  BY FinishingFull DEF Finishing
<1>2. /\ part'[PartName(t)] = None
      /\ \A u \in Transfers \ {t} : part'[PartName(u)] = part[PartName(u)]
  BY PartNameType DEF StoreType, PrivateParts, Renames
<1>3. /\ dest'[Dest[t]] = t
      /\ \A d \in Dests \ {Dest[t]} : dest'[d] = dest[d]
  BY <1>1, PartNameType DEF StoreType, Renames
<1> USE DEF Moved, Finishing, Over
<1>4. Owned'
  BY <1>2 DEF Safe, Owned, PartName
<1>5. Written'
  BY <1>2 DEF Safe, Written, PartName
<1>6. Complete'
  BY DEF Safe, Complete
<1>7. Landed'
  BY <1>1, <1>3 DEF Safe, Landed, Full
<1>8. Rescued'
  <2> SUFFICES ASSUME NEW d \in Existing, dest'[d] = None
               PROVE  \E u \in Transfers : Dest[u] = d /\ Rescue(u)'
    BY DEF Rescued
  <2>1. d # Dest[t] /\ d \in Dests /\ dest[d] = None
    BY <1>3, TransfersAssumption
  <2>2. PICK u \in Transfers : Dest[u] = d /\ Rescue(u)
    BY <2>1 DEF Safe, Rescued
  <2> QED
    BY <1>2, <2>1, <2>2 DEF Rescue, Full, PartName
<1> QED
  BY <1>4, <1>5, <1>6, <1>7, <1>8 DEF Safe

\* Removing what is at the destination: the thread keeps its part file.
LEMMA EvictSafe ==
  ASSUME StoreType, Safe, NEW t \in Transfers,
         NEW to, to \in {"retry", "move"},
         pc[t] \in {"unlink", "replace"}, Moved(t, to),
         dest' = [dest EXCEPT ![Dest[t]] = None],
         UNCHANGED <<part, data>>
  PROVE  Safe'
<1>1. part[PartName(t)] = t /\ Full(t)
  BY FinishingFull DEF Finishing
<1>2. /\ dest'[Dest[t]] = None
      /\ \A d \in Dests \ {Dest[t]} : dest'[d] = dest[d]
  BY PartNameType DEF StoreType
<1> USE DEF Moved, Finishing, Over
<1>3. Owned'
  BY DEF Safe, Owned, PartName
<1>4. Written'
  BY DEF Safe, Written, PartName
<1>5. Complete'
  BY DEF Safe, Complete
<1>6. Landed'
  BY <1>2, TransfersAssumption DEF Safe, Landed, Full
<1>7. Rescued'
  <2> SUFFICES ASSUME NEW d \in Existing, dest'[d] = None
               PROVE  \E u \in Transfers : Dest[u] = d /\ Rescue(u)'
    BY DEF Rescued
  <2>1. CASE d = Dest[t]
    BY <1>1, <2>1 DEF Rescue, Full, PartName
  <2>2. CASE d # Dest[t]
    <3>1. dest[d] = None
      BY <1>2, <2>2, TransfersAssumption
    <3>2. PICK u \in Transfers : Dest[u] = d /\ Rescue(u)
      BY <3>1 DEF Safe, Rescued
    <3> QED
      BY <2>2, <3>2 DEF Rescue, Full, PartName
  <2> QED
    BY <2>1, <2>2
<1> QED
  BY <1>3, <1>4, <1>5, <1>6, <1>7 DEF Safe

-----------------------------------------------------------------------------
(* The steps.                                                              *)

\* What TypeOK says of a step that leaves the user interface alone.
LEMMA StepTypes ==
  ASSUME TypeOK, Unstarted, Fresh, NEW t \in Transfers, NEW to \in Steps,
         Moved(t, to), UNCHANGED ui, UNCHANGED cancel,
         pc[t] # "idle", to \in Early => pc[t] \in Early,
         dest' \in [Dests -> Files \cup {None}],
         part' \in [PartNames -> Transfers \cup {None}], UNCHANGED data,
         flag' \in [Transfers -> {"none", "run", "cancel"}],
         event' \in [Transfers -> {None, "ok", "error", "canceled"}]
  PROVE  TypeOK' /\ Unstarted' /\ Fresh'
<1>1. TypeOK'
  BY DEF TypeOK, Moved, ui
<1>2. Unstarted'
  BY DEF Unstarted, Moved, ui
<1>3. Fresh'
  BY DEF Fresh, Moved
<1> QED
  BY <1>1, <1>2, <1>3

LEMMA QuietStep ==
  ASSUME IInv, NEW t \in Transfers,
         \/ Register(t) \/ Connect(t) \/ Plan(t) \/ Begin(t) \/ Return(t)
  PROVE  IInv'
<1>1. PICK to \in {"ended", "connect", "plan", "begin", "create", "clear",
                   "returned"} :
        /\ Moved(t, to) /\ UNCHANGED <<store, ui, cancel>>
        /\ flag' \in [Transfers -> {"none", "run", "cancel"}]
        /\ event' \in [Transfers -> {None, "ok", "error", "canceled"}]
        /\ pc[t] \in {"sent", "connect", "plan", "begin", "ended"}
        /\ pc[t] = "ended" => to = "returned"
        /\ to = "returned" => pc[t] = "ended"
  BY QuietSteps DEF IInv
<1>2. to \in Steps
  BY DEF Steps
<1>3. pc[t] # "idle" /\ (to \in Early => pc[t] \in Early)
  BY <1>1 DEF Early
<1>4. TypeOK' /\ Unstarted' /\ Fresh'
  BY <1>1, <1>2, <1>3, StepTypes DEF IInv, TypeOK, store
<1>5. Safe'
  BY <1>1, QuietSafe DEF IInv, Finishing, Over
<1> QED
  BY <1>4, <1>5 DEF IInv

LEMMA ClearStep ==
  ASSUME PrivateParts, IInv, NEW t \in Transfers, Clear(t)
  PROVE  IInv'
<1>1. /\ pc[t] = "clear" /\ UNCHANGED <<dest, data, ui, flag, cancel>>
      /\ \/ Ends(t, "error") /\ UNCHANGED part
         \/ /\ Goes(t, "clear", "create") /\ UNCHANGED event
            /\ part' = [part EXCEPT ![PartName(t)] = None]
  BY DEF Clear
<1>2. part' \in [PartNames -> Transfers \cup {None}]
  BY <1>1, PartNameType DEF IInv, TypeOK
<1>3. CASE Ends(t, "error") /\ UNCHANGED part
  <2>1. /\ Moved(t, "ended")
        /\ event' \in [Transfers -> {None, "ok", "error", "canceled"}]
    BY <1>3, EndsEvent DEF IInv
  <2>2. TypeOK' /\ Unstarted' /\ Fresh'
    BY <1>1, <1>2, <2>1, StepTypes DEF IInv, TypeOK, Steps, Early
  <2>3. Safe'
    BY <1>1, <1>3, <2>1, QuietSafe DEF IInv, store, Finishing, Over
  <2> QED
    BY <2>2, <2>3 DEF IInv
<1>4. CASE Goes(t, "clear", "create") /\ UNCHANGED event
           /\ part' = [part EXCEPT ![PartName(t)] = None]
  <2>1. Moved(t, "create")
    BY <1>4, GoesMoves DEF IInv
  <2>2. TypeOK' /\ Unstarted' /\ Fresh'
    BY <1>1, <1>2, <1>4, <2>1, StepTypes DEF IInv, TypeOK, Steps, Early
  <2>3. Safe'
    BY <1>1, <1>4, <2>1, DropPartSafe, TypeStore DEF IInv
  <2> QED
    BY <2>2, <2>3 DEF IInv
<1> QED
  BY <1>1, <1>3, <1>4

LEMMA CreateStep ==
  ASSUME PrivateParts, IInv, NEW t \in Transfers, Create(t)
  PROVE  IInv'
<1>1. CASE Ends(t, "error") /\ UNCHANGED <<part, data>>
  <2>1. /\ Moved(t, "ended") /\ pc[t] = "create"
        /\ event' \in [Transfers -> {None, "ok", "error", "canceled"}]
        /\ UNCHANGED <<dest, ui, flag, cancel>>
    BY <1>1, EndsEvent DEF IInv, Create
  <2>2. TypeOK' /\ Unstarted' /\ Fresh'
    BY <1>1, <2>1, StepTypes DEF IInv, TypeOK, Steps, Early
  <2>3. Safe'
    BY <1>1, <2>1, QuietSafe DEF IInv, store, Finishing, Over
  <2> QED
    BY <2>2, <2>3 DEF IInv
<1>2. CASE ~(Ends(t, "error") /\ UNCHANGED <<part, data>>)
  <2>1. part[PartName(t)] \in {t, None}
    BY DEF IInv, Safe, Owned
  <2>2. /\ pc[t] = "create" /\ pc' = [pc EXCEPT ![t] = "copy"]
        /\ file' = [file EXCEPT ![t] = t]
        /\ part' = [part EXCEPT ![PartName(t)] = t]
        /\ data' = [data EXCEPT ![t] = [k \in 1 .. Chunks |-> None]]
        /\ UNCHANGED <<at, result, event, dest, ui, flag, cancel>>
    BY <1>2, <2>1 DEF Create
  <2>3. pc' \in [Transfers -> Steps] /\ pc \in [Transfers -> Steps]
    BY <2>2, StepType DEF IInv, TypeOK
  <2>4. at[t] = 0
    BY <2>2 DEF IInv, Fresh, Early
  <2>5. TypeOK'
    BY <2>2, <2>3, PartNameType DEF IInv, TypeOK, ui
  <2>6. Unstarted' /\ Fresh'
    BY <2>2, <2>3 DEF IInv, Unstarted, Fresh, Early, ui
  <2>7. Safe'
    BY <2>2, <2>3, <2>4, CreateSafe, TypeStore DEF IInv
  <2> QED
    BY <2>5, <2>6, <2>7 DEF IInv
<1> QED
  BY <1>1, <1>2

LEMMA CopyStep ==
  ASSUME IInv, NEW t \in Transfers, Copy(t)
  PROVE  IInv'
<1>1. /\ pc[t] = "copy" /\ pc[t] # "idle"
      /\ UNCHANGED <<dest, part, ui, flag, event, cancel>>
  BY DEF Copy
<1>2. CASE (Fails(t, "canceled") \/ Fails(t, "error")) /\ UNCHANGED data
  <2>1. Moved(t, "discard")
    BY <1>2, FailsMoves DEF IInv
  <2>2. TypeOK' /\ Unstarted' /\ Fresh'
    BY <1>1, <1>2, <2>1, StepTypes DEF IInv, TypeOK, Steps, Early
  <2>3. Safe'
    BY <1>1, <1>2, <2>1, QuietSafe DEF IInv, store, Finishing, Over
  <2> QED
    BY <2>2, <2>3 DEF IInv
<1>3. CASE /\ at[t] < Chunks /\ at' = [at EXCEPT ![t] = @ + 1]
           /\ data' = [data EXCEPT ![file[t]][at[t] + 1] = t]
           /\ UNCHANGED <<pc, file, result>>
  <2>1. file[t] = t /\ at[t] \in 0 .. Chunks /\ Chunks \in Nat
    BY <1>1, TransfersAssumption DEF IInv, Safe, Written, TypeOK
  <2>2. /\ data' \in [Transfers -> [1 .. Chunks -> Transfers \cup {None}]]
        /\ at' \in [Transfers -> 0 .. Chunks]
    BY <1>3, <2>1 DEF IInv, TypeOK
  <2>3. TypeOK'
    BY <1>1, <1>3, <2>2 DEF IInv, TypeOK, ui
  <2>4. Unstarted' /\ Fresh'
    BY <1>1, <1>3 DEF IInv, Unstarted, Fresh, Early, ui, TypeOK
  <2>5. Safe'
    BY <1>1, <1>3, WriteSafe, TypeStore DEF IInv
  <2> QED
    BY <2>3, <2>4, <2>5 DEF IInv
<1>4. CASE /\ at[t] = Chunks /\ UNCHANGED data
           /\ Goes(t, "copy", "rename") \/ Goes(t, "copy", "replace")
  <2>1. PICK to \in {"rename", "replace"} : Moved(t, to)
    BY <1>4, GoesMoves DEF IInv
  <2>2. to \in Steps /\ to \notin Early
    BY DEF Steps, Early
  <2>3. TypeOK' /\ Unstarted' /\ Fresh'
    BY <1>1, <1>4, <2>1, <2>2, StepTypes DEF IInv, TypeOK
  <2>4. Safe'
    BY <1>1, <1>4, <2>1, OnwardSafe DEF IInv, store, Finishing
  <2> QED
    BY <2>3, <2>4 DEF IInv
<1> QED
  BY <1>2, <1>3, <1>4 DEF Copy

LEMMA DiscardStep ==
  ASSUME PrivateParts, IInv, NEW t \in Transfers, Discard(t)
  PROVE  IInv'
<1>1. /\ pc[t] = "discard" /\ Ends(t, result[t])
      /\ UNCHANGED <<dest, data, ui, flag, cancel>>
      /\ \/ part' = [part EXCEPT ![PartName(t)] = None]
         \/ UNCHANGED part
  BY DEF Discard
<1>2. /\ Moved(t, "ended")
      /\ event' \in [Transfers -> {None, "ok", "error", "canceled"}]
  <2>1. result[t] \in {None, "ok", "error", "canceled"}
    BY DEF IInv, TypeOK
  <2> QED
    BY <1>1, <2>1, EndsEvent DEF IInv
<1>3. part' \in [PartNames -> Transfers \cup {None}]
  BY <1>1, PartNameType DEF IInv, TypeOK
<1>4. TypeOK' /\ Unstarted' /\ Fresh'
  BY <1>1, <1>2, <1>3, StepTypes DEF IInv, TypeOK, Steps, Early
<1>5. CASE UNCHANGED part
  <2>1. Safe'
    BY <1>1, <1>2, <1>5, QuietSafe DEF IInv, store, Finishing, Over
  <2> QED
    BY <1>4, <2>1 DEF IInv
<1>6. CASE part' = [part EXCEPT ![PartName(t)] = None]
  <2>1. Safe'
    BY <1>1, <1>2, <1>6, DropPartSafe, TypeStore DEF IInv
  <2> QED
    BY <1>4, <2>1 DEF IInv
<1> QED
  BY <1>1, <1>5, <1>6

\* A step of the end of a transfer: it renames, it fails and leaves the part
\* file, it goes on to unlink or gives up, or it empties the destination.
LEMMA FinalizeStep ==
  ASSUME PrivateParts, IInv, NEW t \in Transfers, Finalize(t)
  PROVE  IInv'
<1>1. CASE /\ pc[t] \in {"rename", "retry", "move"} /\ Ends(t, "ok")
           /\ Renames(t) /\ UNCHANGED <<data, ui, flag, cancel>>
  <2>1. /\ Moved(t, "ended")
        /\ event' \in [Transfers -> {None, "ok", "error", "canceled"}]
    BY <1>1, EndsEvent DEF IInv
  <2>2. part' \in [PartNames -> Transfers \cup {None}]
    BY <1>1, PartNameType DEF IInv, TypeOK, Renames
  <2>3. dest' \in [Dests -> Files \cup {None}]
    BY <1>1, PartNameType DEF IInv, TypeOK, Renames, Files
  <2>4. TypeOK' /\ Unstarted' /\ Fresh'
    BY <1>1, <2>1, <2>2, <2>3, StepTypes DEF IInv, TypeOK, Steps, Early
  <2>5. Safe'
    BY <1>1, <2>1, RenamesSafe, TypeStore DEF IInv
  <2> QED
    BY <2>4, <2>5 DEF IInv
<1>2. CASE /\ pc[t] \in {"retry", "move", "replace"} /\ Ends(t, "error")
           /\ UNCHANGED <<dest, part, data, ui, flag, cancel>>
  <2>1. /\ Moved(t, "ended")
        /\ event' \in [Transfers -> {None, "ok", "error", "canceled"}]
    BY <1>2, EndsEvent DEF IInv
  <2>2. TypeOK' /\ Unstarted' /\ Fresh'
    BY <1>2, <2>1, StepTypes DEF IInv, TypeOK, Steps, Early
  <2>3. Safe'
    BY <1>2, <2>1, QuietSafe DEF IInv, store, Finishing, Over
  <2> QED
    BY <2>2, <2>3 DEF IInv
<1>3. CASE /\ Goes(t, "rename", "unlink")
           /\ UNCHANGED <<dest, part, data, ui, flag, event, cancel>>
  <2>1. Moved(t, "unlink") /\ pc[t] = "rename"
    BY <1>3, GoesMoves DEF IInv
  <2>2. TypeOK' /\ Unstarted' /\ Fresh'
    BY <1>3, <2>1, StepTypes DEF IInv, TypeOK, Steps, Early
  <2>3. at[t] = Chunks
    BY <2>1 DEF IInv, Safe, Complete, Finishing
  <2>4. Safe'
    BY <1>3, <2>1, <2>3, OnwardSafe DEF IInv, store, Finishing
  <2> QED
    BY <2>2, <2>4 DEF IInv
<1>4. CASE /\ pc[t] = "unlink" /\ Fails(t, "error")
           /\ UNCHANGED <<dest, part, data, ui, flag, event, cancel>>
  <2>1. Moved(t, "discard")
    BY <1>4, FailsMoves DEF IInv
  <2>2. TypeOK' /\ Unstarted' /\ Fresh'
    BY <1>4, <2>1, StepTypes DEF IInv, TypeOK, Steps, Early
  <2>3. Safe'
    BY <1>4, <2>1, QuietSafe DEF IInv, store, Finishing, Over
  <2> QED
    BY <2>2, <2>3 DEF IInv
<1>5. CASE /\ Goes(t, "unlink", "retry") \/ Goes(t, "replace", "move")
           /\ dest' = [dest EXCEPT ![Dest[t]] = None]
           /\ UNCHANGED <<part, data, ui, flag, event, cancel>>
  <2>1. PICK to \in {"retry", "move"} :
          Moved(t, to) /\ pc[t] \in {"unlink", "replace"}
    BY <1>5, GoesMoves DEF IInv
  <2>2. to \in Steps /\ to \notin Early /\ pc[t] # "idle"
    BY <2>1 DEF Steps, Early
  <2>3. dest' \in [Dests -> Files \cup {None}]
    BY <1>5, PartNameType DEF IInv, TypeOK
  <2>4. TypeOK' /\ Unstarted' /\ Fresh'
    BY <1>5, <2>1, <2>2, <2>3, StepTypes DEF IInv, TypeOK
  <2>5. Safe'
    BY <1>5, <2>1, EvictSafe, TypeStore DEF IInv
  <2> QED
    BY <2>4, <2>5 DEF IInv
<1>6. CASE Rename(t)
  BY <1>6, <1>1, <1>3 DEF Rename
<1>7. CASE Unlink(t)
  BY <1>7, <1>4, <1>5 DEF Unlink
<1>8. CASE Retry(t)
  BY <1>8, <1>1, <1>2 DEF Retry
<1>9. CASE Replace(t)
  BY <1>9, <1>2, <1>5 DEF Replace
<1>10. CASE Move(t)
  BY <1>10, <1>1, <1>2 DEF Move
<1> QED
  BY <1>6, <1>7, <1>8, <1>9, <1>10 DEF Finalize

-----------------------------------------------------------------------------
(* The theorems.                                                           *)

LEMMA InterfaceStep ==
  ASSUME IInv, NEW t \in Transfers, User(t) \/ Interface(t)
  PROVE  IInv'
<1>1. TypeOK' /\ Unstarted'
  BY InterfaceType DEF IInv
<1>2. CASE Start(t)
  <2>1. /\ pc' = [pc EXCEPT ![t] = "sent"]
        /\ UNCHANGED <<store, file, at, result>>
        /\ pc[t] = "idle"
    BY <1>2 DEF Start, IInv, Unstarted
  <2>2. Moved(t, "sent")
    BY <2>1, StepType DEF IInv, TypeOK, Moved
  <2>3. Safe'
    BY <2>1, <2>2, QuietSafe DEF IInv, Finishing, Over
  <2>4. Fresh'
    BY <2>1, <2>2 DEF IInv, Fresh, Early, Moved
  <2> QED
    BY <1>1, <2>3, <2>4 DEF IInv
<1>3. CASE UNCHANGED <<store, worker>>
  <2>1. UNCHANGED <<dest, part, data, pc, file, at>>
    BY <1>3 DEF store, worker
  <2>2. Safe' /\ Fresh'
    BY <2>1 DEF IInv, Safe, Owned, Written, Complete, Landed, Rescued, Rescue,
       Full, Fresh, PartName
  <2> QED
    BY <1>1, <2>2 DEF IInv
<1>4. Start(t) \/ UNCHANGED <<store, worker>>
  BY DEF User, Interface, Enqueue, Approve, Skip, ClickCancel, Answered,
     Settle, Progress, CancelAnswered
<1> QED
  BY <1>2, <1>3, <1>4

LEMMA CancelStep ==
  ASSUME IInv,
         \/ \E t \in Transfers : CancelRuns(t)
         \/ ClearFinished
         \/ UNCHANGED vars
  PROVE  IInv'
<1>1. UNCHANGED <<dest, part, data, pc, file, at, result, promise, keep>>
  BY DEF CancelRuns, ClearFinished, vars, store, worker, ui
<1>2. Safe' /\ Fresh' /\ Unstarted'
  BY <1>1 DEF IInv, Safe, Owned, Written, Complete, Landed, Rescued, Rescue,
     Full, Fresh, Unstarted, PartName
<1>3. /\ flag' \in [Transfers -> {"none", "run", "cancel"}]
      /\ cancel' \in [Transfers -> {"no", "sent", "ran"}]
      /\ event' = event
      /\ status' \in [Transfers -> {"new", "pending", "running", "done",
                                    "failed", "canceled", "cleared"}]
  <2>1. CASE \E t \in Transfers : CancelRuns(t)
    BY <2>1 DEF CancelRuns, IInv, TypeOK, ui
  <2>2. CASE ClearFinished
    BY <2>2 DEF ClearFinished, IInv, TypeOK
  <2>3. CASE UNCHANGED vars
    BY <2>3 DEF vars, ui, IInv, TypeOK
  <2> QED
    BY <2>1, <2>2, <2>3
<1>4. TypeOK'
  BY <1>1, <1>3 DEF IInv, TypeOK
<1> QED
  BY <1>2, <1>4 DEF IInv

LEMMA InitIInv == Init => IInv
<1> SUFFICES ASSUME Init PROVE IInv
  OBVIOUS
<1>1. \A t \in Transfers : pc[t] = "idle" /\ at[t] = 0
                           /\ part[PartName(t)] = None
  BY PartNameType DEF Init
<1>2. TypeOK
  BY TransfersAssumption DEF Init, TypeOK, Steps, Files
<1>3. \A d \in Dests : dest[d] \notin Transfers
                       /\ (d \in Existing => dest[d] # None)
  BY TransfersAssumption DEF Init
<1>4. Owned /\ Written /\ Complete /\ Fresh /\ Unstarted
  BY <1>1 DEF Owned, Written, Complete, Fresh, Unstarted, Finishing
<1>5. Landed /\ Rescued
  BY <1>3, TransfersAssumption DEF Landed, Rescued
<1> QED
  BY <1>2, <1>4, <1>5 DEF IInv, Safe

LEMMA NextIInv ==
  ASSUME PrivateParts, IInv, [Next]_vars
  PROVE  IInv'
<1>1. ASSUME NEW t \in Transfers, Thread(t) PROVE IInv'
  BY <1>1, QuietStep, ClearStep, CreateStep, CopyStep, DiscardStep,
     FinalizeStep DEF Thread
<1> QED
  BY <1>1, InterfaceStep, CancelStep DEF Next

LEMMA IInvWhole ==
  ASSUME IInv
  PROVE  WholeFiles /\ SurvivingCopy
<1>1. WholeFiles
  BY DEF IInv, TypeOK, Files, Safe, Landed, Full, WholeFiles, Whole
<1>2. ASSUME NEW d \in Existing, dest[d] = None
      PROVE  \E t \in Transfers : /\ Dest[t] = d
                                  /\ part[PartName(t)] # None
                                  /\ Whole(part[PartName(t)])
  <2>1. PICK t \in Transfers : Dest[t] = d /\ Rescue(t)
    BY <1>2 DEF IInv, Safe, Rescued
  <2>2. part[PartName(t)] = t /\ t # None /\ Whole(t)
    BY <2>1, TransfersAssumption DEF Rescue, Full, Whole
  <2> QED
    BY <2>1, <2>2
<1>3. SurvivingCopy
  BY <1>1, <1>2, TransfersAssumption DEF SurvivingCopy, WholeFiles
<1> QED
  BY <1>1, <1>3

\* The state of the transfers has its type in every reachable state.
THEOREM TypeCorrect == PrivateParts => (Spec => []TypeOK)
<1> SUFFICES ASSUME PrivateParts PROVE Spec => []TypeOK
  OBVIOUS
<1>1. IInv /\ [Next]_vars => IInv'
  BY NextIInv
<1>2. IInv => TypeOK
  BY DEF IInv
<1> QED
  BY InitIInv, <1>1, <1>2, PTL DEF Spec

\* Without a shared part file nothing partial is ever at a destination.
THEOREM NothingPartial == PrivateParts => (Spec => []WholeFiles)
<1> SUFFICES ASSUME PrivateParts PROVE Spec => []WholeFiles
  OBVIOUS
<1>1. IInv /\ [Next]_vars => IInv'
  BY NextIInv
<1> QED
  BY InitIInv, <1>1, IInvWhole, PTL DEF Spec

\* Without a shared part file what was at a destination is not lost before
\* there is another whole copy, whatever fails and whatever is canceled.
THEOREM CopySurvives == PrivateParts => (Spec => []SurvivingCopy)
<1> SUFFICES ASSUME PrivateParts PROVE Spec => []SurvivingCopy
  OBVIOUS
<1>1. IInv /\ [Next]_vars => IInv'
  BY NextIInv
<1> QED
  BY InitIInv, <1>1, IInvWhole, PTL DEF Spec

\* Uploads never share one: their part files are named with their own ids.
THEOREM UploadsArePrivate ==
  ASSUME Uploads = Transfers
  PROVE  Spec => [](WholeFiles /\ SurvivingCopy)
<1>1. PrivateParts
  BY DEF PrivateParts, PartName
<1> QED
  BY <1>1, NothingPartial, CopySurvives, PTL
-----------------------------------------------------------------------------
(* What is shown.  The file plays no part here, so it holds of any         *)
(* transfers.  What a transfer came to is known when its thread is past    *)
(* "discard"; its event says the same, and a task shown as done is one     *)
(* that worked.                                                            *)

Working == Steps \ {"idle", "discard", "ended", "returned"}
Ways == {"ok", "error", "canceled"}
Shown == {"new", "pending", "running", "done", "failed", "canceled", "cleared"}

\* The promise p, the step w, the result r, the event e and the status s of a
\* transfer agree.
Agree(p, w, r, e, s) ==
  /\ p \in {"new", "asking", "approved"} => w = "idle"
  /\ w = "idle" => p \in {"new", "asking", "approved", "settled"}
  /\ w \in Working \cup {"idle"} => r = None
  /\ w = "discard" => r \in {"error", "canceled"}
  /\ w \in Over => r \in Ways
  /\ e # None => e = r /\ w \in Over
  /\ p = "rejected" => w = "returned" /\ r # "ok"
  /\ p = "settled" => w \in {"idle", "returned"}
  /\ s = "done" => r = "ok"
  /\ r = "canceled" /\ w \in Over /\ e = None => s \in {"canceled", "cleared"}
  /\ p = "settled" /\ r = "error" => s \in {"failed", "canceled", "cleared"}

AgreesAt(t) == Agree(promise[t], pc[t], result[t], event[t], status[t])

ShownType ==
  /\ pc \in [Transfers -> Steps]
  /\ result \in [Transfers -> Ways \cup {None}]
  /\ event \in [Transfers -> Ways \cup {None}]
  /\ promise \in [Transfers ->
       {"new", "asking", "approved", "invoked", "rejected", "settled"}]
  /\ status \in [Transfers -> Shown]

HInv == ShownType /\ \A t \in Transfers : AgreesAt(t)

LEMMA NoneIsNoWay == None \notin Ways
  BY TransfersAssumption DEF Ways

LEMMA HInvHonest == HInv => HonestStatus
<1> SUFFICES ASSUME HInv, NEW t \in Transfers, AtRest(t)
             PROVE  /\ status[t] = "done" => result[t] = "ok"
                    /\ result[t] = "canceled" => status[t] \in {"canceled", "cleared"}
                    /\ result[t] = "error" => status[t] \in {"failed", "canceled", "cleared"}
  BY DEF HonestStatus
<1>1. AgreesAt(t) /\ promise[t] = "settled" /\ event[t] = None
  BY DEF HInv, AtRest
<1>2. pc[t] = "idle" => result[t] = None
  BY <1>1 DEF AgreesAt, Agree
<1>3. result[t] = "canceled" => pc[t] \in Over
  BY <1>1, <1>2, NoneIsNoWay DEF AgreesAt, Agree, Over, Ways
<1> QED
  BY <1>1, <1>3 DEF AgreesAt, Agree

LEMMA InitHInv == Init => HInv
<1> SUFFICES ASSUME Init PROVE HInv
  OBVIOUS
<1>1. ShownType
  BY DEF Init, ShownType, Steps, Shown
<1>2. ASSUME NEW t \in Transfers PROVE AgreesAt(t)
  BY NoneIsNoWay DEF Init, AgreesAt, Agree, Over, Ways
<1> QED
  BY <1>1, <1>2 DEF HInv

\* A step of one transfer leaves what is known of the others.
LEMMA OneAtATime ==
  ASSUME HInv, NEW t \in Transfers, ShownType', AgreesAt(t)',
         \A u \in Transfers \ {t} :
           /\ promise'[u] = promise[u] /\ pc'[u] = pc[u] /\ result'[u] = result[u]
           /\ event'[u] = event[u] /\ status'[u] = status[u]
  PROVE  HInv'
<1>1. ASSUME NEW u \in Transfers PROVE AgreesAt(u)'
  <2>1. CASE u = t
    BY <2>1
  <2>2. CASE u # t
    BY <2>2 DEF HInv, AgreesAt
  <2> QED
    BY <2>1, <2>2
<1> QED
  BY <1>1 DEF HInv

\* What a thread may do to its step, its result and its event.
Report(t) ==
  \/ /\ pc[t] \in Working /\ UNCHANGED <<result, event>>
     /\ \E to \in Working : pc' = [pc EXCEPT ![t] = to]
  \/ /\ pc[t] \in Working /\ pc' = [pc EXCEPT ![t] = "discard"] /\ UNCHANGED event
     /\ \E how \in {"error", "canceled"} : result' = [result EXCEPT ![t] = how]
  \/ /\ pc[t] \in Working \cup {"discard"} /\ pc' = [pc EXCEPT ![t] = "ended"]
     /\ \E how \in Ways :
          /\ result' = [result EXCEPT ![t] = how]
          /\ \/ event' = [event EXCEPT ![t] = how]
             \/ how = "error" /\ UNCHANGED event
  \/ /\ pc[t] = "ended" /\ pc' = [pc EXCEPT ![t] = "returned"]
     /\ UNCHANGED <<result, event>>
  \/ pc[t] \in Working /\ UNCHANGED <<pc, result, event>>

LEMMA ThreadReports ==
  ASSUME HInv, NEW t \in Transfers, Thread(t)
  PROVE  Report(t) /\ UNCHANGED <<promise, status>>
<1> USE DEF Report, Working, Steps, Ways, ui
<1>1. CASE Register(t) \/ Connect(t) \/ Return(t)
  BY <1>1 DEF Register, Connect, Return, Goes, EndsSilently
<1>2. CASE Plan(t) \/ Begin(t) \/ Clear(t) \/ Create(t)
  BY <1>2 DEF Plan, Begin, Clear, Create, Stopped, Goes, Ends, EndsSilently
<1>3. CASE Copy(t)
  BY <1>3 DEF Copy, Goes, Fails
<1>4. CASE Discard(t)
  <2>1. result[t] \in {"error", "canceled"}
    BY <1>4 DEF Discard, HInv, AgreesAt, Agree
  <2> QED
    BY <1>4, <2>1 DEF Discard, Ends, EndsSilently
<1>5. CASE Finalize(t)
  BY <1>5 DEF Finalize, Rename, Unlink, Retry, Replace, Move, Goes, Fails, Ends, EndsSilently
<1> QED
  BY <1>1, <1>2, <1>3, <1>4, <1>5 DEF Thread

LEMMA ThreadHonest ==
  ASSUME HInv, NEW t \in Transfers, Thread(t)
  PROVE  HInv'
<1>1. Report(t) /\ UNCHANGED <<promise, status>> /\ AgreesAt(t) /\ ShownType
  BY ThreadReports DEF HInv
<1> USE NoneIsNoWay DEF ShownType, Working, Steps, Ways
<1>2. CASE /\ pc[t] \in Working /\ UNCHANGED <<result, event>>
           /\ \E to \in Working : pc' = [pc EXCEPT ![t] = to]
  <2>1. PICK to \in Working : pc' = [pc EXCEPT ![t] = to]
    BY <1>2
  <2>2. ShownType' /\ pc'[t] = to /\ result[t] = None /\ event[t] = None
    BY <1>1, <1>2, <2>1 DEF AgreesAt, Agree, Over
  <2>3. promise[t] \notin {"new", "asking", "approved", "rejected", "settled"}
    BY <1>1, <1>2 DEF AgreesAt, Agree
  <2>4. AgreesAt(t)'
    BY <1>1, <1>2, <2>2, <2>3 DEF AgreesAt, Agree, Over
  <2> QED
    BY <1>1, <1>2, <2>2, <2>4, OneAtATime
<1>3. CASE /\ pc[t] \in Working /\ pc' = [pc EXCEPT ![t] = "discard"] /\ UNCHANGED event
           /\ \E how \in {"error", "canceled"} : result' = [result EXCEPT ![t] = how]
  <2>1. ShownType' /\ AgreesAt(t)'
    BY <1>1, <1>3 DEF AgreesAt, Agree, Over
  <2> QED
    BY <1>1, <1>3, <2>1, OneAtATime
<1>4. ASSUME pc[t] \in Working \cup {"discard"}, pc' = [pc EXCEPT ![t] = "ended"],
             NEW how \in Ways, result' = [result EXCEPT ![t] = how],
             \/ event' = [event EXCEPT ![t] = how]
             \/ how = "error" /\ UNCHANGED event
      PROVE  HInv'
  <2>1. ShownType'
    BY <1>1, <1>4
  <2>2. promise[t] \in {"invoked"} /\ status[t] # "done" /\ event[t] = None
    BY <1>1, <1>4 DEF AgreesAt, Agree, Over
  <2>3. /\ pc'[t] = "ended" /\ result'[t] = how
        /\ event'[t] = how \/ (how = "error" /\ event'[t] = None)
        /\ promise'[t] = "invoked" /\ status'[t] # "done"
    BY <1>1, <1>4, <2>2
  <2>4. \A s : s # "done" =>
          /\ Agree("invoked", "ended", how, how, s)
          /\ how = "error" => Agree("invoked", "ended", how, None, s)
    BY DEF Agree, Over
  <2>5. AgreesAt(t)'
    BY <2>3, <2>4 DEF AgreesAt
  <2> QED
    BY <1>1, <1>4, <2>1, <2>5, OneAtATime
<1>5. CASE /\ pc[t] = "ended" /\ pc' = [pc EXCEPT ![t] = "returned"]
           /\ UNCHANGED <<result, event>>
  <2>1. ShownType' /\ AgreesAt(t)'
    BY <1>1, <1>5 DEF AgreesAt, Agree, Over
  <2> QED
    BY <1>1, <1>5, <2>1, OneAtATime
<1>6. CASE UNCHANGED <<pc, result, event>>
  BY <1>1, <1>6 DEF HInv, AgreesAt
<1> QED
  BY <1>1, <1>2, <1>3, <1>4, <1>5, <1>6 DEF Report

\* A status is shown, or the task was cleared.
LEMMA ShowsOne ==
  ASSUME ShownType, NEW t \in Transfers, NEW s \in Shown, Shows(t, s)
  PROVE  /\ status' \in [Transfers -> Shown]
         /\ \A u \in Transfers \ {t} : status'[u] = status[u]
         /\ status'[t] = IF status[t] = "cleared" THEN "cleared" ELSE s
  BY DEF ShownType, Shows, Shown

LEMMA InterfaceHonest ==
  ASSUME HInv, NEW t \in Transfers, User(t) \/ Interface(t) \/ CancelRuns(t)
  PROVE  HInv'
<1>1. ShownType /\ AgreesAt(t)
  BY DEF HInv
<1> USE DEF worker, store, ui
<1>2. CASE Enqueue(t)
  <2>1. ShownType' /\ AgreesAt(t)'
    BY <1>1, <1>2 DEF Enqueue, ShownType, Shown, AgreesAt, Agree, Over
  <2> QED
    BY <1>1, <1>2, <2>1, OneAtATime DEF Enqueue, ShownType
<1>3. CASE Approve(t)
  <2>1. ShownType' /\ AgreesAt(t)'
    BY <1>1, <1>3 DEF Approve, ShownType, AgreesAt, Agree
  <2> QED
    BY <1>1, <1>3, <2>1, OneAtATime DEF Approve, ShownType
<1>4. CASE Skip(t)
  <2>1. PICK s \in {"failed", "canceled"} : Shows(t, s)
    BY <1>4 DEF Skip
  <2>2. /\ status' \in [Transfers -> Shown]
        /\ \A u \in Transfers \ {t} : status'[u] = status[u]
        /\ status'[t] \in {"failed", "canceled", "cleared"}
    BY <1>1, <2>1, ShowsOne DEF Shown
  <2>3. promise[t] = "asking" /\ promise' = [promise EXCEPT ![t] = "settled"]
        /\ UNCHANGED <<pc, result, event>>
    BY <1>4 DEF Skip
  <2>4. ShownType' /\ AgreesAt(t)'
    BY <1>1, <2>2, <2>3, NoneIsNoWay DEF ShownType, AgreesAt, Agree, Over, Ways
  <2> QED
    BY <1>1, <2>2, <2>3, <2>4, OneAtATime DEF ShownType
<1>5. CASE Start(t)
  <2>1. /\ status' \in [Transfers -> Shown]
        /\ \A u \in Transfers \ {t} : status'[u] = status[u]
        /\ status'[t] \in {"running", "cleared"}
    BY <1>1, <1>5, ShowsOne DEF Start, Shown
  <2>2. /\ promise[t] = "approved" /\ promise' = [promise EXCEPT ![t] = "invoked"]
        /\ pc' = [pc EXCEPT ![t] = "sent"] /\ UNCHANGED <<result, event>>
    BY <1>5 DEF Start
  <2>3. ShownType' /\ AgreesAt(t)'
    BY <1>1, <2>1, <2>2, NoneIsNoWay
    DEF ShownType, AgreesAt, Agree, Over, Ways, Working, Steps
  <2> QED
    BY <1>1, <2>1, <2>2, <2>3, OneAtATime DEF ShownType
<1>6. CASE Answered(t)
  <2>1. promise[t] = "invoked" /\ pc[t] = "returned" /\ UNCHANGED <<pc, result, event>>
    BY <1>6 DEF Answered
  <2>2. CASE result[t] = "ok"
    <3>1. /\ status' \in [Transfers -> Shown]
          /\ \A u \in Transfers \ {t} : status'[u] = status[u]
          /\ status'[t] \in {"done", "cleared"}
      BY <1>1, <1>6, <2>2, ShowsOne DEF Answered, Shown
    <3>2. promise' = [promise EXCEPT ![t] = "settled"]
      BY <1>6, <2>2 DEF Answered
    <3>3. ShownType' /\ AgreesAt(t)'
      BY <1>1, <2>1, <2>2, <3>1, <3>2 DEF ShownType, AgreesAt, Agree, Working
    <3> QED
      BY <1>1, <2>1, <3>1, <3>2, <3>3, OneAtATime DEF ShownType
  <2>3. CASE result[t] # "ok"
    <3>1. promise' = [promise EXCEPT ![t] = "rejected"] /\ status' = status
      BY <1>6, <2>3 DEF Answered
    <3>2. ShownType' /\ AgreesAt(t)'
      BY <1>1, <2>1, <2>3, <3>1 DEF ShownType, AgreesAt, Agree
    <3> QED
      BY <1>1, <2>1, <3>1, <3>2, OneAtATime DEF ShownType
  <2> QED
    BY <2>2, <2>3
<1>7. CASE Settle(t)
  <2>1. /\ promise[t] = "rejected" /\ promise' = [promise EXCEPT ![t] = "settled"]
        /\ UNCHANGED <<pc, result, event>>
    BY <1>7 DEF Settle
  <2>2. /\ status' \in [Transfers -> Shown]
        /\ \A u \in Transfers \ {t} : status'[u] = status[u]
        /\ status'[t] \in {"failed", "canceled", "cleared"}
        /\ status[t] \in {"canceled", "cleared"} => status'[t] = status[t]
    <3>1. CASE status[t] = "canceled"
      BY <1>1, <1>7, <3>1 DEF Settle, ShownType
    <3>2. CASE status[t] # "canceled"
      BY <1>1, <1>7, <3>2, ShowsOne DEF Settle, Shown
    <3> QED
      BY <3>1, <3>2
  <2>3. ShownType' /\ AgreesAt(t)'
    BY <1>1, <2>1, <2>2 DEF ShownType, AgreesAt, Agree
  <2> QED
    BY <1>1, <2>1, <2>2, <2>3, OneAtATime DEF ShownType
<1>8. CASE Progress(t)
  <2> DEFINE s == CASE event[t] = "canceled" -> "canceled"
                    [] event[t] = "error" -> "failed"
                    [] OTHER -> "done"
  <2>1. /\ event[t] # None /\ event' = [event EXCEPT ![t] = None] /\ Shows(t, s)
        /\ UNCHANGED <<pc, result, promise>>
    BY <1>8 DEF Progress
  <2>2. /\ event[t] = result[t] /\ pc[t] \in Over /\ result[t] \in Ways
    BY <1>1, <2>1 DEF AgreesAt, Agree
  <2>3. /\ result[t] = "canceled" => s = "canceled"
        /\ result[t] = "error" => s = "failed"
        /\ result[t] = "ok" => s = "done"
    BY <2>2
  <2>4. s \in Shown
    BY <2>2, <2>3 DEF Ways, Shown
  <2> HIDE DEF s
  <2>5. /\ status' \in [Transfers -> Shown]
        /\ \A u \in Transfers \ {t} : status'[u] = status[u]
        /\ status'[t] \in {s, "cleared"}
    BY <1>1, <2>1, <2>4, ShowsOne
  <2>6. ShownType' /\ event'[t] = None
    BY <1>1, <2>1, <2>5 DEF ShownType
  <2>7. AgreesAt(t)'
    BY <1>1, <2>1, <2>2, <2>3, <2>5, <2>6 DEF AgreesAt, Agree, Ways, Over
  <2> QED
    BY <1>1, <2>1, <2>5, <2>6, <2>7, OneAtATime DEF ShownType
<1>9. CASE CancelAnswered(t)
  <2>1. /\ status' \in [Transfers -> Shown]
        /\ \A u \in Transfers \ {t} : status'[u] = status[u]
        /\ status'[t] \in {"canceled", "cleared"}
    BY <1>1, <1>9, ShowsOne DEF CancelAnswered, Shown
  <2>2. UNCHANGED <<pc, result, event, promise>>
    BY <1>9 DEF CancelAnswered
  <2>3. ShownType' /\ AgreesAt(t)'
    BY <1>1, <2>1, <2>2 DEF ShownType, AgreesAt, Agree
  <2> QED
    BY <1>1, <2>1, <2>2, <2>3, OneAtATime
<1>10. CASE ClickCancel(t) \/ CancelRuns(t)
  BY <1>10 DEF ClickCancel, CancelRuns, HInv, ShownType, AgreesAt
<1> QED
  BY <1>2, <1>3, <1>4, <1>5, <1>6, <1>7, <1>8, <1>9, <1>10 DEF User, Interface

LEMMA ClearHonest == HInv /\ ClearFinished => HInv'
<1> SUFFICES ASSUME HInv, ClearFinished PROVE HInv'
  OBVIOUS
<1>1. UNCHANGED <<pc, result, event, promise>>
  BY DEF ClearFinished, worker
<1>2. status' = [t \in Transfers |->
                   IF status[t] \in {"done", "failed", "canceled"}
                   THEN "cleared" ELSE status[t]]
  BY DEF ClearFinished
<1>3. ShownType'
  BY <1>1, <1>2 DEF HInv, ShownType, Shown
<1>4. ASSUME NEW t \in Transfers PROVE AgreesAt(t)'
  <2>1. status'[t] \in {status[t], "cleared"}
    BY <1>2
  <2> QED
    BY <1>1, <2>1 DEF HInv, AgreesAt, Agree
<1> QED
  BY <1>3, <1>4 DEF HInv

\* What is shown of a transfer when all was delivered is what happened, for any
\* transfers, in whatever order events, answers and cancels arrive.
THEOREM StatusIsHonest == Spec => []HonestStatus
<1>1. HInv /\ UNCHANGED vars => HInv'
  BY DEF HInv, ShownType, AgreesAt, vars, worker, ui, store
<1>2. HInv /\ [Next]_vars => HInv'
  BY <1>1, ThreadHonest, InterfaceHonest, ClearHonest DEF Next
<1> QED
  BY InitHInv, <1>2, HInvHonest, PTL DEF Spec
=============================================================================
