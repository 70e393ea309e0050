----------------------------- MODULE AgyHistory -----------------------------
(***************************************************************************)
(* The history of the quota of an AGY account (ssh/agent_monitor.rs): the  *)
(* monitors of all sessions on a host share one list under a lock, and the *)
(* wall clock they stamp it with may be set back.  A point is the time of  *)
(* an answer; what was answered is in module AgentQuotas.                  *)
(***************************************************************************)
EXTENDS Naturals, FiniteSets, SequencesExt

CONSTANTS
  MaxTime,     \* bound on the wall clock
  Bucket,      \* AGY_QUOTA_HISTORY_BUCKET_SECONDS
  Window,      \* AGY_QUOTA_HISTORY_WINDOW_SECONDS
  MaxPoints    \* AGY_QUOTA_HISTORY_MAX_POINTS

AgyHistoryAssumption ==
  /\ MaxTime \in Nat /\ Window \in Nat
  /\ Bucket \in Nat \ {0} /\ MaxPoints \in Nat \ {0}

VARIABLES
  now,      \* now_epoch_seconds
  history   \* the points of the account

vars == <<now, history>>

Times == 0 .. MaxTime

TypeOK == now \in Times /\ history \in Seq(Times) /\ Len(history) <= MaxPoints

Init == now = 0 /\ history = <<>>

-----------------------------------------------------------------------------
\* The points that are wanted, in their order (Vec::retain).
Kept(points, wanted) ==
  LET kept[i \in 0 .. Len(points)] ==
        IF i = 0 THEN <<>>
        ELSE IF points[i] \in wanted THEN Append(kept[i - 1], points[i]) ELSE kept[i - 1]
  IN kept[Len(points)]

Trimmed(points, time) ==
  LET kept == Kept(points, {t \in Times : t + Window >= time})
  IN IF Len(kept) <= MaxPoints THEN kept
     ELSE SubSeq(kept, Len(kept) - MaxPoints + 1, Len(kept))

SameBucket(points, time) ==
  {i \in DOMAIN points : points[i] \div Bucket = time \div Bucket}

\* A history that keeps the order in which its points came.
Upserted_AtEnd(points, time) ==
  Trimmed(IF SameBucket(points, time) # {}
          THEN [points EXCEPT ![CHOOSE i \in SameBucket(points, time) : TRUE] = time]
          ELSE Append(points, time), time)

\* The point of a bucket is replaced, a new one goes where its time belongs.
Upserted(points, time) ==
  LET after == CHOOSE k \in 0 .. Len(points) :
                 /\ \A i \in 1 .. k : points[i] <= time
                 /\ k < Len(points) => time < points[k + 1]
  IN Trimmed(IF SameBucket(points, time) # {}
             THEN [points EXCEPT ![CHOOSE i \in SameBucket(points, time) : TRUE] = time]
             ELSE InsertAt(points, after + 1, time), time)

\* record_agy_history: a monitor folds an answer in.
Record == history' = Upserted(history, now) /\ UNCHANGED now

\* sync_agy_history: a monitor ends its tick.
Sync == history' = Trimmed(history, now) /\ UNCHANGED now

ClockSet(t) == now' = t /\ UNCHANGED history

Next == Record \/ Sync \/ \E t \in Times : ClockSet(t)

Spec == Init /\ [][Next]_vars

-----------------------------------------------------------------------------
(* Properties.                                                             *)

\* Two monitors of a host write one history while the clock is set back and
\* forth: it stays in the order of time, one point for each bucket, and bounded.
HistoryInOrder ==
  /\ Len(history) <= MaxPoints
  /\ \A i, j \in DOMAIN history :
       i < j => history[i] \div Bucket < history[j] \div Bucket
=============================================================================
