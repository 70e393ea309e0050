---------------------------- MODULE UsageHistory ----------------------------
(***************************************************************************)
(* The usage history of one session (ssh/telemetry_history.rs) and a chart *)
(* that keeps itself current by asking for what is new                     *)
(* (hooks/useTelemetryHistory.ts).  A bucket counts the readings averaged  *)
(* in it.  There is a series for the system and one for a GPU that may     *)
(* stop reporting.                                                         *)
(***************************************************************************)
EXTENDS Naturals, Functions, SequencesExt

CONSTANTS
  MaxTime,     \* bound on the wall clock
  Bucket,      \* HISTORY_BUCKET_SECS
  Window,      \* HISTORY_WINDOW_SECS
  MaxPoints,   \* HISTORY_MAX_POINTS
  MaxCount,    \* readings told apart in a bucket: a bound
  MaxPolls,    \* polls in flight: a bound
  SetBack      \* whether the wall clock may be set back

HistoryAssumption ==
  /\ {MaxTime, Bucket, Window, MaxPoints, MaxCount, MaxPolls} \subseteq Nat \ {0}
  /\ Bucket <= Window /\ SetBack \in BOOLEAN

VARIABLES
  now,
  server,   \* the history of the session, if there is one
  polls,    \* requests and, once they have run, their answers, in order
  chart     \* what the hook holds, if anything

vars == <<now, server, polls, chart>>

Point == [at : 0 .. MaxTime, n : 1 .. MaxCount]
Empty == [there |-> FALSE, system |-> <<>>, gpu |-> <<>>, gpuThere |-> FALSE]
IsHistory(h) ==
  /\ {h.there, h.gpuThere} \subseteq BOOLEAN
  /\ h.system \in Seq(Point) /\ h.gpu \in Seq(Point)
  /\ ~h.there => h = Empty

TypeOK ==
  /\ now \in 0 .. MaxTime
  /\ IsHistory(server) /\ IsHistory(chart)
  /\ Len(server.system) <= MaxPoints /\ Len(server.gpu) <= MaxPoints
  /\ Len(polls) <= MaxPolls
  /\ \A i \in DOMAIN polls : /\ polls[i].ran \in BOOLEAN
                             /\ polls[i].since \in 0 .. MaxTime
                             /\ IsHistory(polls[i].delta)

Init == now = 0 /\ server = Empty /\ polls = <<>> /\ chart = Empty

-----------------------------------------------------------------------------
(* The history.                                                            *)

\* The points that are wanted, in their order (Iterator::filter, Array.filter).
Kept(points, wanted) ==
  LET kept[i \in 0 .. Len(points)] ==
        IF i = 0 THEN <<>>
        ELSE IF points[i] \in wanted THEN Append(kept[i - 1], points[i]) ELSE kept[i - 1]
  IN kept[Len(points)]

BucketStart(t) == t - (t % Bucket)

\* A bucket that starts afresh with each reading.
Added_Replaces(points) ==
  LET at == BucketStart(now)
  IN Append(Kept(points, {p \in Point : p.at # at}), [at |-> at, n |-> 1])

\* current_bucket and what is added to it: only the newest bucket is looked at.
Added(points) ==
  LET at == BucketStart(now)
  IN IF points # <<>> /\ Last(points).at = at
     THEN [points EXCEPT ![Len(points)].n = IF @ < MaxCount THEN @ + 1 ELSE @]
     ELSE Append(points, [at |-> at, n |-> 1])

\* How many of the oldest buckets are out of the window.
Old(points) ==
  CHOOSE k \in 0 .. Len(points) :
    /\ \A i \in 1 .. k : points[i].at + Window < now
    /\ k < Len(points) => points[k + 1].at + Window >= now

\* A trim that stops at the bound on points.
Trim_Window(points) == SubSeq(points, Old(points) + 1, Len(points))

\* trim: from the front, first by the window, then by the bound.
Trim(points) ==
  LET kept == SubSeq(points, Old(points) + 1, Len(points))
      extra == IF Len(kept) > MaxPoints THEN Len(kept) - MaxPoints ELSE 0
  IN SubSeq(kept, extra + 1, Len(kept))

\* record; the GPU may be missing from a reading, and ages out.
Record(gpu) ==
  /\ server' = [there |-> TRUE, system |-> Trim(Added(server.system)),
                gpu |-> Trim(IF gpu THEN Added(server.gpu) ELSE server.gpu),
                gpuThere |-> Trim(IF gpu THEN Added(server.gpu) ELSE server.gpu) # <<>>]
  /\ UNCHANGED <<now, polls, chart>>

\* remove: the session was torn down.
Forget == server' = Empty /\ UNCHANGED <<now, polls, chart>>

From(since) == {p \in Point : p.at >= since}

\* snapshot: without the newest bucket the caller already has.
Snapshot_After(h, since) ==
  LET new == {p \in Point : since = 0 \/ p.at > since}
  IN [there |-> h.there, system |-> Kept(h.system, new), gpu |-> Kept(h.gpu, new),
      gpuThere |-> h.gpuThere]

\* snapshot: the newest bucket the caller has is sent again.
Snapshot(h, since) ==
  [there |-> h.there, system |-> Kept(h.system, From(since)),
   gpu |-> Kept(h.gpu, From(since)), gpuThere |-> h.gpuThere]

-----------------------------------------------------------------------------
(* The hook.                                                               *)

\* lastCapturedAt: of the series that ends first; none is 0.
LastCapturedAt(h) ==
  LET last == {Last(points).at : points \in {h.system, h.gpu} \ {<<>>}}
  IN IF last = {} THEN 0 ELSE CHOOSE t \in last : \A u \in last : t <= u

\* A timer asks, whether the last answer came or not.
Poll ==
  /\ Len(polls) < MaxPolls
  /\ polls' = Append(polls, [since |-> LastCapturedAt(chart), ran |-> FALSE,
                             delta |-> Empty])
  /\ UNCHANGED <<now, server, chart>>

\* get_telemetry_history: one command runs after the other.
Run(i) ==
  /\ i \in DOMAIN polls /\ ~polls[i].ran
  /\ \A j \in 1 .. i - 1 : polls[j].ran
  /\ polls' = [polls EXCEPT ![i].ran = TRUE,
                             ![i].delta = Snapshot(server, polls[i].since)]
  /\ UNCHANGED <<now, server, chart>>

\* A merge that keeps all it has and appends what came.
MergePoints_Appends(previous, next, cutoff) ==
  Kept(previous, From(cutoff)) \o next

\* mergePoints: what came replaces what is as new or newer.
MergePoints(previous, next, cutoff) ==
  Kept(previous, {p \in From(cutoff) : next = <<>> \/ p.at < Head(next).at}) \o next

\* mergeHistory.
Merge(previous, delta) ==
  LET ends == {Last(points).at : points \in {delta.system, delta.gpu} \ {<<>>}}
      newest == IF ends = {} THEN 0 ELSE CHOOSE t \in ends : \A u \in ends : t >= u
      cutoff == IF newest >= Window THEN newest - Window ELSE 0
  IN [there |-> TRUE, system |-> MergePoints(previous.system, delta.system, cutoff),
      gpuThere |-> delta.gpuThere,
      gpu |-> IF delta.gpuThere THEN MergePoints(previous.gpu, delta.gpu, cutoff)
              ELSE <<>>]

Answer ==
  /\ polls # <<>> /\ Head(polls).ran
  /\ polls' = Tail(polls)
  /\ chart' = LET delta == Head(polls).delta
              IN IF ~delta.there THEN chart
                 ELSE IF ~chart.there THEN delta ELSE Merge(chart, delta)
  /\ UNCHANGED <<now, server>>

ClockMoves(t) ==
  /\ t > now \/ SetBack
  /\ now' = t /\ UNCHANGED <<server, polls, chart>>

Next ==
  \/ \E gpu \in BOOLEAN : Record(gpu)
  \/ Forget \/ Poll \/ Answer
  \/ \E i \in DOMAIN polls : Run(i)
  \/ \E t \in 0 .. MaxTime : ClockMoves(t)

Spec == Init /\ [][Next]_vars

-----------------------------------------------------------------------------
(* Properties.                                                             *)

Ordered(points) == \A i, j \in DOMAIN points : i < j => points[i].at < points[j].at

\* While the clock is not set back, both the history and a chart that was
\* pieced together from deltas draw each bucket once, in the order of time, and
\* the history is bounded.
SeriesInOrder ==
  /\ Len(server.system) <= MaxPoints /\ Len(server.gpu) <= MaxPoints
  /\ \A h \in {server, chart} : Ordered(h.system) /\ Ordered(h.gpu)

\* From the first point of a series on, what is drawn has its points and no others.
Shows(drawn, points) ==
  {p \in Range(drawn) : \E q \in Range(points) : q.at <= p.at} = Range(points)

\* A poller "only fetches what is new (the newest bucket is always resent, as it
\* may have gained readings)": although polls overlap, readings go on and the
\* session may come back in between, a chart that is given an answer nothing
\* has been recorded after shows every bucket of the history as it is.
ChartIsComplete ==
  [][/\ Answer /\ server.there
     /\ Head(polls).delta = Snapshot(server, Head(polls).since)
     => Shows(chart'.system, server.system) /\ Shows(chart'.gpu, server.gpu)]_vars
=============================================================================
