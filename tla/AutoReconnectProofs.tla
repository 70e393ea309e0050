------------------------ MODULE AutoReconnectProofs ------------------------
(***************************************************************************)
(* Proofs about automatic reconnection, for any number of terminals, of    *)
(* commands in flight and of attempts: the state keeps its type, a session *)
(* never has two automatic connects at a time, and when nothing is under   *)
(* way the backend has no terminal but the one that is shown.              *)
(***************************************************************************)
EXTENDS AutoReconnect, FiniteSetTheorems, TLAPS

IsAttempt(call) == call # None /\ call.kind = "connect" /\ call.by = "auto"

Attempts == {c \in Calls : IsAttempt(calls[c])}

\* The mark in the refs of the hook is there as long as its one attempt is.
Marked == IF hook.inFlight THEN \E c \in Calls : Attempts = {c} ELSE Attempts = {}

IInv == TypeOK /\ Marked

LEMMA MarkedIsOne == Marked => OneAttempt
<1> SUFFICES ASSUME Marked PROVE OneAttempt
  OBVIOUS
<1>1. Flying("connect", "auto") = Attempts
  BY DEF Flying, Attempts, IsAttempt
<1>2. CASE hook.inFlight
  <2>1. PICK c \in Calls : Attempts = {c}
    BY <1>2 DEF Marked
  <2>2. Cardinality({c}) = 1
    BY FS_Singleton
  <2> QED
    BY <1>1, <1>2, <2>1, <2>2 DEF OneAttempt
<1>3. CASE ~hook.inFlight
  <2>1. Attempts = {}
    BY <1>3 DEF Marked
  <2>2. Cardinality({}) = 0
    BY FS_EmptySet
  <2> QED
    BY <1>1, <1>3, <2>1, <2>2 DEF OneAttempt
<1> QED
  BY <1>2, <1>3

LEMMA InitHolds == Init => IInv
<1> SUFFICES ASSUME Init PROVE IInv
  OBVIOUS
<1>1. TypeOK
  BY ReconnectAssumption DEF Init, TypeOK
<1>2. Attempts = {}
  BY DEF Init, Attempts, IsAttempt
<1> QED
  BY <1>1, <1>2 DEF Init, IInv, Marked

-----------------------------------------------------------------------------
(* What a step may do to the commands in flight.                           *)

\* A step that changes no attempt and not the mark.
LEMMA AttemptsStay ==
  ASSUME Marked, hook'.inFlight = hook.inFlight,
         \A d \in Calls : IsAttempt(calls'[d]) <=> IsAttempt(calls[d])
  PROVE  Marked'
<1>1. Attempts' = Attempts
  BY DEF Attempts
<1> QED
  BY <1>1 DEF Marked

\* The attempt ends: the command of c is over, or another one.
LEMMA AttemptEnds ==
  ASSUME Marked, NEW c \in Calls, IsAttempt(calls[c]), hook'.inFlight = FALSE,
         \A d \in Calls : IsAttempt(calls'[d]) <=> d # c /\ IsAttempt(calls[d])
  PROVE  Marked'
<1>1. Attempts = {c}
  BY DEF Marked, Attempts
<1>2. Attempts' = {}
  BY <1>1 DEF Attempts
<1> QED
  BY <1>2 DEF Marked

LEMMA AttemptBegins ==
  ASSUME Marked, NEW c \in Calls, ~hook.inFlight, hook'.inFlight = TRUE,
         \A d \in Calls : IsAttempt(calls'[d]) <=> d = c \/ IsAttempt(calls[d])
  PROVE  Marked'
<1>1. Attempts = {}
  BY DEF Marked
<1>2. Attempts' = {c}
  BY <1>1 DEF Attempts
<1> QED
  BY <1>2 DEF Marked

LEMMA SendTypes ==
  ASSUME TypeOK, NEW c \in Calls,
         NEW kind \in {"connect", "disconnect", "delete"},
         NEW by \in {"auto", "user", "pane"}, Sent(c, kind, by)
  PROVE  /\ calls' \in [Calls -> Call \cup {None}]
         /\ \A d \in Calls :
              IsAttempt(calls'[d]) <=>
                IF d = c THEN kind = "connect" /\ by = "auto" ELSE IsAttempt(calls[d])
<1>1. [kind |-> kind, by |-> by, at |-> "sent", pane |-> None] \in Call
  BY DEF Call
<1>2. [kind |-> kind, by |-> by, at |-> "sent", pane |-> None] # None
  BY <1>1, CallAssumption
<1> QED
  BY <1>1, <1>2 DEF Sent, TypeOK, IsAttempt

LEMMA AnswerTypes ==
  ASSUME TypeOK, NEW c \in Calls, NEW kind, NEW by, NEW at, Answered(c, kind, by, at)
  PROVE  answers' \in Seq(Calls) /\ calls[c] \in Call
  BY DEF TypeOK, Answered, Is

LEMMA DoneTypes ==
  ASSUME TypeOK, NEW c \in Calls, Done(c)
  PROVE  /\ calls' \in [Calls -> Call \cup {None}]
         /\ \A d \in Calls : IsAttempt(calls'[d]) <=> d # c /\ IsAttempt(calls[d])
  BY DEF Done, TypeOK, IsAttempt
\* The refs of the hook, and what is changed of them at a time.
Refs == [timer : BOOLEAN, inFlight : BOOLEAN, dirty : BOOLEAN, attempts : 0 .. MaxAttempts]

LEMMA RefsChange ==
  ASSUME NEW h \in Refs, NEW b \in BOOLEAN
  PROVE  /\ [h EXCEPT !.timer = b] \in Refs /\ [h EXCEPT !.timer = b].inFlight = h.inFlight
         /\ [h EXCEPT !.dirty = b] \in Refs /\ [h EXCEPT !.dirty = b].inFlight = h.inFlight
         /\ [h EXCEPT !.inFlight = b] \in Refs /\ [h EXCEPT !.inFlight = b].inFlight = b
         /\ [h EXCEPT !.attempts = 0] \in Refs
         /\ [h EXCEPT !.attempts = 0].inFlight = h.inFlight
<1>1. 0 \in 0 .. MaxAttempts
  BY ReconnectAssumption
<1> QED
  BY <1>1 DEF Refs

LEMMA RefsCount ==
  ASSUME NEW h \in Refs, h.attempts + 1 < MaxAttempts
  PROVE  [h EXCEPT !.attempts = @ + 1] \in Refs
  BY ReconnectAssumption DEF Refs

LEMMA FinishTypes ==
  ASSUME TypeOK,
         NEW h \in Refs, Finish(h)
  PROVE  /\ store' \in [pane : Panes \cup {None}, lost : BOOLEAN, known : BOOLEAN]
         /\ hook' \in Refs /\ hook'.inFlight = h.inFlight
<1>1. store' \in [pane : Panes \cup {None}, lost : BOOLEAN, known : BOOLEAN]
  BY DEF TypeOK, Finish
<1> DEFINE g == [h EXCEPT !.attempts = 0]
           d == g.dirty \/ store.lost
<1>2. g \in Refs /\ g.inFlight = h.inFlight
  BY RefsChange
<1>3. hook' = [g EXCEPT !.dirty = d] /\ d \in BOOLEAN
  BY <1>2 DEF Finish, Refs
<1> HIDE DEF g, d
<1> QED
  BY <1>1, <1>2, <1>3, RefsChange

-----------------------------------------------------------------------------
(* The steps.                                                              *)

LEMMA BackendKeeps == ASSUME IInv, NEW c \in Calls, Backend(c) PROVE IInv'
<1>0. TypeOK /\ Marked
  BY DEF IInv
<1>e. \A s \in Stopped : s \subseteq [pane : Panes, lost : BOOLEAN]
  BY <1>0 DEF Stopped, TypeOK
<1>1. ASSUME NEW p \in Panes, ConnectRuns(c, p) PROVE IInv'
  <2>1. calls[c] \in Call
    BY <1>0, <1>1 DEF ConnectRuns, Is, TypeOK
  <2>2. calls' \in [Calls -> Call \cup {None}]
    BY <1>0, <1>1, <2>1 DEF ConnectRuns, TypeOK, Call
  <2>3. \A d \in Calls : IsAttempt(calls'[d]) <=> IsAttempt(calls[d])
    BY <1>0, <1>1, <2>1, <2>2, CallAssumption DEF ConnectRuns, TypeOK, Call, IsAttempt
  <2>4. events' \subseteq [pane : Panes, lost : BOOLEAN]
    BY <1>0, <1>1, <1>e DEF ConnectRuns, TypeOK
  <2>5. TypeOK'
    BY <1>0, <1>1, <2>2, <2>4 DEF ConnectRuns, Ended, TypeOK
  <2>6. Marked'
    BY <1>0, <1>1, <2>3, AttemptsStay DEF ConnectRuns
  <2> QED
    BY <2>5, <2>6 DEF IInv
<1>2. ASSUME NEW how \in {"failed", "refused"}, ConnectFails(c, how) PROVE IInv'
  <2>1. calls[c] \in Call
    BY <1>0, <1>2 DEF ConnectFails, Is, TypeOK
  <2>2. calls' \in [Calls -> Call \cup {None}]
    BY <1>0, <1>2, <2>1 DEF ConnectFails, TypeOK, Call
  <2>3. \A d \in Calls : IsAttempt(calls'[d]) <=> IsAttempt(calls[d])
    BY <1>0, <1>2, <2>1, <2>2, CallAssumption DEF ConnectFails, TypeOK, Call, IsAttempt
  <2>4. TypeOK'
    BY <1>0, <1>2, <2>2 DEF ConnectFails, Ended, TypeOK
  <2>5. Marked'
    BY <1>0, <1>2, <2>3, AttemptsStay DEF ConnectFails
  <2> QED
    BY <2>4, <2>5 DEF IInv
<1>3. CASE DisconnectRuns(c)
  <2>1. calls[c] \in Call
    BY <1>0, <1>3 DEF DisconnectRuns, Is, TypeOK
  <2>2. calls' \in [Calls -> Call \cup {None}]
    BY <1>0, <1>3, <2>1 DEF DisconnectRuns, TypeOK, Call
  <2>3. \A d \in Calls : IsAttempt(calls'[d]) <=> IsAttempt(calls[d])
    BY <1>0, <1>3, <2>1, <2>2, CallAssumption DEF DisconnectRuns, TypeOK, Call, IsAttempt
  <2>4. events' \subseteq [pane : Panes, lost : BOOLEAN]
    BY <1>0, <1>3, <1>e DEF DisconnectRuns, TypeOK
  <2>5. TypeOK'
    BY <1>0, <1>3, <2>2, <2>4 DEF DisconnectRuns, Ended, TypeOK
  <2>6. Marked'
    BY <1>0, <1>3, <2>3, AttemptsStay DEF DisconnectRuns
  <2> QED
    BY <2>5, <2>6 DEF IInv
<1> QED
  BY <1>1, <1>2, <1>3 DEF Backend

\* What the answer of a command other than an attempt leaves of the attempts.
LEMMA OthersAnswer ==
  ASSUME IInv, NEW c \in Calls, NEW kind, NEW by, NEW at,
         Answered(c, kind, by, at), ~(kind = "connect" /\ by = "auto"),
         Done(c), hook'.inFlight = hook.inFlight
  PROVE  answers' \in Seq(Calls) /\ calls' \in [Calls -> Call \cup {None}] /\ Marked'
<1>1. ~IsAttempt(calls[c])
  BY DEF Answered, Is, IsAttempt
<1>2. \A d \in Calls : IsAttempt(calls'[d]) <=> IsAttempt(calls[d])
  BY <1>1, DoneTypes DEF IInv
<1> QED
  BY <1>2, AnswerTypes, DoneTypes, AttemptsStay DEF IInv

LEMMA AnswerKeeps == ASSUME IInv, NEW c \in Calls, Answer(c) PROVE IInv'
<1>0. TypeOK /\ Marked
  BY DEF IInv
<1>1. ASSUME NEW by \in {"user", "pane"}, UserConnected(c, by) PROVE IInv'
  <2>1. answers' \in Seq(Calls) /\ calls' \in [Calls -> Call \cup {None}] /\ Marked'
    BY <1>0, <1>1, OthersAnswer DEF UserConnected, TypeOK
  <2>2. calls[c] \in Call
    BY <1>0, <1>1, AnswerTypes DEF UserConnected
  <2>3. store' \in [pane : Panes \cup {None}, lost : BOOLEAN, known : BOOLEAN]
    BY <1>0, <1>1, <2>2 DEF UserConnected, TypeOK, Call
  <2>4. TypeOK'
    BY <1>0, <1>1, <2>1, <2>3 DEF UserConnected, TypeOK
  <2> QED
    BY <2>1, <2>4 DEF IInv
<1>2. CASE UserConnectFailed(c)
  <2>1. answers' \in Seq(Calls) /\ calls' \in [Calls -> Call \cup {None}] /\ Marked'
    BY <1>2, OthersAnswer DEF UserConnectFailed
  <2> QED
    BY <1>0, <1>2, <2>1 DEF UserConnectFailed, TypeOK, IInv
<1>3. CASE UserDisconnected(c)
  <2>1. answers' \in Seq(Calls) /\ calls' \in [Calls -> Call \cup {None}] /\ Marked'
    BY <1>3, OthersAnswer DEF UserDisconnected
  <2> QED
    BY <1>0, <1>3, <2>1 DEF UserDisconnected, TypeOK, IInv
<1>4. CASE UserDeleted(c)
  <2>1. answers' \in Seq(Calls) /\ calls' \in [Calls -> Call \cup {None}] /\ Marked'
    BY <1>0, <1>4, OthersAnswer DEF UserDeleted, TypeOK
  <2> QED
    BY <1>0, <1>4, <2>1 DEF UserDeleted, TypeOK, IInv
<1>5. CASE AutoDisconnected(c)
  <2>1. answers' \in Seq(Calls) /\ calls' \in [Calls -> Call \cup {None}] /\ Marked'
    BY <1>5, OthersAnswer DEF AutoDisconnected
  <2> QED
    BY <1>0, <1>5, <2>1 DEF AutoDisconnected, TypeOK, IInv
<1>6. CASE AttemptSucceeds(c)
  <2>1. calls[c] \in Call /\ answers' \in Seq(Calls) /\ IsAttempt(calls[c])
    BY <1>0, <1>6, AnswerTypes DEF AttemptSucceeds, Answered, Is, IsAttempt
  <2>2. calls' \in [Calls -> Call \cup {None}]
    BY <1>0, <1>6, DoneTypes DEF AttemptSucceeds
  <2>3. store' \in [pane : Panes \cup {None}, lost : BOOLEAN, known : BOOLEAN]
    BY <1>0, <1>6, <2>1 DEF AttemptSucceeds, TypeOK, Call
  <2>4. /\ hook' \in Refs
        /\ hook'.inFlight = FALSE
    <3> DEFINE h1 == [hook EXCEPT !.attempts = 0]
               h2 == [h1 EXCEPT !.dirty = TRUE]
    <3>1. h2 \in Refs
      <4>1. h1 \in Refs
        BY <1>0, RefsChange DEF TypeOK, Refs
      <4> HIDE DEF h1
      <4> QED
        BY <4>1, RefsChange
    <3>2. hook' = [h2 EXCEPT !.inFlight = FALSE]
      BY <1>6 DEF AttemptSucceeds
    <3> HIDE DEF h2
    <3> QED
      BY <3>1, <3>2, RefsChange
  <2>5. TypeOK'
    BY <1>0, <1>6, <2>1, <2>2, <2>3, <2>4 DEF AttemptSucceeds, TypeOK, Refs
  <2>6. Marked'
    BY <1>0, <1>6, <2>1, <2>4, DoneTypes, AttemptEnds DEF AttemptSucceeds
  <2> QED
    BY <2>5, <2>6 DEF IInv
<1>7. CASE AttemptUnwanted(c)
  <2>1. answers' \in Seq(Calls) /\ IsAttempt(calls[c])
    BY <1>0, <1>7, AnswerTypes DEF AttemptUnwanted, Answered, Is, IsAttempt
  <2>2. /\ calls' \in [Calls -> Call \cup {None}]
        /\ \A d \in Calls : IsAttempt(calls'[d]) <=> d # c /\ IsAttempt(calls[d])
    BY <1>0, <1>7, SendTypes DEF AttemptUnwanted
  <2>3. /\ hook' \in Refs
        /\ hook'.inFlight = FALSE
    <3> DEFINE h == [hook EXCEPT !.attempts = 0]
    <3>1. h \in Refs
      BY <1>0, RefsChange DEF TypeOK, Refs
    <3>2. hook' = [h EXCEPT !.inFlight = FALSE]
      BY <1>7 DEF AttemptUnwanted
    <3> HIDE DEF h
    <3> QED
      BY <3>1, <3>2, RefsChange
  <2>4. TypeOK'
    BY <1>0, <1>7, <2>1, <2>2, <2>3 DEF AttemptUnwanted, TypeOK, Refs
  <2>5. Marked'
    BY <1>0, <2>1, <2>2, <2>3, AttemptEnds
  <2> QED
    BY <2>4, <2>5 DEF IInv
<1>8. CASE AttemptFails(c)
  <2>1. PICK how \in {"failed", "refused"} :
          /\ Answered(c, "connect", "auto", how) /\ Done(c)
          /\ IF how = "refused" \/ hook.attempts + 1 >= MaxAttempts
             THEN Finish([hook EXCEPT !.inFlight = FALSE])
             ELSE /\ hook' = [hook EXCEPT !.inFlight = FALSE, !.timer = TRUE,
                                          !.attempts = @ + 1]
                  /\ UNCHANGED store
          /\ UNCHANGED <<online, pane, events, wanted>>
    BY <1>8 DEF AttemptFails
  <2>2. answers' \in Seq(Calls) /\ IsAttempt(calls[c])
    BY <1>0, <2>1, AnswerTypes DEF Answered, Is, IsAttempt
  <2>3. calls' \in [Calls -> Call \cup {None}]
    BY <1>0, <2>1, DoneTypes
  <2>4. /\ store' \in [pane : Panes \cup {None}, lost : BOOLEAN, known : BOOLEAN]
        /\ hook' \in Refs
        /\ hook'.inFlight = FALSE
    <3>1. CASE how = "refused" \/ hook.attempts + 1 >= MaxAttempts
      <4> DEFINE h == [hook EXCEPT !.inFlight = FALSE]
      <4>1. /\ h \in Refs
            /\ h.inFlight = FALSE
        BY <1>0 DEF TypeOK, Refs
      <4>2. Finish(h)
        BY <2>1, <3>1
      <4> HIDE DEF h
      <4> QED
        BY <1>0, <4>1, <4>2, FinishTypes
    <3>2. CASE ~(how = "refused" \/ hook.attempts + 1 >= MaxAttempts)
      <4> DEFINE h1 == [hook EXCEPT !.inFlight = FALSE]
                 h2 == [h1 EXCEPT !.timer = TRUE]
      <4>1. h1 \in Refs /\ h1.inFlight = FALSE /\ h1.attempts = hook.attempts
        BY <1>0 DEF TypeOK, Refs
      <4>2. hook' = [h2 EXCEPT !.attempts = @ + 1] /\ store' = store
        BY <2>1, <3>2
      <4>3. hook.attempts + 1 < MaxAttempts
        BY <1>0, <3>2, ReconnectAssumption DEF TypeOK
      <4> HIDE DEF h1
      <4>4. h2 \in Refs /\ h2.inFlight = FALSE /\ h2.attempts = hook.attempts
        BY <4>1 DEF Refs
      <4> HIDE DEF h2
      <4>5. hook' \in Refs
        BY <4>2, <4>3, <4>4, RefsCount
      <4>6. hook'.inFlight = FALSE
        BY <4>2, <4>4 DEF Refs
      <4> QED
        BY <1>0, <4>2, <4>5, <4>6 DEF TypeOK
    <3> QED
      BY <3>1, <3>2
  <2>5. TypeOK'
    BY <1>0, <2>1, <2>2, <2>3, <2>4 DEF TypeOK, Refs
  <2>6. Marked'
    BY <1>0, <2>1, <2>2, <2>4, DoneTypes, AttemptEnds
  <2> QED
    BY <2>5, <2>6 DEF IInv
<1> QED
  BY <1>1, <1>2, <1>3, <1>4, <1>5, <1>6, <1>7, <1>8 DEF Answer

LEMMA UserKeeps == ASSUME IInv, NEW c \in Calls, User(c) PROVE IInv'
<1>0. TypeOK /\ Marked
  BY DEF IInv
\* A command the user sends is no attempt.
<1>s. ASSUME NEW kind \in {"connect", "disconnect", "delete"},
             NEW by \in {"user", "pane"}, calls[c] = None, Sent(c, kind, by)
      PROVE  /\ calls' \in [Calls -> Call \cup {None}]
             /\ \A d \in Calls : IsAttempt(calls'[d]) <=> IsAttempt(calls[d])
  <2>1. ~IsAttempt(calls[c])
    BY <1>s DEF IsAttempt
  <2> QED
    BY <1>0, <1>s, <2>1, SendTypes
<1>1. CASE UserConnect(c)
  BY <1>0, <1>s, <1>1, AttemptsStay DEF UserConnect, TypeOK, IInv
<1>2. CASE UserReconnect(c)
  BY <1>0, <1>s, <1>2, AttemptsStay DEF UserReconnect, TypeOK, IInv
<1>3. CASE UserDelete(c)
  BY <1>0, <1>s, <1>3, AttemptsStay DEF UserDelete, TypeOK, IInv
<1>4. CASE UserDisconnect(c)
  <2>1. /\ calls' \in [Calls -> Call \cup {None}]
        /\ \A d \in Calls : IsAttempt(calls'[d]) <=> IsAttempt(calls[d])
    BY <1>0, <1>s, <1>4 DEF UserDisconnect, TypeOK
  <2>2. hook'.inFlight = hook.inFlight
    BY <1>0, <1>4 DEF UserDisconnect, Lost, TypeOK
  <2>3. TypeOK'
    BY <1>0, <1>4, <2>1 DEF UserDisconnect, Lost, TypeOK
  <2> QED
    BY <1>0, <2>1, <2>2, <2>3, AttemptsStay DEF IInv
<1> QED
  BY <1>1, <1>2, <1>3, <1>4 DEF User

LEMMA HookKeeps == IInv /\ (Effect \/ Attempt) => IInv'
<1> SUFFICES ASSUME IInv, Effect \/ Attempt PROVE IInv'
  OBVIOUS
<1>0. TypeOK /\ Marked
  BY DEF IInv
<1>1. CASE Effect
  <2>1. TypeOK' /\ hook'.inFlight = hook.inFlight /\ calls' = calls
    <3> DEFINE t == store.lost /\ (hook.timer \/ ~hook.inFlight)
               a == IF hook.timer /\ ~store.lost THEN 0 ELSE hook.attempts
    <3>1. t \in BOOLEAN /\ hook \in Refs
      BY <1>0 DEF TypeOK, Refs
    <3>2. a \in 0 .. MaxAttempts
      BY <3>1, ReconnectAssumption DEF Refs
    <3>3. hook' = [hook EXCEPT !.dirty = FALSE, !.timer = t, !.attempts = a]
      BY <1>1 DEF Effect
    <3> HIDE DEF t, a
    <3>4. hook' \in Refs /\ hook'.inFlight = hook.inFlight
      BY <3>1, <3>2, <3>3 DEF Refs
    <3> QED
      BY <1>0, <1>1, <3>4 DEF Effect, TypeOK, Refs
  <2> QED
    BY <1>0, <2>1, AttemptsStay DEF IInv
<1>2. CASE AttemptSkips
  <2>1. /\ store' \in [pane : Panes \cup {None}, lost : BOOLEAN, known : BOOLEAN]
        /\ hook' \in Refs
        /\ hook'.inFlight = hook.inFlight
    <3>1. CASE hook.inFlight \/ ~store.lost
      BY <1>0, <1>2, <3>1 DEF AttemptSkips, TypeOK, Refs
    <3>2. CASE ~(hook.inFlight \/ ~store.lost) /\ (store.pane # None \/ ~store.known)
      <4> DEFINE h == [hook EXCEPT !.timer = FALSE]
      <4>1. /\ h \in Refs
            /\ h.inFlight = hook.inFlight
        BY <1>0 DEF TypeOK, Refs
      <4>2. Finish(h)
        BY <1>2, <3>2 DEF AttemptSkips
      <4> HIDE DEF h
      <4> QED
        BY <1>0, <4>1, <4>2, FinishTypes
    <3>3. CASE ~(hook.inFlight \/ ~store.lost) /\ ~(store.pane # None \/ ~store.known)
      BY <1>0, <1>2, <3>3 DEF AttemptSkips, TypeOK, Refs
    <3> QED
      BY <3>1, <3>2, <3>3
  <2>2. TypeOK' /\ calls' = calls
    BY <1>0, <1>2, <2>1 DEF AttemptSkips, TypeOK, Refs
  <2> QED
    BY <1>0, <2>1, <2>2, AttemptsStay DEF IInv
<1>3. ASSUME NEW c \in Calls, AttemptSends(c) PROVE IInv'
  <2>1. /\ calls' \in [Calls -> Call \cup {None}]
        /\ \A d \in Calls : IsAttempt(calls'[d]) <=> d = c \/ IsAttempt(calls[d])
    BY <1>0, <1>3, SendTypes DEF AttemptSends
  <2>2. ~hook.inFlight /\ hook'.inFlight = TRUE
    BY <1>0, <1>3 DEF AttemptSends, TypeOK
  <2>3. TypeOK'
    BY <1>0, <1>3, <2>1 DEF AttemptSends, TypeOK
  <2>4. Marked'
    BY <1>0, <2>1, <2>2, AttemptBegins
  <2> QED
    BY <2>3, <2>4 DEF IInv
<1> QED
  BY <1>1, <1>2, <1>3 DEF Attempt

LEMMA StepKeeps == IInv /\ [Next]_vars => IInv'
<1> SUFFICES ASSUME IInv, [Next]_vars PROVE IInv'
  OBVIOUS
<1>0. TypeOK /\ Marked
  BY DEF IInv
<1>1. CASE UNCHANGED vars
  BY <1>1 DEF vars, IInv, TypeOK, Marked, Attempts, IsAttempt
<1>2. ASSUME NEW lost \in BOOLEAN, PaneEnds(lost) PROVE IInv'
  BY <1>0, <1>2, AttemptsStay DEF PaneEnds, TypeOK, IInv
<1>3. ASSUME NEW e \in events, TerminalClosed(e) PROVE IInv'
  <2>1. TypeOK' /\ hook'.inFlight = hook.inFlight /\ calls' = calls
    BY <1>0, <1>3 DEF TerminalClosed, TypeOK
  <2> QED
    BY <1>0, <2>1, AttemptsStay DEF IInv
<1>4. CASE NetworkChanges
  BY <1>0, <1>4, AttemptsStay DEF NetworkChanges, TypeOK, IInv
<1> QED
  BY <1>1, <1>2, <1>3, <1>4, BackendKeeps, AnswerKeeps, UserKeeps, HookKeeps DEF Next

-----------------------------------------------------------------------------
\* The state has its type and the mark is there as long as its one attempt.
THEOREM Invariance == Spec => []IInv
  BY InitHolds, StepKeeps, PTL DEF Spec

\* The store, the refs of the hook and the commands in flight keep their types;
\* there are never more than MAX_ATTEMPTS attempts counted.
THEOREM TypeCorrect == Spec => []TypeOK
<1>1. IInv => TypeOK
  BY DEF IInv
<1> QED
  BY <1>1, Invariance, PTL

\* Whatever wakes the hook and however commands and events overtake each other,
\* a session has at most one automatic connect at a time, and the mark in the
\* refs of the hook says so (useAutoReconnect.ts:51).
THEOREM OneAttemptAtATime == Spec => []OneAttempt
<1>1. IInv => OneAttempt
  BY MarkedIsOne DEF IInv
<1> QED
  BY <1>1, Invariance, PTL

-----------------------------------------------------------------------------
(* What is open is seen.  Answers come in the order in which the commands  *)
(* ended, so the last of them that changed something tells of the terminal *)
(* the backend has; if none is under way, the store has heard of it.  But  *)
(* for an attempt nobody wants: what it opened is about to be closed.      *)

Queued ==
  /\ \A i \in 1 .. Len(answers) :
       calls[answers[i]] # None /\ calls[answers[i]].at # "sent"
  /\ \A i, j \in 1 .. Len(answers) : answers[i] = answers[j] => i = j

Opened(call) == call.kind = "connect" /\ call.at = "ok" /\ call.pane = pane

Seen ==
  \/ /\ store.pane = pane
     /\ \A i \in 1 .. Len(answers) : calls[answers[i]].at # "ok"
  \/ \E k \in 1 .. Len(answers) :
       /\ Opened(calls[answers[k]])
       /\ \A j \in k + 1 .. Len(answers) : calls[answers[j]].at # "ok"

IsLeaving(call) ==
  call # None /\ call.kind = "disconnect" /\ call.by = "auto" /\ call.at = "sent"

Leaving == \E c \in Calls : IsLeaving(calls[c])

EventsAreOld == \A e \in events : e.pane # pane

VInv == Queued /\ EventsAreOld /\ (pane = None \/ Seen \/ Leaving)

LEMMA QuietIsSeen ==
  ASSUME TypeOK, VInv, Quiet PROVE pane = None \/ pane = store.pane
<1>1. ~Leaving
  BY DEF Quiet, Leaving, IsLeaving
<1>2. Len(answers) \in Nat /\ \A i \in 1 .. Len(answers) : answers[i] \in Calls
  BY DEF TypeOK
<1>3. 1 .. Len(answers) = {}
  BY <1>2 DEF VInv, Queued, Quiet
<1> QED
  BY <1>1, <1>3 DEF VInv, Seen

LEMMA InitSees == Init => VInv
  BY DEF Init, VInv, Queued, EventsAreOld

\* A command is sent, or nothing is, and the answers under way stay.
LEMMA NothingMoves ==
  ASSUME TypeOK, VInv, UNCHANGED <<answers, pane, events>>, store'.pane = store.pane,
         \A d \in Calls : calls'[d] # calls[d] => calls[d] = None
  PROVE  VInv'
<1>1. Len(answers) \in Nat /\ \A i \in 1 .. Len(answers) : answers[i] \in Calls
  BY DEF TypeOK
<1>2. \A i \in 1 .. Len(answers) : calls'[answers[i]] = calls[answers[i]]
  BY <1>1 DEF VInv, Queued
<1>3. Queued' /\ EventsAreOld'
  BY <1>2 DEF VInv, Queued, EventsAreOld
<1>4. Seen => Seen'
  <2>1. CASE store.pane = pane /\ \A i \in 1 .. Len(answers) : calls[answers[i]].at # "ok"
    BY <1>2, <2>1 DEF Seen
  <2>2. ASSUME NEW k \in 1 .. Len(answers), Opened(calls[answers[k]]),
               \A j \in k + 1 .. Len(answers) : calls[answers[j]].at # "ok"
        PROVE Seen'
    <3>1. Opened(calls[answers[k]])'
      BY <1>2, <2>2 DEF Opened
    <3>2. \A j \in k + 1 .. Len(answers) : calls'[answers[j]].at # "ok"
      BY <1>1, <1>2, <2>2
    <3> QED BY <3>1, <3>2 DEF Seen
  <2> QED BY <2>1, <2>2 DEF Seen
<1>5. Leaving => Leaving'
  BY DEF Leaving, IsLeaving
<1> QED
  BY <1>3, <1>4, <1>5 DEF VInv

\* A command of the backend ends.
LEMMA Appended ==
  ASSUME TypeOK, Queued, NEW c \in Calls, calls[c] # None, calls[c].at = "sent", Ended(c),
         calls'[c] # None, calls'[c].at # "sent",
         \A d \in Calls \ {c} : calls'[d] = calls[d]
  PROVE  /\ Queued'
         /\ Len(answers) \in Nat /\ Len(answers') = Len(answers) + 1
         /\ answers'[Len(answers) + 1] = c
         /\ \A i \in 1 .. Len(answers) : /\ answers'[i] = answers[i]
                                         /\ calls'[answers[i]] = calls[answers[i]]
<1>1. answers \in Seq(Calls) /\ answers' = Append(answers, c)
  BY DEF TypeOK, Ended
<1>2. Len(answers) \in Nat /\ Len(answers') = Len(answers) + 1
  BY <1>1
<1>3. answers'[Len(answers) + 1] = c /\ \A i \in 1 .. Len(answers) : answers'[i] = answers[i]
  BY <1>1
<1>4. \A i \in 1 .. Len(answers) : answers[i] \in Calls \ {c}
  BY <1>1 DEF Queued
<1>5. \A i \in 1 .. Len(answers) : calls'[answers[i]] = calls[answers[i]]
  BY <1>4
<1>6. \A i \in 1 .. Len(answers) + 1 : i = Len(answers) + 1 \/ i \in 1 .. Len(answers)
  BY <1>2
<1>7. Queued'
  BY <1>2, <1>3, <1>4, <1>5, <1>6 DEF Queued
<1> QED
  BY <1>2, <1>3, <1>5, <1>7

LEMMA BackendSees == ASSUME TypeOK, VInv, NEW c \in Calls, Backend(c) PROVE VInv'
<1>q. Queued
  BY DEF VInv
<1>1. ASSUME NEW p \in Panes, ConnectRuns(c, p) PROVE VInv'
  <2>1. calls[c] \in Call /\ calls[c] # None /\ calls[c].kind = "connect" /\ calls[c].at = "sent"
    BY <1>1 DEF ConnectRuns, Is, TypeOK
  <2>2. calls'[c] = [calls[c] EXCEPT !.at = "ok", !.pane = p]
        /\ \A d \in Calls \ {c} : calls'[d] = calls[d]
    BY <1>1, <2>1 DEF ConnectRuns, TypeOK
  <2>3. calls'[c] \in Call /\ calls'[c].kind = "connect" /\ calls'[c].at = "ok"
        /\ calls'[c].pane = p
    BY <2>1, <2>2 DEF Call
  <2>4. calls'[c] # None
    BY <2>3, CallAssumption
  <2>5. /\ Queued' /\ Len(answers) \in Nat /\ Len(answers') = Len(answers) + 1
        /\ answers'[Len(answers) + 1] = c
    BY <1>1, <1>q, <2>1, <2>2, <2>3, <2>4, Appended DEF ConnectRuns
  <2>6. Opened(calls[c])'
    BY <1>1, <2>3 DEF Opened, ConnectRuns
  <2>7. Seen'
    <3> DEFINE k == Len(answers) + 1
    <3>1. k \in 1 .. Len(answers') /\ k + 1 .. Len(answers') = {} /\ answers'[k] = c
      BY <2>5
    <3> HIDE DEF k
    <3> QED
      BY <2>6, <3>1 DEF Seen
  <2>8. EventsAreOld'
    BY <1>1 DEF ConnectRuns, Fresh, Stopped, VInv, EventsAreOld
  <2> QED
    BY <2>5, <2>7, <2>8 DEF VInv
<1>2. ASSUME NEW how \in {"failed", "refused"}, ConnectFails(c, how) PROVE VInv'
  <2>1. calls[c] \in Call /\ calls[c] # None /\ calls[c].kind = "connect" /\ calls[c].at = "sent"
    BY <1>2 DEF ConnectFails, Is, TypeOK
  <2>2. calls'[c] = [calls[c] EXCEPT !.at = how]
        /\ \A d \in Calls \ {c} : calls'[d] = calls[d]
    BY <1>2, <2>1 DEF ConnectFails, TypeOK
  <2>3. calls'[c] \in Call /\ calls'[c].at = how
    BY <2>1, <2>2 DEF Call
  <2>4. calls'[c] # None
    BY <2>3, CallAssumption
  <2>5. /\ Queued' /\ Len(answers) \in Nat /\ Len(answers') = Len(answers) + 1
        /\ answers'[Len(answers) + 1] = c
        /\ \A i \in 1 .. Len(answers) : /\ answers'[i] = answers[i]
                                        /\ calls'[answers[i]] = calls[answers[i]]
    BY <1>2, <1>q, <2>1, <2>2, <2>3, <2>4, Appended DEF ConnectFails
  <2>6. \A i \in 1 .. Len(answers) + 1 : i = Len(answers) + 1 \/ i \in 1 .. Len(answers)
    BY <2>5
  <2>7. Seen => Seen'
    <3>1. CASE store.pane = pane /\ \A i \in 1 .. Len(answers) : calls[answers[i]].at # "ok"
      BY <1>2, <2>3, <2>5, <2>6, <3>1 DEF Seen, ConnectFails
    <3>2. ASSUME NEW k \in 1 .. Len(answers), Opened(calls[answers[k]]),
                 \A j \in k + 1 .. Len(answers) : calls[answers[j]].at # "ok"
          PROVE Seen'
      <4>1. k \in 1 .. Len(answers')
        BY <2>5
      <4>2. Opened(calls[answers[k]])'
        BY <1>2, <2>5, <3>2 DEF Opened, ConnectFails
      <4>3. \A j \in k + 1 .. Len(answers') : calls'[answers'[j]].at # "ok"
        <5>1. \A j \in k + 1 .. Len(answers') :
                \/ j = Len(answers) + 1
                \/ (j \in k + 1 .. Len(answers) /\ j \in 1 .. Len(answers))
          BY <2>5
        <5> QED BY <2>3, <2>5, <3>2, <5>1
      <4> QED BY <4>1, <4>2, <4>3 DEF Seen
    <3> QED BY <3>1, <3>2 DEF Seen
  <2>8. Leaving => Leaving'
    BY <2>1, <2>2 DEF Leaving, IsLeaving
  <2> QED
    BY <1>2, <2>5, <2>7, <2>8 DEF VInv, EventsAreOld, ConnectFails
<1>3. CASE DisconnectRuns(c)
  <2>1. calls[c] \in Call /\ calls[c] # None /\ calls[c].at = "sent"
    BY <1>3 DEF DisconnectRuns, Is, TypeOK
  <2>2. calls'[c] = [calls[c] EXCEPT !.at = "ok"]
        /\ \A d \in Calls \ {c} : calls'[d] = calls[d]
    BY <1>3, <2>1 DEF DisconnectRuns, TypeOK
  <2>3. calls'[c] \in Call /\ calls'[c].at = "ok"
    BY <2>1, <2>2 DEF Call
  <2>4. calls'[c] # None
    BY <2>3, CallAssumption
  <2>5. Queued'
    BY <1>3, <1>q, <2>1, <2>2, <2>3, <2>4, Appended DEF DisconnectRuns
  <2>6. pane' = None /\ \A e \in events' : e.pane # None
    BY <1>3, ReconnectAssumption DEF DisconnectRuns, Stopped, TypeOK
  <2> QED
    BY <2>5, <2>6 DEF VInv, EventsAreOld
<1> QED
  BY <1>1, <1>2, <1>3 DEF Backend

\* The first answer arrives.
LEMMA Arrived ==
  ASSUME TypeOK, Queued, NEW c \in Calls, NEW kind, NEW by, NEW at,
         Answered(c, kind, by, at), \A d \in Calls \ {c} : calls'[d] = calls[d]
  PROVE  /\ Queued'
         /\ Len(answers) \in Nat /\ Len(answers') \in Nat
         /\ Len(answers) = Len(answers') + 1 /\ answers[1] = c
         /\ \A i \in 1 .. Len(answers') : /\ answers'[i] = answers[i + 1]
                                          /\ calls'[answers'[i]] = calls[answers[i + 1]]
<1>1. answers \in Seq(Calls) /\ answers # <<>> /\ answers' = Tail(answers) /\ c = Head(answers)
  BY DEF TypeOK, Answered
<1>2. /\ Len(answers) \in Nat /\ Len(answers') \in Nat
      /\ Len(answers) = Len(answers') + 1 /\ answers[1] = c
      /\ \A i \in 1 .. Len(answers') : answers'[i] = answers[i + 1]
  BY <1>1
<1>3. \A i \in 1 .. Len(answers') : i + 1 \in 1 .. Len(answers) /\ i + 1 # 1
  BY <1>2
<1>4. 1 \in 1 .. Len(answers)
  BY <1>2
<1>5. \A i \in 1 .. Len(answers') : answers[i + 1] \in Calls \ {c}
  BY <1>1, <1>2, <1>3, <1>4 DEF Queued
<1>6. \A i \in 1 .. Len(answers') : calls'[answers'[i]] = calls[answers[i + 1]]
  BY <1>2, <1>5
<1>7. Queued'
  <2>1. \A i \in 1 .. Len(answers') : calls'[answers'[i]] # None /\ calls'[answers'[i]].at # "sent"
    BY <1>3, <1>6 DEF Queued
  <2>2. ASSUME NEW i \in 1 .. Len(answers'), NEW j \in 1 .. Len(answers'), answers'[i] = answers'[j]
        PROVE i = j
    <3>1. i + 1 = j + 1
      BY <1>2, <1>3, <2>2 DEF Queued
    <3> QED BY <3>1, <1>2
  <2> QED BY <2>1, <2>2 DEF Queued
<1> QED
  BY <1>2, <1>6, <1>7

\* What it says is taken over, or was nothing new.
LEMMA ArrivalSees ==
  ASSUME TypeOK, VInv, NEW c \in Calls, NEW kind, NEW by, NEW at,
         Answered(c, kind, by, at), \A d \in Calls \ {c} : calls'[d] = calls[d],
         UNCHANGED <<pane, events>>,
         at # "ok" => store'.pane = store.pane,
         kind = "connect" /\ at = "ok" => store'.pane = calls[c].pane
  PROVE  VInv'
<1>1. /\ Queued'
      /\ Len(answers) \in Nat /\ Len(answers') \in Nat
      /\ Len(answers) = Len(answers') + 1 /\ answers[1] = c
      /\ \A i \in 1 .. Len(answers') : /\ answers'[i] = answers[i + 1]
                                       /\ calls'[answers'[i]] = calls[answers[i + 1]]
  BY Arrived DEF VInv
<1>2. calls[c] # None /\ calls[c].kind = kind /\ calls[c].at = at
  BY DEF Answered, Is
<1>3. \A i \in 1 .. Len(answers') : i + 1 \in 1 .. Len(answers)
  BY <1>1
<1>4. 1 \in 1 .. Len(answers)
  BY <1>1
<1>5. Seen => Seen'
  <2>1. CASE store.pane = pane /\ \A i \in 1 .. Len(answers) : calls[answers[i]].at # "ok"
    <3>1. at # "ok" /\ \A i \in 1 .. Len(answers') : calls'[answers'[i]].at # "ok"
      BY <1>1, <1>2, <1>3, <1>4, <2>1
    <3> QED BY <2>1, <3>1 DEF Seen
  <2>2. ASSUME NEW k \in 1 .. Len(answers), Opened(calls[answers[k]]),
               \A j \in k + 1 .. Len(answers) : calls[answers[j]].at # "ok"
        PROVE Seen'
    <3>1. \A i \in 1 .. Len(answers') :
            i + 1 \in k + 1 .. Len(answers) => calls'[answers'[i]].at # "ok"
      BY <1>1, <2>2
    <3>2. CASE k = 1
      <4>1. \A i \in 1 .. Len(answers') : i + 1 \in k + 1 .. Len(answers)
        BY <1>1, <3>2
      <4>2. store'.pane = pane'
        BY <1>1, <1>2, <2>2, <3>2 DEF Opened
      <4> QED BY <3>1, <4>1, <4>2 DEF Seen
    <3>3. CASE k # 1
      <4> DEFINE n == k - 1
      <4>1. n \in 1 .. Len(answers') /\ n + 1 = k
        BY <1>1, <3>3
      <4>2. \A i \in n + 1 .. Len(answers') :
              i \in 1 .. Len(answers') /\ i + 1 \in k + 1 .. Len(answers)
        BY <1>1, <4>1
      <4>3. calls'[answers'[n]] = calls[answers[k]]
        BY <1>1, <4>1
      <4> HIDE DEF n
      <4>4. Opened(calls[answers[n]])'
        BY <2>2, <4>3 DEF Opened
      <4>5. \A i \in n + 1 .. Len(answers') : calls'[answers'[i]].at # "ok"
        BY <3>1, <4>2
      <4> QED BY <4>1, <4>4, <4>5 DEF Seen
    <3> QED BY <3>2, <3>3
  <2> QED BY <2>1, <2>2 DEF Seen
<1>6. Leaving => Leaving'
  <2>1. c \in {answers[i] : i \in 1 .. Len(answers)} /\ calls[c].at # "sent"
    BY <1>1, <1>4 DEF VInv, Queued
  <2> QED BY <2>1 DEF Leaving, IsLeaving
<1> QED
  BY <1>1, <1>5, <1>6 DEF VInv, EventsAreOld

LEMMA AnswerSees == ASSUME TypeOK, VInv, NEW c \in Calls, Answer(c) PROVE VInv'
<1>d. ASSUME Done(c) PROVE \A d \in Calls \ {c} : calls'[d] = calls[d]
  BY <1>d DEF Done, TypeOK
<1>1. ASSUME NEW by \in {"user", "pane"}, UserConnected(c, by) PROVE VInv'
  <2>1. Answered(c, "connect", by, "ok") /\ UNCHANGED <<pane, events>> /\ Done(c)
        /\ store'.pane = calls[c].pane
    BY <1>1 DEF UserConnected, TypeOK
  <2> QED BY <1>d, <2>1, ArrivalSees
<1>2. CASE UserConnectFailed(c)
  <2>1. PICK by \in {"user", "pane"}, how \in {"failed", "refused"} :
          Answered(c, "connect", by, how)
    BY <1>2 DEF UserConnectFailed
  <2>2. Done(c) /\ UNCHANGED <<pane, events>> /\ store'.pane = store.pane
    BY <1>2 DEF UserConnectFailed
  <2> QED BY <1>d, <2>1, <2>2, ArrivalSees
<1>3. CASE UserDisconnected(c)
  <2>1. Answered(c, "disconnect", "user", "ok") /\ Done(c) /\ UNCHANGED <<pane, events>>
    BY <1>3 DEF UserDisconnected
  <2> QED BY <1>d, <2>1, ArrivalSees
<1>4. CASE UserDeleted(c)
  <2>1. Answered(c, "delete", "user", "ok") /\ Done(c) /\ UNCHANGED <<pane, events>>
    BY <1>4 DEF UserDeleted
  <2> QED BY <1>d, <2>1, ArrivalSees
<1>5. CASE AutoDisconnected(c)
  <2>1. Answered(c, "disconnect", "auto", "ok") /\ Done(c) /\ UNCHANGED <<pane, events>>
    BY <1>5 DEF AutoDisconnected
  <2> QED BY <1>d, <2>1, ArrivalSees
<1>6. CASE AttemptSucceeds(c)
  <2>1. Answered(c, "connect", "auto", "ok") /\ UNCHANGED <<pane, events>> /\ Done(c)
        /\ store'.pane = calls[c].pane
    BY <1>6 DEF AttemptSucceeds, TypeOK
  <2> QED BY <1>d, <2>1, ArrivalSees
<1>7. CASE AttemptUnwanted(c)
  <2>1. /\ Answered(c, "connect", "auto", "ok") /\ UNCHANGED <<pane, events>>
        /\ calls'[c] = [kind |-> "disconnect", by |-> "auto", at |-> "sent", pane |-> None]
        /\ \A d \in Calls \ {c} : calls'[d] = calls[d]
    BY <1>7 DEF AttemptUnwanted, Sent, TypeOK
  <2>2. Queued'
    BY <2>1, Arrived DEF VInv
  <2>3. calls'[c] # None
    BY <2>1, CallAssumption DEF Call
  <2>4. Leaving'
    BY <2>1, <2>3 DEF Leaving, IsLeaving
  <2> QED BY <2>1, <2>2, <2>4 DEF VInv, EventsAreOld
<1>8. CASE AttemptFails(c)
  <2>1. PICK how \in {"failed", "refused"} : Answered(c, "connect", "auto", how)
    BY <1>8 DEF AttemptFails
  <2>2. Done(c) /\ UNCHANGED <<pane, events>> /\ store'.pane = store.pane
    BY <1>8 DEF AttemptFails, Finish, TypeOK
  <2> QED BY <1>d, <2>1, <2>2, ArrivalSees
<1> QED
  BY <1>1, <1>2, <1>3, <1>4, <1>5, <1>6, <1>7, <1>8 DEF Answer

LEMMA StepSees == TypeOK /\ VInv /\ [Next]_vars => VInv'
<1> SUFFICES ASSUME TypeOK, VInv, [Next]_vars PROVE VInv'
  OBVIOUS
<1>1. ASSUME NEW c \in Calls, User(c) PROVE VInv'
  <2>1. /\ UNCHANGED <<answers, pane, events>> /\ store'.pane = store.pane
        /\ \A d \in Calls : calls'[d] # calls[d] => calls[d] = None
    BY <1>1 DEF User, UserConnect, UserReconnect, UserDisconnect, UserDelete, Sent, Lost, TypeOK
  <2> QED BY <2>1, NothingMoves
<1>2. ASSUME NEW c \in Calls, AttemptSends(c) PROVE VInv'
  <2>1. /\ UNCHANGED <<answers, pane, events>> /\ store'.pane = store.pane
        /\ \A d \in Calls : calls'[d] # calls[d] => calls[d] = None
    BY <1>2 DEF AttemptSends, Sent, TypeOK
  <2> QED BY <2>1, NothingMoves
<1>3. CASE Effect \/ AttemptSkips \/ NetworkChanges \/ UNCHANGED vars
  <2>1. UNCHANGED <<answers, pane, events, calls>> /\ store'.pane = store.pane
    BY <1>3 DEF Effect, AttemptSkips, Finish, NetworkChanges, vars, TypeOK
  <2> QED BY <2>1, NothingMoves
<1>4. ASSUME NEW lost \in BOOLEAN, PaneEnds(lost) PROVE VInv'
  BY <1>4, ReconnectAssumption DEF PaneEnds, VInv, Queued, EventsAreOld, TypeOK
<1>5. ASSUME NEW e \in events, TerminalClosed(e) PROVE VInv'
  <2>1. UNCHANGED <<answers, pane, calls>> /\ events' \subseteq events /\ e.pane # pane
    BY <1>5 DEF TerminalClosed, VInv, EventsAreOld
  <2>2. store'.pane = store.pane \/ store.pane # pane
    BY <1>5, <2>1 DEF TerminalClosed
  <2>3. Seen => Seen'
    BY <2>1, <2>2 DEF Seen, Opened
  <2> QED BY <2>1, <2>3 DEF VInv, Queued, EventsAreOld, Leaving
<1> QED
  BY <1>1, <1>2, <1>3, <1>4, <1>5, BackendSees, AnswerSees DEF Next, Attempt

\* When nothing of a session is under way, the backend has no terminal but the one
\* that is shown; so none is left of a profile that was deleted while the hook
\* tried to reconnect it (useAutoReconnect.ts:88-98).
THEOREM NothingUnseen == Spec => []DeletedStaysClosed
<1>1. TypeOK /\ VInv => DeletedStaysClosed
  BY QuietIsSeen DEF DeletedStaysClosed
<1>2. Spec => []VInv
  BY InitSees, StepSees, TypeCorrect, PTL DEF Spec
<1> QED
  BY <1>1, <1>2, TypeCorrect, PTL
=============================================================================
