------------------------------ MODULE AgentLogs ------------------------------
(***************************************************************************)
(* What the logs of agents say of their sessions (parse_metadata_output    *)
(* and the parsers below it, ssh/agent_monitor.rs).  The scrape prints     *)
(* files: logs, the first line and the tail of each, then the snapshots of *)
(* the status line.  Each file becomes one set of values; those that name  *)
(* the same session are merged.                                            *)
(***************************************************************************)
EXTENDS Naturals, Sequences, SequencesExt

CONSTANTS
  Outputs,   \* what a scrape may print: sequences of files [provider, records]
  None

\* The records of each provider.  What a record says of the context is one
\* value; its usage is that of one request.
Meta(session, model) == [is |-> "session_meta", session |-> session, model |-> model]
Turn(model) == [is |-> "turn_context", model |-> model]
Count(used, window, limits) ==
  [is |-> "token_count", used |-> used, window |-> window, limits |-> limits]
Claude(session, worker, message, usage) ==
  [session |-> session, worker |-> worker, message |-> message, usage |-> usage,
   used |-> None, window |-> None, limits |-> None, account |-> FALSE]
Snapshot(session, used, window, limits, account) ==
  [session |-> session, worker |-> FALSE, message |-> None, usage |-> None,
   used |-> used, window |-> window, limits |-> limits, account |-> account]
Agy(session, input, total, used) ==
  [session |-> session, input |-> input, total |-> total, used |-> used]

VARIABLES
  output,   \* what the scrape printed
  grouped   \* provider -> sessions; None before it is read

vars == <<output, grouped>>

Init == output \in Outputs /\ grouped = None

-----------------------------------------------------------------------------
NoValues ==
  [session |-> None, model |-> None, input |-> None, request |-> None, used |-> None,
   window |-> None, percent |-> None, limits |-> None, account |-> FALSE]

\* A value, unless the record has none.
Or(new, old) == IF new # None THEN new ELSE old

\* ratio_percent, by what it is the ratio of.
Ratio(used, window) == IF used = None \/ window = None THEN None ELSE <<used, window>>

\* finalize_context.
Finalized(m) == [m EXCEPT !.percent = Or(@, Ratio(m.used, m.window))]

\* parse_codex_metadata.  The first session_meta names the session; usage is
\* that of the last token_count, limits of the last one that has some.
CodexStep_Adds(m, e) ==
  CASE e.is = "session_meta" ->
         [m EXCEPT !.session = Or(@, e.session), !.model = Or(@, e.model)]
    [] e.is = "turn_context" -> [m EXCEPT !.model = Or(e.model, @)]
    [] e.is = "token_count" ->
         [m EXCEPT !.used = IF @ # None /\ e.used # None THEN @ + e.used ELSE e.used,
                   !.window = e.window,
                   !.percent = Ratio(e.used, e.window), !.limits = Or(e.limits, @)]

CodexStep(m, e) ==
  CASE e.is = "session_meta" ->
         [m EXCEPT !.session = Or(@, e.session), !.model = Or(@, e.model)]
    [] e.is = "turn_context" -> [m EXCEPT !.model = Or(e.model, @)]
    [] e.is = "token_count" ->
         [m EXCEPT !.used = e.used, !.window = e.window,
                   !.percent = Ratio(e.used, e.window), !.limits = Or(e.limits, @)]

Codex(records) == Finalized(FoldLeft(CodexStep, NoValues, records))

\* parse_claude_metadata.  Records of workers say nothing; the usage of a
\* message counts once, and stands for the context only if no snapshot does.
ClaudeStep_Workers(s, r) ==
  [m |-> [s.m EXCEPT !.session = Or(r.session, @), !.used = Or(r.used, @),
                     !.window = Or(r.window, @), !.limits = Or(r.limits, @),
                     !.account = @ \/ r.account,
                     !.request = Or(r.usage, @)],
   seen |-> s.seen \cup {r.message}, latest |-> Or(r.usage, s.latest)]

ClaudeStep(s, r) ==
  LET repeated == r.message # None /\ r.message \in s.seen
      said == [s.m EXCEPT !.session = Or(r.session, @), !.used = Or(r.used, @),
                          !.window = Or(r.window, @), !.limits = Or(r.limits, @),
                          !.account = @ \/ r.account]
  IN IF r.worker THEN s
     ELSE [m |-> IF repeated THEN said ELSE [said EXCEPT !.request = Or(r.usage, @)],
           seen |-> s.seen \cup {r.message},
           latest |-> IF repeated THEN s.latest ELSE Or(r.usage, s.latest)]

ClaudeMetadata(records) ==
  LET end == FoldLeft(ClaudeStep, [m |-> NoValues, seen |-> {}, latest |-> None], records)
  IN Finalized([end.m EXCEPT !.used = Or(@, end.latest)])

\* parse_agy_metadata.  The total of the context stands for the input tokens
\* while no record has given any.
AgyStep(m, r) ==
  [m EXCEPT !.session = Or(r.session, @),
            !.input = Or(Or(r.input, @), r.total),
            !.used = Or(r.used, @)]

AgyMetadata(records) == Finalized(FoldLeft(AgyStep, NoValues, records))

Metadata(file) ==
  CASE file.provider = "codex" -> Codex(file.records)
    [] file.provider = "claude" -> ClaudeMetadata(file.records)
    [] file.provider = "agy" -> AgyMetadata(file.records)

-----------------------------------------------------------------------------
(* insert_provider_metadata and merge_metadata                             *)

\* Values that are there are not replaced.
Merged_Keeps(base, newer) ==
  Finalized([f \in DOMAIN base |-> IF f = "account" THEN base[f] ELSE Or(base[f], newer[f])])

\* Each value of the file that is printed later, if it has one.
Merged(base, newer) ==
  Finalized([f \in DOMAIN base |-> IF f = "account" THEN base[f] ELSE Or(newer[f], base[f])])

Inserted(sessions, m) ==
  LET same == {i \in DOMAIN sessions : m.session # None /\ sessions[i].session = m.session}
      first == CHOOSE i \in same : \A j \in same : i <= j
  IN IF m = NoValues THEN sessions
     ELSE IF m.account \/ same = {} THEN Append(sessions, m)
     ELSE [sessions EXCEPT ![first] = Merged(@, m)]

\* parse_metadata_output, for one provider.
Sessions(files, provider) ==
  FoldLeft(LAMBDA all, file : IF file.provider = provider
                              THEN Inserted(all, Metadata(file)) ELSE all,
           <<>>, files)

Grouped(files) == [p \in {"codex", "claude", "agy"} |-> Sessions(files, p)]

Reads ==
  /\ grouped = None /\ grouped' = Grouped(output)
  /\ UNCHANGED output

Next == Reads

Spec == Init /\ [][Next]_vars

-----------------------------------------------------------------------------
(* Properties.                                                             *)

Read == grouped # None
WithRecords(F(_)) == [i \in DOMAIN output |-> [output[i] EXCEPT !.records = F(@)]]

\* "Subagent records describe a worker's own context rather than the session
\* the user started, so they never contribute to its numbers"
\* (agent_monitor.rs:2150): without them the scrape reads the same.
WorkersDoNotCount ==
  Read => LET OwnOf(records) ==
                SelectSeq(records, LAMBDA r : "worker" \in DOMAIN r => ~r.worker)
          IN grouped = Grouped(WithRecords(OwnOf))

\* "The collector emits a file's first line and its tail, so a short file
\* repeats a record" (agent_monitor.rs:2233): it reads as the file does.
HeadCountsOnce ==
  Read => LET Doubled(records) == IF records = <<>> THEN <<>> ELSE <<Head(records)>> \o records
          IN grouped = Grouped(WithRecords(Doubled))

\* "Status-line snapshots are emitted after the transcripts so their richer
\* fields win the per-session merge" (agent_monitor.rs:123): what the last
\* snapshot of a session says of its context is what is shown.
SnapshotWins ==
  Read =>
    \A i \in DOMAIN output : output[i].provider = "claude" =>
      LET m == Metadata(output[i])
      IN /\ ~m.account /\ m.session # None /\ m.window # None
         /\ \A j \in i + 1 .. Len(output) : Metadata(output[j]).session # m.session
         => \E s \in Range(grouped["claude"]) :
              s.session = m.session /\ s.used = Or(m.used, s.used) /\ s.window = m.window

\* The record of the account "is kept as a standalone entry that only quota
\* selection uses" (agent_monitor.rs:1994): no session is merged into it, if a log
\* of the session that published it was printed before.
AccountStandsAside ==
  Read =>
    \A i \in DOMAIN output :
      LET m == Metadata(output[i])
          Own(j) == output[j].provider = output[i].provider /\ ~Metadata(output[j]).account
                    /\ Metadata(output[j]).session = m.session
      IN m.account /\ (\E j \in 1 .. i - 1 : Own(j)) => m \in Range(grouped[output[i].provider])

-----------------------------------------------------------------------------
(* Three that do not hold.                                                 *)

\* No session is ever merged into the record of the account: one of which no log
\* was printed is merged into the first entry of its id, which is that record
\* (agent_monitor.rs:2001).
AccountStandsAlone ==
  Read =>
    \A i \in DOMAIN output : Metadata(output[i]).account
      => Metadata(output[i]) \in Range(grouped[output[i].provider])

\* The logs of a session are printed latest first, and the later one is merged
\* over the earlier (agent_monitor.rs:2005): what is shown is what the latest
\* says.
LatestLogWins ==
  Read =>
    \A i \in DOMAIN output : output[i].provider = "codex" =>
      LET m == Metadata(output[i])
      IN m.session # None /\ m.used # None
           /\ (\A j \in 1 .. i - 1 : Metadata(output[j]).session # m.session)
         => \E s \in Range(grouped["codex"]) : s.session = m.session /\ s.used = m.used

\* The input tokens of an AGY session are those of its last record that has any
\* (agent_monitor.rs:2312): the first total of a context stays.
InputIsLatest ==
  Read =>
    \A i \in DOMAIN output : output[i].provider = "agy" /\ Len(output[i].records) > 0 =>
      LET last == Last(output[i].records)
      IN last.total # None /\ last.input = None
           /\ (\A r \in Range(output[i].records) : r.input = None)
         => Metadata(output[i]).input = last.total
=============================================================================
