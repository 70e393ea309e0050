# GpuTerm: models and proofs

TLA+ modules of the parts of GpuTerm in which the order of events, a failure or
a boundary matters: terminal sessions, connections, forwards and tunnels,
polling and telemetry, transfers, keys and the vault, MCP calls, and what is
read from logs, screens and configurations of others. TLC checks them on small
instances, TLAPS proves the most important invariants for every instance. Paths
are relative to the repository (`ssh/`, `llm/` and `mcp/` stand for directories
of `src-tauri/src/`, `ui/` for `src/` of the frontend). `PROJECT.json` names the
source lines of every definition.

    tlc -workers 2 -config Sessions.cfg MCSessionLifecycle
    tlapm SessionLifecycleProofs.tla

## 1. The system

GpuTerm is a Tauri application. The Rust backend runs *commands* on a thread
pool, any number at a time; it has threads of its own (a reader per terminal, a
monitor per connected session, forwarders, quota probes, one LLM coordinator
with its probe and connector threads, a thread per MCP connection); it sends
*events* to the windows. The React frontend is single-threaded: callbacks,
effects and awaited answers interleave, but do not overlap. Shared state of the
backend is a set of maps, each under a mutex of its own; hardly any operation
holds two of them. Profiles, LLM instances, host keys, keys and the vault are
files that are rewritten as a whole.

| Component | State | Operations | Meets | What is hard |
|---|---|---|---|---|
| Terminal sessions (`ssh/terminal.rs`, `ssh/session.rs`) | maps of `AppState`: terminals, active connections, operation sessions, telemetry stops; stop flags; the state of each reader | connect, split, close, disconnect, delete; reader thread | all the others of a session | two ways down that run at once; a silent link or a dead one |
| Monitor (`ssh/system_monitor.rs`, `ssh/telemetry_hub.rs`, `ssh/telemetry_history.rs`, `alerts.rs`) | stop flag, connection, backoff; history; phases of the alert rules | connect, poll, judge, record, tell | sessions start and stop it, windows poll its history | a stopped thread still has a sample; partial failure; clocks |
| Collectors (`ssh/gpu_monitor.rs`, `ssh/windows_monitor.rs`, others) | the tools found | detect, ask, join | monitor | several tools tell of one card |
| Agent monitoring (`ssh/agent_monitor.rs`) | metadata, quotas, probes in flight, AGY history | list processes, read logs, probe, set up Claude | monitor, windows | probes overtake ticks and requests; half-read logs; settings of others |
| Port forwards (`ssh/forwarding.rs`, `ssh/session.rs`) | a set of rules per profile, with its connection; slots; libssh2's one open | start saved, start, stop, open, pump | sessions start and stop it | slow unlocked starts; opens that resume others |
| LLM tunnels (`llm/tunnel.rs`) | connections, pending connects, backoff, forwards and owners | `endpoint_for`, `retain` | coordinator calls it, connector threads report to it | late connects, dead forwarders, edited profiles, sharing |
| LLM polling (`llm/monitor.rs`, `llm/mod.rs`, `llm/severity.rs`) | instances, refresh flag, state and counters per instance, queue of outcomes | tick, fold; save, delete, enable, refresh | tunnels, probes | the list changes during a tick and a probe; lost probes; server restarts |
| Automatic reconnection (`ui/hooks/useAutoReconnect.ts`, session store, `ui/App.tsx`) | pane shown, lost mark, timer, attempts | attempt, success, failure, user commands, terminal-closed | sessions | answers, events and timers in any order |
| File transfers (`ssh/sftp.rs`, `ui/components/SftpBrowser.tsx`, `ui/stores/transferStore.ts`) | part files, cancel flags, tasks, plan of a folder | upload, download, cancel, drop, dialogs | operation sessions | non-atomic replacement, cancels, writers at both ends |
| Registry (`ssh/session.rs`, `llm/instance.rs`, `llm/mod.rs`) | two JSON files, the slot of the poller | save, import, delete | everything reads them | read-modify-write, checks before writes |
| Host keys, signing in (`ssh/session.rs`, `ssh/kbdint.rs`) | known hosts; what was offered and tried | evaluate, trust, migrate; methods and rounds | connects | concurrent rewrites; wrong secrets given away |
| Vault and keys (`ssh/credentials.rs`, `ssh/biometric.rs`, `ssh/managed_key.rs`, `ssh/keyring.rs`) | vault file, unlocked key, index; lists and halves of keys | unlock, save, reset; set up, install, delete | connects | steps of several files; a crash between two |
| MCP server (`mcp/`, `ssh/process_control.rs`) | pending approvals, dialog, audit | call, approve, time out, signal | windows, sessions | a decision after the timeout, a pid used again |
| SSH config import (`ssh/ssh_config.rs`) | none | parse, plan, import | registry | includes, first values, jump chains |
| The rest of the UI, adapters, local files, updates, shell, site | see PROJECT.json | | | drawing, formats, I/O |

What makes them correct, in one line each: no running shell is out of reach and
nothing of a closed session is left; one tracked monitor per session, that gives
up a dead host and keeps a busy one; alerts fire on what lasted; quotas never go
back; each card and each agent is counted once; forwards ride on the connection
of their set, polls on that of their profile's target; every enabled instance is
asked again and again, with its present settings; one reconnect at a time;
nothing partial is seen and no file is lost by being replaced; what the user
trusted or saved stays; a key that is listed can be used; no secret is tried
twice; no action without an answer of the user.

## 2. The modules

Components with liveness or long interleavings have a run of their own. The
smaller ones meet in no variable (the code lets them share nothing but a tick or
a connection), so four modules instantiate several each, choose one at the
start and keep the variables of the others at rest: `MCThreads`, `Monitoring`,
`Connections`, `MCReadings`. Each names one property per hazard and combines
what the modules say of it. Operators named `X_Something` in front of `X` are
defects: what `X` would be with a plausible bug. Each property is broken by the
one PROJECT.json lists for it; they take no part in the specifications.

**Sessions.** *SessionLifecycle*: one action is the critical section of one
mutex. A command is a small program (`pc`, `op`, `target`, `pane`, `taken`) whose
locations are the places between two critical sections of `connect_terminal`,
`create_terminal_split`, `disconnect_terminal`, `disconnect_terminal_pane`,
`delete_session`. A pane id is used once (a UUID). `reader[p]` decides under the
terminals lock whether it was the last pane ("closing" to "wipeActive" or
"done") and takes the entries out under other locks later; `monitor[p]` is the
telemetry thread of the connect that made `p`; `forwardJob[p]` brings saved
forwards up. The removals of a session from pools and caches are one action: no
code reads one of these maps to decide about another. *TerminalReader* is the
loop of one reader with its idle probes, calibration, keepalives, held channel
and sleeps of the machine; *Utf8Stream* how its bytes become text.

**Connections.** *HostKeys*: threads copy the file, decide, and rewrite it, with
and without the lock, in one rename or, where that does not replace, in two
steps. *SignIn*: `authenticate` and `kbdint`, method by method, with rounds of
questions; in the background a round that cannot be answered is answered with
nothing, which is a wrong answer, and stops the sign-in. *Vault*: file, memory,
index and sensor, with failed writes and restarts; derivation and decryption
happen outside the lock. *ManagedKeys*: the panel of a profile and the key
manager, step by step, each of which may fail or be the last, and the reset of
the vault, which erases every private half (`erased`) and leaves the lists.
*Registry*: profiles under their lock, instances without one. *PortForwards*:
the set of a profile, its connection, the thread of each rule. *Pump*: one
forwarded connection, both directions. *Channels*: opens on one SSH session,
which resume the one given up, slots, and the persistent forward's verdict on
its hop. *McpActions*: relay, server, approval, dialog and signal of a
`kill_process`, whose script compares the start marker and signals in two steps.
*Questions*: what an approval promises; `McpActions!AsksFirst` is the
refinement.

**LLM servers.** *TunnelManager*: the manager belongs to the coordinator, so
`retain` and `endpoint_for` are atomic; the latter is one action per way it can
end, each on the manager after the drops and the fold it makes first
(`Settled`). `slot[c]` is filled by a connect thread at any time or never. Times
are two facts: a connect is overdue, a profile backs off. *LlmMonitor*: a tick
is three steps, as the source reads shared state at three places; a command
persists the list and asks for a refresh in two. The answer of the tunnels is a
choice. *LlmReadings*: counters, models, waiting streak, severity and chart of
one server across restarts and failed scrapes.

**User interface.** *AutoReconnect*: one session; callbacks are actions,
commands are answered in the order they end, events travel apart. `wanted` is a
history variable: what the user asked for last. The backend is abstracted to the
one pane it has. *Transfers*: files are inodes, directories bind names to them.
A thread follows `upload_file`/`download_remote_file` and
`finalize_remote_part` call by call, each of which can fail; the UI part is the
drop, its dialogs, the runner with its limit and the events. *TreeCopy*: the
plan and copy of a folder while others write at both ends; a look that fails
passes for "not there", as in the code.

**Monitoring.** *TelemetryLoop*: connect, find out what the host is, poll, judge
a cycle as failed, back off. *LocalCommand*: a child, its pipe and the deadline.
*Alerts*: evaluations by several threads (a monitor, one that was just stopped,
the coordinator), one action for each time a mutex of the engine is taken; new
settings take two, and so does the end of a scope. *UsageHistory*: buckets, snapshots
with a delta, and the hook that pieces them together. *GpuTools*, *WindowsGpus*:
which tool or counter tells of which card.

**Agents.** *AgentProcesses*, *AgentLogs*, *QuotaReading*: a listing, the logs,
an answer or screen come in, what is shown goes out; the references are stated
apart (forests, doubled heads, paths). *AgentQuotas*: the tick against probes,
requests and intervals; *QuotaProbe*: what one probe waits for; *AgyHistory*:
the list several monitors share while the clock is set. *ClaudeSetup*: reading,
backing up and replacing the settings, here or over SFTP. *SshConfig* is parsed
into blocks and compared with a reader that goes through the file once per host,
as OpenSSH does, without a limit on files; `Match` holds in neither;
*ImportPlan* makes profiles of the hosts and hops.

Left out inside modelled components: what goes through the terminal, sizes, tmux
restore; instances polled without a profile, shutdown; listings, rename, delete,
mkdir, the drag-out export and symbolic links of single files; the SOCKS
handshake; MCP tools other than the kill, which take the same approval; import
and export of key files; the list of profiles lost where a rename does not
replace (HostKeys and Vault have the hazard); cryptography; the pool of operation
connections; the delivery of alerts to windows; the parsers of collectors that
remember nothing.

## 3. Runs

| Run | Asks | Instance |
|---|---|---|
| sessions | `ReaderReachable`, `ActiveWatched`, `MonitorTracked`, `DeletedProfileTornDown` | 2 panes and either a local session with 2 commands at once that open, split, close, disconnect and delete (a deletion meets no other command that closes), or a remote one that is connected, used, disconnected and deleted by one command at a time, and all threads |
| threads | `PanelessSessionDeactivates`, `StoppedMonitorEnds` (sessions); `QuotasKeepComing` (AgentQuotas, QuotaProbe); `LinkFollowsHost` (TelemetryLoop, LocalCommand); `EveryCallIsAnswered` (McpActions); `DeadHopIsNoticed` (Channels) | 2 panes, 1 command; one provider, 2 probe threads; 3 systems, one tool; one call, 2 owners of its pid; a forward of the monitor and a local one, one slot, 2 failures |
| tunnel_edits | `ForwardRidesHost`, `ReadyIsCurrent` | one instance that moves between 2 profiles, 2 targets, 2 connections |
| tunnel_liveness | `NotPendingForever` | 2 instances that share a profile |
| llm_polling | `NotSilenced`, `KeepsPolling`, `SettlesOnSettings` | one instance, 2 timeouts, 2 probe threads |
| reconnect | `OneAttempt`, `DeletedStaysClosed`, `LossIsSettled` | 2 pane ids, 2 commands in flight, 2 attempts |
| transfer_uploads | `WholeFiles`, `SurvivingCopy`, `HonestStatus` | 2 uploads, one of a folder, to one file, server that does not overwrite |
| transfer_liveness | `ApprovedIsSettled` | an upload and a download of a folder in one drop, one runner |
| monitoring | `KeysAreSomewhere`, `WorkIsCounted`, `QuotasAreCurrent`, `FiresOnlySustained`, `NotifiesOnce`, `ChartsAreComplete` | a probed and a scraped provider, 2 captures; a rule of the session under 2 monitors and one of an instance, 2 settings each, 3 readings, 4 times, one call of each command between its locks; 2 points, 2 polls in flight; AGY clock of 7, buckets of 2; a set-up of the status line with one key and one edit, here and over SFTP; a server with one model, 2 units of work, 2 polls alike |
| connections | `TrustStands`, `SignInIsFair`, `OpenIsCurrent`, `ListedHasPrivate`, `RulesAreKept`, `ForwardsCarry`, `AsksFirst`, `LossIsReal` | one host, 2 key types, 2 keys, 2 threads; every set of methods, saved secret and offer, 2 rounds of questions; 2 accounts, 2 vaults; 3 keys and a reset; 3 profiles, 2 instances with 2 commands; 2 rules on one port, 2 starters; 2 calls, and 2 processes that have the pid one after the other; 2 bytes each way; 6 ticks of a terminal with one hold and one nap; streams of up to 4 bytes |
| readings | `TellsOfItsOwn`, `ConfigIsTaken`, `FolderIsWhole` | see below |
| transfer_partials | *violation* of `WholeFiles`, section 5 | 2 downloads to one file |

The readings run takes its inputs from small sets in `MCReadings`: configurations
of 3 lines with an include of 2, that may pass a limit of 2 files; 2 hosts with
hops that are hosts, profiles or neither; every parent of 3 processes, rings
included; logs of up to 3 records, with a head, a snapshot and the record of the
account; screens of 4 pieces; hosts of 1 to 3 cards, with an integrated Intel
card before or behind a discrete one, 2 polls; Windows adapters of one name, that
nobody lists, or whose rows share a number; a tree of 4 entries one level too
deep, one change by others, looks that fail; and a folder with two names that
are one at the destination.

What a property of this run says of such inputs is as much as the code promises
of them: where two cards cannot be told apart (`ToldApart`, `DiscreteAreTold`),
parents form a ring (`RingAbove`), a limit is passed or two names are one, it
says less, and what it leaves out is stated in section 5 as a property that TLC
refutes on the same inputs.

**Bounds.** The races are between two actors on one thing: two commands, or a
command and the threads of two panes, on one session; two transfers on one file;
two probes of one instance or provider; two threads on one file of host keys.
Each instance has these and, where a thing is replaced, room for the old, the
new and one being opened. A second session, destination or address meets the
first in no shared variable but by key; the proofs, which have no bounds,
confirm it for the properties they cover. Pane ids are not reused in
SessionLifecycle, so a run ends when they are used up. `Chunks = 2` tells a
partial file from a whole one and a mixed one; `MaxAttempts = 2` has a retry that
is not the last; timeouts 1 and 60 lie on both sides of a stall limit; time
bounds of the alerts, the history and the reader exceed the longest sustain,
window and probe by at least one step. Constants with real values (8 s probes,
600 points, 16 slots) are scaled down, keeping which is longer.

The deadlock check is off where the system may really stop: all transfers over,
the last step of a bounded clock, an import made, a vault that rests.

**Symmetry** is used in runs without liveness, over ids the code only compares.

**Fairness**, and why the code gives it:

* *Sessions*: weak fairness of a command that has begun, and of threads that can
  go on. Every network step has a timeout, no lock is held across one, and a
  reader sees its stop flag within 30 ms. No command need be issued and no shell
  need end by itself.
* *Monitor, probes, local commands*: the thread goes on from each of its places,
  an interval passes, a probe thread that was started ends (QuotaProbe shows it
  for each kind but the remote Codex, section 5).
* *MCP*: the thread of a call goes on and waits no longer than `ANSWER_TIMEOUT`;
  the window takes its events. Nothing makes the user answer.
* *Channels*: a forward that can accept, open, probe or finish does; pumps end
  when the hop is down, as their reads fail.
* *Tunnels*: the coordinator goes on; an enabled instance is asked infinitely
  often; time passes; a connect thread ends, but it need not report. Two facts of
  timing are stated: the clock is read once per tick, and a backoff, of five
  seconds or more, does not end before an instance told "pending" was asked
  again, which happens after one. Finally a local port can be bound sooner or
  later, and a pending instance does not always just miss the connection. Without
  the last two, an instance that shares a profile could be told "pending" for
  ever while the other is refused.
* *Polling*: the coordinator ticks, time passes, each probe ends, with or without
  a report; an instance that is due again and again is asked, which is
  `NotPendingForever`. `SettlesOnSettings` presumes in addition that not all
  probes of an instance are lost (`Reporting`).
* *Reconnection*: commands are run and answered, events arrive, effects run; a
  timer that is set fires, strongly fair because an off-line machine disables it
  for a while.
* *Transfers*: calls return and the event loops deliver; nothing is asked of the
  user, so `ApprovedIsSettled` begins where the dialogs were answered.

## 4. Proofs

TLAPS proves, for any constants that meet the assumptions of the modules:

* **SessionLifecycleProofs**: `TypeCorrect`, `MonitorsAreTracked`,
  `ReadersAreReachable`, `ActiveIsWatched`, and the corollary
  `OneMonitorPerSession`. `IInv` adds to the three properties: what a command
  carries at each location (`CommandsOK`); that the pane of a command is its own
  and its reader not yet started (`PanesOK`); that an unused id has no trace
  (`UnusedPanes`); and, for `ActiveWatched`, that every *registered* pane has yet
  to decide (`RegisteredWatched`). The last is what makes the decision of a
  reader safe: if it sees another registered pane, that one will decide later.
  `DeletedIsTornDown` is about any overlapping commands: what it leaves out is
  named by two history variables, `crossed` (a command that opens something met
  the deletion) and `unsettled` (a thread of saved forwards was out when the
  pools were dropped). `DeletedOK` says what a deletion that nothing crossed has
  already taken down at each of its locations, `TakenOK` where what it took is.
* **TunnelManagerProofs**: `TypeCorrect`, `ForwardsRideTheirHost` and
  `NeverSentAstray`. `Rides` is inductive with the type; the lemmas prove it of
  each operator on the manager (`DropForwards`, `DropProfile`, `RecordFailure`,
  `DrainPending`, `Settled`) for any manager, and the actions are compositions.
  Its second part, that no profile has a connection and a pending connect at
  once, is what `DrainPending` needs in order not to replace a connection that is
  ridden on. `NeverSentAstray` is an action property: `SettledIsCurrent` shows
  that what is left after the drops was opened for the present target, and
  `Rides` that the forward an instance is sent to is on it.
* **LlmMonitorProofs**: `TypeCorrect` and `NobodySilenced`. `NotSilenced` is
  inductive with the type; the work is in the queue of outcomes, of which the
  newest of an instance is taken (`Newest`, whose existence is shown by
  the well-foundedness of the naturals).
* **AutoReconnectProofs**: `TypeCorrect`, `OneAttemptAtATime` and `NothingUnseen`
  (which states `DeletedStaysClosed`). The invariant of the second
  (`Marked`) says more than the property: the mark in the refs of the hook is
  set exactly as long as one automatic connect is in flight. Without it an
  attempt might be sent beside one whose mark was cleared. The third needs `VInv`:
  answers arrive in the order they were sent, so where the backend has a terminal
  the last pending answer that changed anything tells of it, or the store has it
  already, or the close of an attempt nobody wants any more is on its way.
* **TransfersProofs**: `NothingPartial` and `CopySurvives`, under the condition
  `PrivateParts` that no two transfers share a part file; `UploadsArePrivate`:
  uploads meet it always; and `StatusIsHonest`, which needs no condition. `IInv`
  follows the file of a thread: its part file is its own (`Owned`), written so
  far (`Written`), written to the end once the thread goes on (`Complete`), not
  written any more at the destination (`Landed`), and kept whenever the
  destination was emptied (`Rescued`). `HInv` says for each place of a thread
  what promise, result, event and status may go together (`Agree`). The run
  transfer_partials shows that the condition of the first two is needed.
* **ConnectionsProofs**, about the specification `Connections` with constants of
  any size. A part rests in the steps of the others, so each has an invariant of
  its own:
  - `OneWriterAlways`, `TrustStandsAlways`. The writer's copy is current because
    writers exclude each other and re-read under the lock; that is what makes
    `TrustStands` survive a rewrite of the whole file. Where a rename does not
    replace, the copy of the one writer is all there is between its two steps, and
    what is trusted is forgotten with it if the second fails (section 5).
  - `SignInIsFairAlways`. A wrong password is counted where it is spent;
    `Counted`, `ProvesOnly` and `Background` say what is left to spend: rejected
    as a password it is not offered to a question, and what was offered to a
    question is not tried again. The empty answers of a sign-in that gives up are
    not counted: they spend no saved secret (`NeverGuesses`, section 5).
  - `OpenIsCurrentAlways`. `VaultInv` adds that what an unlock has read, and is
    about to open, agrees with the file, and that nothing is open meanwhile.
  - `ListedHasPrivateAlways`. `KeysApart`: the keys of a profile are none of the
    manager's, and a new key is of neither; `KeysInPlace`: where each place of
    `setup_managed_key` has the old and the new key, so that a failure there
    leaves one that works; `ListInv`: the list follows the halves, but for those a
    reset of the vault erased.
  - `RulesAreKeptAlways`. The walk of `ensure_no_jump_loop` is a function on
    `0 .. most`; `WalkExists` and `WalkStays` show that it is defined and stays in
    every set of profiles that jump to one another, so that every loop is found
    (`LoopLeadsBack`) and a save closes none (`NoNewLoop`). For the instances not
    the file alone but every list that a command holds has none twice.
  - `ForwardsCarryAlways`. A command that is about to start rules carries the
    connection it will give the set; without one the set is empty (`ThreadsInv`,
    `StartersInv`). Of a pump: what arrived, what is in the buffer and what is
    still to be read follow one another (`BytesInv`), which the lemmas on
    `Follows` carry through reads and partial writes.
  - `AsksFirstAlways`, from the proofs in *McpActions*.
  - `LossIsRealAlways`. Of the reader of a terminal: when it last heard and when
    it asked bound what it may wait for (`ProbeInv`), and once the connection is
    silent, by how much it is late is what the channel was held meanwhile, the
    time left of the hold included (`SilentInv`, by cases on whether a probe is
    out). Of the bytes: there is a reading of them, as the recursive function
    `Decoded` has a value at every place (`ReadingExists`, by a least
    counterexample); a part of a stream reads as the whole does up to where it is
    cut off (`SliceIsRead`), so what was shown and what waits always make up
    a beginning of it (`StreamInv`), however the chunks fall.
* **MonitoringProofs**, about the specification `Monitoring` with rules,
  settings, limits and numbers of probes of any size, and clocks, buckets,
  windows, bounds on points and polls in flight too:
  - `FiresOnlySustainedAlways`. A rule that waits has been over the line it was
    judged by since the time its phase remembers or longer (`Waits`). Evaluations
    overlap each other and the two locks of new settings; each reading is held to
    the settings of its own evaluation (`StartsFresh`, section 5, is what the code
    does not keep).
  - `NotifiesOnceAlways`. The engine forgets no notification (`Remembers`). What
    is listed is not part of it (`FiringIsListed`, section 5).
  - `QuotasAreCurrentAlways`. A probe that is out is the newest of its provider
    (`OutIsNewest`), so answers wait in the order of their questions
    (`AnswersSorted`). The answers of a tick are folded in by a function on
    `0 .. Len(finished)`; `AnsweredIsHonest` shows, for any number of them, that
    what is live in the end worked last.
  - `ChartsAreCompleteAlways`. A poll asks for what starts at the last bucket of
    the chart, and is answered with the end of a history that nothing in the state
    remembers: the invariant says that such histories exist (`UsageInv`), one for
    each poll, in the order chart, polls, server, each a continuation of those
    before it (`Later`: older buckets are the same, dropped or forgotten with the
    session), and that whatever series a history has reach the time asked for
    (`Reaches`). Readings and trims (`RecordedHistory`), merges (`MergedHistory`)
    and the end of the session keep this. `Kept`, which filters a series, is a
    recursive function; `GoingExists` shows by a least counterexample that it is
    defined, `GoingKeeps` by induction what it keeps. A bucket is assumed no
    longer than the window (in the code, 5 s and an hour), and the clock not to
    be set back. AGY's points are one for a bucket in the order of time (`AgyInv`),
    even if the clock goes back.
  - `KeysAreSomewhereAlways`. What is about to take the place of a file is
    complete beside it (`SetupInv`), until then the settings are as they were
    read or have more, and once the helper is not the next to be written it is
    there.
  - `WorkIsCountedAlways`. What the server counted since the last reading is work
    not yet told, and while it was not started again it has counted no less
    (`WorkInv`). It is about the rates, not about the chart they are drawn in
    (`ChartIsOfItsTime`, `ChartKeepsAll`, section 5).
* **McpActions**: `PromiseKept`, the refinement of *Questions*. The step lemmas
  show that a step of a call moves its question from open to granted or refused,
  from granted to used, or not at all; `IInv` gives that an answer on its way is
  the one the user gave, and that a call has no outcome before it ends.
  `SignalsShown`: what is signalled is the process that was shown, or one that
  got its pid after the script had compared (`Seen`).

The invariants of the proofs were checked with TLC before they were proved.

Only model-checked: all liveness, for which the prover has no support of fairness
and `ENABLED`; what a recursive definition computes (`SshConfig`, `ImportPlan`,
`QuotaReading`, `AgentProcesses`, `TreeCopy`), as RECURSIVE operators are out of
its reach and induction over data is but for a few functions whose values are
shown to exist one by one; and the modules of `MCReadings` (which instantiates
those with the recursion) and `MCThreads` (liveness).

## 5. Where the code does not do what it says

The run **transfer_partials** shows a disagreement between the code and its
README, which promises that no partial file is exposed: two downloads to one path
share a part file, and one renames what the other still writes
(`ssh/sftp.rs:776`).

More statements of comments and docs are written down as properties in the
modules ("do not hold"); TLC refutes them, too. To see a trace, name one in the
configuration of its run, with the changes given.

| Property | Module, instance | Trace |
|---|---|---|
| `ReplacementNotMistaken` | SessionLifecycle, connects only | a reader that decided before the replacement registers removes the active entry of the replacement (`terminal.rs:208`) |
| `HistoryStaysForgotten` | SessionLifecycle, one pane and command, connect and disconnect | a stopped monitor looks the session up, it is torn down, the sample is recorded (`telemetry_hub.rs:14`) |
| `ForwardsEndWithSession`, `NoneWithoutSession` | SessionLifecycle, one remote session, the same; PortForwards | saved forwards open their connection while the session disconnects (`forwarding.rs:205`) |
| `NothingLeftOfDeleted` | SessionLifecycle, `Sessions.cfg` | a connect goes on after its profile was deleted; saved forwards come up late; a last reading is recorded (`README.md`, what a deletion tears down) |
| `ReadyReachesInstance` | TunnelManager, 2 profiles | a live forward is reused by the id of the instance after its address was edited (`tunnel.rs:317`) |
| `ForwardFailureKeepsConnection` | TunnelManager, `TunnelEdits.cfg` | a connection without a forward is dropped at the next tick |
| `IdleConnectionsReleased` | TunnelManager, `TunnelLiveness.cfg`, one instance | a connect in flight when its last instance goes is never folded in |
| `AskedOnce` | LlmMonitor, `LlmPolling.cfg` with `Spec` | switched off and on while a probe runs: a second probe beside the first. Holds under `SteadySpec` |
| `RefreshPollsEverything` | LlmMonitor, the same | an edit between the copy of the list and `take_refresh` |
| `StallMeansLost` | LlmMonitor, the same | the timeout is shortened while a probe runs |
| `StreakIsSeen` | LlmReadings | a failed scrape counts the requests an earlier one saw (`severity.rs:54`) |
| `ChartIsOfItsTime`, `ChartKeepsAll` | LlmReadings | the last rate is drawn again for a poll that failed (`llm/monitor.rs:619`); of two polls in one bucket the later replaces the point (`llm/monitor.rs:470`) |
| `StaysClosed` | AutoReconnect, `Reconnect.cfg` with `Spec` | terminal-closed arrives before the answer of the user's disconnect |
| `OnlyUnwantedDisconnected` | AutoReconnect, the same, 3 panes | the disconnect of an unwanted attempt hits what the user opened since |
| `DropIsNoticed` | AutoReconnect, `Reconnect.cfg` | a connection drops before the answer of its connect |
| `MissingFlagMeansFinished` | Transfers, `TransferLiveness.cfg` | a waiting transfer has no flag; its cancel is lost |
| `KeepsExisting` | Transfers, 2 uploads to one free destination, server that overwrites | a file that came after the plan is replaced |
| `NothingIsLostOfOneName` | TreeCopy, `MCReadings` part `case` | names that differ in case only: one file replaces the other, both are counted (`sftp.rs:564`) |
| `KeptAlwaysStays` | TreeCopy | any error of the look passes for "not there", and the file the user chose to keep is replaced (`sftp.rs:549`) |
| `GoesWhereAsked` | Channels | an open that was given up is resumed for another destination (`session.rs:728`) |
| `HopDeadIsTrue` | Channels | refusals of one slow destination count as a dead hop (`session.rs:1401`) |
| `ReplacedFreesPort`, `StaysListed` | PortForwards | the old rule's thread still holds the port; a clash found after it was taken out loses it (`forwarding.rs:359`) |
| `BothSidesAreHeard` | Pump | a half-closed connection is taken down as a whole |
| `NoDanglingProfile`, `InstanceUpdatesKept`, `SlotFollowsFile` | Registry | commands check, edit and write what they read before (`llm/mod.rs:107`) |
| `SavedStays` | Vault, `RemovesFirst = TRUE` | where a rename does not replace, the old vault goes before the new one is there (`credentials.rs:619`) |
| `OfflineMeansNotRun` | McpActions | the server is stopped while the call runs: the client is told to try again |
| `StillAsked` | McpActions | a click takes the first question off the queue, not the one that is shown |
| `ShownOnly` | McpActions | the pid changes hands between the comparison and the signal (`process_control.rs:104`) |
| `NeverGuesses` | SignIn | "without guessing" (`kbdint.rs:9`): the round a background sign-in gives up in is answered with nothing, also where the saved password had been rejected |
| `TrustIsNotLost`, `TrustedIsNotAsked` | HostKeys | where a rename does not replace, the file is removed first: a failure then loses all trust, and a connection in between finds no file (`credentials.rs:617`) |
| `StartsFresh` | Alerts | "start every rule fresh" (`alerts.rs:349`): an evaluation between the two locks, or with the settings it copied before, judges an old breach |
| `FiringIsListed` | Alerts | an evaluation between the two locks of `forget_scope`, or two that overlap, leave what fires off the list (`alerts.rs:581`) |
| `ListedIsFiring` | Alerts | new settings leave the list of what fires (`README.md:415`) |
| `SeriesInOrder` | UsageHistory, `SetBack = TRUE` | the clock is set back |
| `GpuToolsFound` | TelemetryLoop | a probe that timed out is remembered |
| `OnlyWedgedTimesOut` | LocalCommand | output beyond the pipe blocks the child (`system_monitor.rs:1613`) |
| `EachCardAlwaysOnce` | GpuTools, an integrated Intel card before a discrete one | the two tools number Intel cards apart (`gpu_monitor.rs:294`) |
| `LoadIsAlwaysItsOwn` | WindowsGpus, two cards of one name; rows of adapters nobody lists, or under one number | ids are joined by name, rows by number (`windows_monitor.rs:512`) |
| `WalkEnds`, `EveryAgentIsListed` | AgentProcesses | parents of reused pids form a ring: the walk up from an agent does not end, or an agent comes to be below itself and is not listed (`agent_monitor.rs:1812`) |
| `AccountStandsAlone`, `LatestLogWins`, `InputIsLatest` | AgentLogs | the merge by session takes the account's record, the older log, the first total (`agent_monitor.rs:1994`, `:2005`, `:2312`) |
| `RemoteProbeEnds` | QuotaProbe | each line read starts the timeout again (`agent_monitor.rs:1330`) |
| `FirstRunIsAbsent`, `EditsSurvive`, `LastCopyStays`, `LineNamesHelper` | ClaudeSetup, `MayNotOpen = TRUE` for the first | settings that do not open count as absent (`agent_monitor.rs:3107`); edits in between are lost; a retry after a failed rename starts from nothing; a set-up made again that stops at the helper leaves settings that name none (`system_monitor.rs:1787`) |
| `ExitedStaysClosed` | TerminalReader | the connection ends with the shell |
| `ReachesThroughHops` | ImportPlan | a hop that has a profile keeps its own way (`ssh_config.rs:647`) |
| `OpenSshReads` | SshConfig, `MaxFiles = 1`, `MaxLines = 4` | files past the limit are not read, and the hosts and values in them are missing (`ssh_config.rs:257`) |

## 6. State of the plan

Done: all components in which order, failure or a boundary decides something, as
listed in section 2, the refinement of Questions, and the proofs of section 4.

Left, in this order:

1. An abstract **Session** (down, up; registered panes) that SessionLifecycle
   implements, used by AutoReconnect instead of its own backend.
2. The pool of operation connections: two users of one dead connection.
3. The SOCKS handshake of dynamic forwards, and the MCP tools that write.

## 7. Not modelled, and why

LLM adapters and most collectors run requests and parse what comes back: formats
without state from one poll to the next. SFTP listings, snippets, updates and
local files are sequential I/O. The cryptography of the vault and of host keys is
taken as given. Components that draw, the site, scripts and packaging have no
behaviour to check. `PROJECT.json` lists every component with its status, and
every hazard with its property or the reason it has none.
