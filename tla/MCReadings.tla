----------------------------- MODULE MCReadings -----------------------------
(***************************************************************************)
(* What is read from elsewhere and believed: the user's ssh configuration, *)
(* processes, logs and quotas of agents, graphics cards, and a tree that   *)
(* is copied.  These meet in no variable: a part is chosen at the start    *)
(* and the variables of the others hold nothing.                           *)
(***************************************************************************)
EXTENDS Naturals, Sequences, SequencesExt, FiniteSets, TLC

CONSTANT nothing

VARIABLES
  part,
  cfgFiles, cfgHosts, cfgValues, cfgRead,
  config, profiles, made, chosen, created,
  processes, metadata, agents,
  output, grouped,
  screen, tree, limits, windows,
  cards, tools, gpuProbe, listed, silent, polls, names,
  adapters, smi, rows, shown,
  source, dest, keep, step, queue, seen, dirs, files, skippedOther, skippedExisting,
  copied, outcome, others, changed, before

configVars == <<cfgFiles, cfgHosts, cfgValues, cfgRead>>
importVars == <<config, profiles, made, chosen, created>>
processVars == <<processes, metadata, agents>>
logVars == <<output, grouped>>
quotaVars == <<screen, tree, limits, windows>>
gpuVars == <<cards, tools, gpuProbe, listed, silent, polls, names>>
adapterVars == <<adapters, smi, rows, shown>>
treeVars == <<source, dest, keep, step, queue, seen, dirs, files, skippedOther,
              skippedExisting, copied, outcome, others, changed, before>>
vars == <<part, configVars, importVars, processVars, logVars, quotaVars, gpuVars,
          adapterVars, treeVars>>

------------------------------------------------------------------------------
(* The instances and what they are given to read                           *)

SL == INSTANCE SshConfig WITH
        Aliases <- {}, Keywords <- {}, Main <- {}, Other <- {}, MaxLines <- 0, MaxOther <- 0,
        MaxDepth <- 0, MaxFiles <- 0, None <- nothing, files <- cfgFiles, hosts <- cfgHosts,
        values <- cfgValues, read <- cfgRead
S == INSTANCE SshConfig WITH
       Aliases <- {"a", "b"}, Keywords <- {"user"}, MaxLines <- 3, MaxOther <- 2,
       MaxDepth <- 3, MaxFiles <- 2, None <- nothing, files <- cfgFiles,
       hosts <- cfgHosts, values <- cfgValues, read <- cfgRead,
       Main <- {SL!HostLine(<<"a">>, {"a"}, {}), SL!HostLine(<<"b">>, {"a", "b"}, {"a"}),
                SL!HostLine(<<>>, {"a", "b"}, {}), SL!IncludeLine("other"), SL!MatchLine,
                SL!Setting("user", 1), SL!Setting("user", 2)},
       Other <- {SL!HostLine(<<"a">>, {"a"}, {}), SL!IncludeLine("other"), SL!MatchLine,
                 SL!Setting("user", 3)}

I == INSTANCE ImportPlan WITH
       Aliases <- {"x", "y"}, Endpoints <- {"e1", "e2", "e3"}, Unreadable <- "?",
       Chains <- {<<>>, <<"y">>, <<"e3", "?">>, <<"y", "e3">>}, MaxProfiles <- 4,
       MaxJumpHops <- 3

P == INSTANCE AgentProcesses WITH
       MaxPid <- 3, Providers <- <<"codex", "claude">>, ByKey <- <<"claude", "codex">>,
       Marks <- {{}, {"codex"}, {"claude"}}, Hints <- {2}, MaxSessions <- 1,
       Reused <- TRUE, None <- nothing

LL == INSTANCE AgentLogs WITH Outputs <- {}, None <- nothing
File(provider, records) == [provider |-> provider, records |-> records]
Codex == BoundedSeq({LL!Meta("s", "m1"), LL!Meta("t", "m2"), LL!Count(1, 3, "q"),
                     LL!Count(2, nothing, nothing)}, 2)
Claude == BoundedSeq({LL!Claude("s", FALSE, "a", 1), LL!Claude("s", FALSE, "a", 2),
                      LL!Claude("s", FALSE, "b", 2), LL!Claude("s", TRUE, "c", 3)}, 3)
Agy == BoundedSeq({LL!Agy("s", nothing, 1, 1), LL!Agy("s", nothing, 2, nothing),
                   LL!Agy("s", 5, nothing, 3)}, 2)
Status == {LL!Snapshot("s", 4, 9, nothing, FALSE), LL!Snapshot("s", nothing, 9, "q", FALSE)}
Account == File("claude", <<LL!Snapshot("s", 4, nothing, "q", TRUE)>>)
\* The end of a Codex log and its head; a Claude log with and without a snapshot,
\* and with the record of the account before the snapshot.
L == INSTANCE AgentLogs WITH
       None <- nothing,
       Outputs <-
         {<<File("codex", l), File("codex", <<LL!Meta("s", nothing), LL!Count(3, 3, nothing)>>)>>
            : l \in Codex}
         \cup {<<File("claude", l)>> : l \in Claude}
         \cup {<<File("claude", l), File("claude", <<x>>)>> : l \in Claude, x \in Status}
         \cup {<<File("claude", l), Account, File("claude", <<x>>)>>
                 : l \in Claude, x \in Status}
         \cup {<<File("agy", l)>> : l \in Agy}

QL == INSTANCE QuotaReading WITH
        Screens <- {}, Groups <- {}, Windows <- {}, Trees <- {}, Now <- 0, Grace <- 0,
        None <- nothing
Whole(g, v) == <<QL!GroupLine(g), QL!WindowLine(5), QL!ValueLine(v, nothing, nothing)>>
Pieces == {Whole("gemini", 1), Whole("gpt", 2), <<QL!GroupLine("gemini"), QL!WindowLine(5)>>,
           <<QL!GroupLine("gpt"), QL!ValueLine(3, nothing, nothing)>>,
           <<QL!ValueLine(3, nothing, nothing)>>, <<QL!ValueLine(nothing, 4, nothing)>>,
           <<QL!ModelsLine>>, <<QL!ValueLine(nothing, nothing, 1)>>}
Week(used) == QL!WindowEntry("week", used, nothing)
Q == INSTANCE QuotaReading WITH
       Screens <- {FlattenSeq(pieces) : pieces \in BoundedSeq(Pieces, 4)},
       Groups <- {"gemini", "gpt"}, Windows <- {5}, Now <- 5, Grace <- 1, None <- nothing,
       Trees <- {<<Week(1)>>,
                 <<QL!GroupEntry("a", <<Week(1), QL!GroupEntry("b", <<Week(2)>>)>>),
                   QL!GroupEntry("c", <<QL!WindowEntry("week", 3, 2)>>)>>}

GL == INSTANCE GpuTools WITH
        Hosts <- {}, MaxPolls <- 0, None <- nothing, probe <- gpuProbe
Geforce == GL!Card("nvidia", 0, TRUE, {"nvidia-smi"})
Radeon(memory, named) == GL!Card("amd", memory, named, {"rocm-smi", "amd-smi"})
Apu == GL!Card("amd", 1, FALSE, {})
Igpu == GL!Card("intel", 0, FALSE, {"intel_gpu_top"})
Arc == GL!Card("intel", 0, TRUE, {"xpu-smi"})
G == INSTANCE GpuTools WITH
       Hosts <- {<<Geforce, Igpu>>, <<Igpu, Geforce, Geforce>>, <<Radeon(2, FALSE), Apu, Geforce>>,
                 <<Apu, Radeon(3, TRUE), Radeon(2, FALSE)>>, <<Arc, Geforce>>,
                 <<Igpu, Arc>>, <<Arc, Igpu, Apu>>,
                 <<GL!Card("apple", 0, FALSE, {"ioreg"})>>},
       MaxPolls <- 2, None <- nothing, probe <- gpuProbe

WL == INSTANCE WindowsGpus WITH Hosts <- {}, Unlisted <- {}, None <- nothing
W == INSTANCE WindowsGpus WITH
       Hosts <- {<<WL!Adapter("nvidia", "rtx", 1, TRUE), WL!Adapter("intel", "uhd", 2, TRUE)>>,
                 <<WL!Adapter("intel", "uhd", 2, TRUE), WL!Adapter("nvidia", "rtx", 1, TRUE),
                   WL!Adapter("amd", "rx", 3, TRUE)>>,
                 <<WL!Adapter("amd", "rx", 3, TRUE), WL!Adapter("amd", "rx", 4, TRUE)>>,
                 <<WL!Adapter("intel", "uhd", 2, FALSE), WL!Adapter("nvidia", "rtx", 1, TRUE)>>},
       Unlisted <- {9}, None <- nothing

\* A folder in a folder, one level too deep, and a file beside them.
TreeParent == 1 :> 0 @@ 2 :> 1 @@ 3 :> 2 @@ 4 :> 0
TreeNames == 1 :> 1 @@ 2 :> 2 @@ 3 :> 3 @@ 4 :> 4
TreeOld == {[p \in 1 .. 4 |-> IF p = q THEN what
                              ELSE IF what # nothing /\ q \in {2, 3} /\ p < q THEN "dir"
                              ELSE nothing] : q \in {1, 2, 4}, what \in {nothing, "dir", "old", "link"}}
D == INSTANCE TreeCopy WITH
       Entries <- 1 .. 4, Top <- 0, Parent <- TreeParent, Name <- TreeNames, MaxDepth <- 2,
       MaxEntries <- 3, MaxOthers <- 1, Old <- TreeOld, None <- nothing

\* A folder with two files whose names differ in case, one name at the destination.
CaseParent == 1 :> 0 @@ 2 :> 1 @@ 3 :> 1 @@ 4 :> 0
CaseNames == 1 :> 1 @@ 2 :> 2 @@ 3 :> 2 @@ 4 :> 4
CaseOld == {1 :> "dir" @@ 2 :> what @@ 4 :> nothing : what \in {nothing, "old"}}
DC == INSTANCE TreeCopy WITH
       Entries <- 1 .. 4, Top <- 0, Parent <- CaseParent, Name <- CaseNames, MaxDepth <- 2,
       MaxEntries <- 4, MaxOthers <- 1, Old <- CaseOld, None <- nothing

ASSUME /\ I!ImportPlanAssumption /\ P!ProcessAssumption
       /\ D!TreeCopyAssumption /\ DC!TreeCopyAssumption

------------------------------------------------------------------------------
Parts == {"config", "import", "processes", "logs", "quota", "gpus", "adapters", "tree", "case"}

Init ==
  /\ part \in Parts
  /\ IF part = "config" THEN S!Init
     ELSE cfgFiles = nothing /\ cfgHosts = nothing /\ cfgValues = nothing
          /\ cfgRead = nothing
  /\ IF part = "import" THEN I!Init
     ELSE config = nothing /\ profiles = nothing /\ made = nothing /\ chosen = nothing
          /\ created = nothing
  /\ IF part = "processes" THEN P!Init
     ELSE processes = nothing /\ metadata = nothing /\ agents = nothing
  /\ IF part = "logs" THEN L!Init ELSE output = nothing /\ grouped = nothing
  /\ IF part = "quota" THEN Q!Init
     ELSE screen = nothing /\ tree = nothing /\ limits = nothing /\ windows = nothing
  /\ IF part = "gpus" THEN G!Init
     ELSE cards = nothing /\ tools = nothing /\ gpuProbe = nothing /\ listed = nothing
          /\ silent = nothing /\ polls = nothing /\ names = nothing
  /\ IF part = "adapters" THEN W!Init
     ELSE adapters = nothing /\ smi = nothing /\ rows = nothing /\ shown = nothing
  /\ IF part = "tree" THEN D!Init ELSE IF part = "case" THEN DC!Init
     ELSE source = nothing /\ dest = nothing /\ keep = nothing /\ step = nothing
          /\ queue = nothing /\ seen = nothing /\ dirs = nothing /\ files = nothing
          /\ skippedOther = nothing /\ skippedExisting = nothing /\ copied = nothing
          /\ outcome = nothing /\ others = nothing /\ changed = nothing /\ before = nothing

Rest(p, v) == part # p => UNCHANGED v

Next ==
  /\ UNCHANGED part
  /\ \/ part = "config" /\ S!Next
     \/ part = "import" /\ I!Next
     \/ part = "processes" /\ P!Next
     \/ part = "logs" /\ L!Next
     \/ part = "quota" /\ Q!Next
     \/ part = "gpus" /\ G!Next
     \/ part = "adapters" /\ W!Next
     \/ part = "tree" /\ D!Next
     \/ part = "case" /\ DC!Next
  /\ Rest("config", configVars) /\ Rest("import", importVars)
  /\ Rest("processes", processVars) /\ Rest("logs", logVars) /\ Rest("quota", quotaVars)
  /\ Rest("gpus", gpuVars) /\ Rest("adapters", adapterVars) /\ (part \notin {"tree", "case"} => UNCHANGED treeVars)

Spec == Init /\ [][Next]_vars

------------------------------------------------------------------------------
(* The properties of the modules, for the part that runs                   *)

\* The user's configuration becomes the hosts OpenSSH would reach, each once and
\* through its last hop (SshConfig, ImportPlan).
ConfigIsTaken ==
  /\ [](part = "config" => S!ReadsAsOpenSsh) /\ [](part = "import" => I!LastHopIsKept)
  /\ [][part = "import" /\ chosen' = chosen /\ chosen # {} => created' = 0]_importVars

\* Of whatever processes, logs, screens and cards there are, nothing is told twice,
\* and nothing that carries an id of its own is told of another: an agent process
\* is summed in one agent; a session that names a process is shown with that one
\* only, and has neither its workers' tokens nor those of its head twice; a quota
\* stands under its heading; a vendor has as many cards as are there, under keys
\* that stay theirs, and cards with ids have their own loads (AgentProcesses,
\* AgentLogs, QuotaReading, GpuTools, WindowsGpus).
TellsOfItsOwn ==
  /\ part = "processes" => P!CountedOnce /\ P!SessionIsItsOwn /\ P!NoneToSpare
  /\ part = "logs" => /\ L!WorkersDoNotCount /\ L!HeadCountsOnce /\ L!SnapshotWins
                     /\ L!AccountStandsAside
  /\ part = "quota" => Q!UsageIsUnderItsHeading /\ Q!WindowsAreGrouped
  /\ part = "gpus" => G!EachCardOnce /\ G!KeyIsOneCard
  /\ part = "adapters" => W!LoadIsItsOwn

\* A folder that was copied is whole as far as its names stay apart, and replaced
\* no folder and no file that was found and kept (TreeCopy).
FolderIsWhole ==
  /\ [](part = "tree" => D!NothingIsLost /\ D!PlacedInFolder)
  /\ [](part = "case" => DC!NothingIsLost /\ DC!PlacedInFolder)
  /\ [][/\ part = "tree" => D!TreeStandsStep
        /\ part = "case" => DC!TreeStandsStep]_treeVars
=============================================================================
