------------------------------ MODULE GpuTools ------------------------------
(***************************************************************************)
(* The GPUs of a Linux or macOS host (system_monitor.rs, collect_gpu_      *)
(* metrics; gpu_monitor.rs).  Up to six tools are looked for once; at each *)
(* poll every one that was found is asked, any of them may fail, and what  *)
(* they say of one card must come together as one.                         *)
(***************************************************************************)
EXTENDS Naturals, Sequences, SequencesExt, FiniteSets, FiniteSetsExt, Functions

CONSTANTS
  Hosts,       \* what the machines have: sequences of cards, in the order of sysfs
  MaxPolls,
  None

Tools == {"ioreg", "nvidia-smi", "rocm-smi", "amd-smi", "xpu-smi", "intel_gpu_top", "drm"}
Vendors == <<"nvidia", "amd", "intel">>

\* A card: its vendor, the memory sysfs knows of, whether it has an id of its own,
\* and the tools that can see it.
Card(vendor, memory, named, by) ==
  [vendor |-> vendor, memory |-> memory, named |-> named, by |-> by]

VARIABLES
  cards, tools, \* the host and what is installed on it
  probe,        \* GpuProbe: the tools found, and the cards found with them, once
  listed,       \* the last reading, None when all that was asked failed
  silent,       \* the tools that gave nothing then
  polls,
  names         \* the cards each key ever stood for: not in the code

vars == <<cards, tools, probe, listed, silent, polls, names>>

Init ==
  /\ cards \in Hosts
  /\ tools \in SUBSET ({"drm"} \cup UNION {cards[g].by : g \in DOMAIN cards})
  /\ "ioreg" \in tools => tools = {"ioreg"}
  /\ probe = None /\ listed = None /\ silent = {} /\ polls = 0 /\ names = {}

\* detect_gpu_probe, kept for the connection.  A tool that was found is asked for
\* its list of devices, which may fail and is then empty for good.
Detects(found, answer) ==
  /\ probe = None
  /\ probe' = [tools |-> IF found THEN tools ELSE {},
               devices |-> IF found /\ answer THEN tools \cap {"xpu-smi", "amd-smi"} ELSE {}]
  /\ UNCHANGED <<cards, tools, listed, silent, polls, names>>

------------------------------------------------------------------------------
Entry(gpu, key, index) ==
  [gpu |-> gpu, vendor |-> cards[gpu].vendor, key |-> key, index |-> index]

SeenBy(tool) == SetToSortSeq({g \in DOMAIN cards : tool \in cards[g].by}, <)

\* The id of a card, or the place the tool gives it; amd-smi tells the ids when
\* it is asked for the devices.
Key(tool, place, gpu) ==
  IF cards[gpu].named /\ (tool = "amd-smi" => tool \in probe.devices)
  THEN <<cards[gpu].vendor, "id", gpu>>
  ELSE <<cards[gpu].vendor, "place", place>>

\* The key is the place in the list: what an earlier tool says moves it.
Keyed_Place(list) == [k \in DOMAIN list |-> [list[k] EXCEPT !.key = <<"idx", list[k].index>>]]

\* gpu_history_key: all of these tools give an id.
Keyed(list) == list

Answer(tool) ==
  [k \in 1 .. Len(SeenBy(tool)) |-> Entry(SeenBy(tool)[k], Key(tool, k, SeenBy(tool)[k]), k - 1)]

NextIndex(list) == Max({0} \cup {list[k].index + 1 : k \in DOMAIN list})

\* collect_amd_metrics: the second tool for want of the first.
Amd_Both(found, answers) ==
  (IF "rocm-smi" \in found \cap answers THEN Answer("rocm-smi") ELSE <<>>)
    \o (IF "amd-smi" \in found \cap answers THEN Answer("amd-smi") ELSE <<>>)

Amd(found, answers) ==
  IF "rocm-smi" \in found \cap answers /\ SeenBy("rocm-smi") # <<>> THEN Answer("rocm-smi")
  ELSE IF "amd-smi" \in found \cap answers THEN Answer("amd-smi") ELSE <<>>

\* One integrated card, whichever it is.
Integrated(list) ==
  IF SeenBy("intel_gpu_top") = <<>> THEN <<>>
  ELSE <<Entry(SeenBy("intel_gpu_top")[1], <<"intel-igpu">>, NextIndex(list))>>

\* append_uncovered_linux_drm: as many cards of a vendor as no tool told of,
\* those with little memory first.
Uncovered_All(list, vendor) ==
  SetToSortSeq({g \in DOMAIN cards : cards[g].vendor = vendor}, <)

\* By memory, none counting as least; the sort is stable.
SortsBefore(g, h) ==
  cards[g].memory < cards[h].memory \/ (cards[g].memory = cards[h].memory /\ g < h)

Uncovered(list, vendor) ==
  LET covered == Cardinality({k \in DOMAIN list : list[k].vendor = vendor})
      all == SetToSortSeq({g \in DOMAIN cards : cards[g].vendor = vendor}, SortsBefore)
  IN IF covered >= Len(all) THEN <<>> ELSE SubSeq(all, 1, Len(all) - covered)

WithDrm(list) ==
  LET more == FlattenSeq([v \in 1 .. 3 |-> Uncovered(list, Vendors[v])])
  IN list \o [k \in DOMAIN more |->
       Entry(more[k], <<"drm", more[k]>>, NextIndex(list) + k - 1)]

\* collect_gpu_metrics_with, over ssh or on this machine.
Listing(answers) ==
  LET Asked(tool) == tool \in probe.tools \cap answers
      vendor == (IF Asked("ioreg") THEN Answer("ioreg") ELSE <<>>)
             \o (IF Asked("nvidia-smi") THEN Answer("nvidia-smi") ELSE <<>>)
             \o Amd(probe.tools, answers)
             \o (IF Asked("xpu-smi") /\ "xpu-smi" \in probe.devices
                 THEN Answer("xpu-smi") ELSE <<>>)
      more == vendor \o (IF Asked("intel_gpu_top") THEN Integrated(vendor) ELSE <<>>)
  IN IF Asked("drm") THEN WithDrm(more) ELSE more

Polls(answers) ==
  /\ probe # None /\ polls < MaxPolls
  /\ LET list == Keyed(Listing(answers))
     IN /\ listed' = IF list = <<>> THEN None ELSE list
        /\ names' = names \cup {<<list[k].key, list[k].gpu>> : k \in DOMAIN list}
  /\ silent' = Tools \ (probe.tools \cap answers) /\ polls' = polls + 1
  /\ UNCHANGED <<cards, tools, probe>>

Next ==
  \/ \E b, c \in BOOLEAN : Detects(b, c)
  \/ \E answers \in SUBSET tools : Polls(answers)

Spec == Init /\ [][Next]_vars

------------------------------------------------------------------------------
TypeOK ==
  /\ cards \in Hosts /\ tools \subseteq Tools /\ polls \in 0 .. MaxPolls
  /\ probe = None \/ (probe.tools \subseteq tools /\ probe.devices \subseteq probe.tools)
  /\ listed = None \/ \A k \in DOMAIN listed : listed[k].gpu \in DOMAIN cards

TimesListed(gpu) == Cardinality({k \in DOMAIN listed : listed[k].gpu = gpu})

Entries(vendor) == {k \in DOMAIN listed : listed[k].vendor = vendor}
Told(vendor) == {listed[k].gpu : k \in {k \in Entries(vendor) : listed[k].key[1] # "drm"}}
OfVendor(vendor) == {g \in DOMAIN cards : cards[g].vendor = vendor}

\* "Vendor CLIs generally cover the discrete adapter" (gpu_monitor.rs:291): what the
\* tools told of a vendor are those of its cards that have more memory.
DiscreteAreTold(vendor) ==
  \A g \in Told(vendor), h \in OfVendor(vendor) \ Told(vendor) : SortsBefore(h, g)

\* Whatever tools a host has and whichever of them fail, a vendor has no more
\* entries than cards, and as many while sysfs can be read; and no card is there
\* twice and none is missing, if the tools told of the discrete ones ("appends
\* only physical DRM cards that are not already represented by a richer vendor
\* collector", gpu_monitor.rs:287).
EachCardOnce ==
  listed # None => \A v \in Range(Vendors) :
    /\ Cardinality(Entries(v)) <= Cardinality(OfVendor(v))
    /\ "drm" \notin silent => Cardinality(Entries(v)) = Cardinality(OfVendor(v))
    /\ DiscreteAreTold(v) => \A g \in OfVendor(v) :
         TimesListed(g) <= 1 /\ ("drm" \notin silent => TimesListed(g) = 1)

\* Not so if intel_gpu_top tells of an integrated card and nothing of a discrete
\* one: sysfs has no memory of either, and the one of lower number is appended.
EachCardAlwaysOnce ==
  listed # None => \A g \in DOMAIN cards : TimesListed(g) <= 1

\* The series and the alerts of a card are its own: a key never names two cards,
\* though the tools that answer change from one poll to the next
\* ("identifies a GPU across readings", telemetry_history.rs:45).
KeyIsOneCard == \A n, m \in names : n[1] = m[1] => n[2] = m[2]
=============================================================================
