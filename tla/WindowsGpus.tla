---------------------------- MODULE WindowsGpus ----------------------------
(***************************************************************************)
(* The GPUs of a Windows host (windows_monitor.rs, parse_windows_gpu_      *)
(* counters): the adapters Windows lists, joined by name with the ids the  *)
(* registry knows, and the counters, whose rows carry an id and a number.  *)
(***************************************************************************)
EXTENDS Naturals, Sequences, FiniteSets, FiniteSetsExt

CONSTANTS
  Hosts,      \* sequences of adapters, in the order Windows lists them
  Unlisted,   \* ids of adapters that are no GPU to the program (remote displays)
  None

\* An adapter: its vendor, the name it shares with others of its model, its id,
\* and whether the registry has that id.
Adapter(vendor, model, id, known) ==
  [vendor |-> vendor, model |-> model, id |-> id, known |-> known]

VARIABLES
  adapters, smi, \* the host; whether nvidia-smi tells of its cards
  rows,          \* rows of the counters: id and number of an adapter, its load
  shown          \* what is listed: the adapter, and the ids whose load it shows

vars == <<adapters, smi, rows, shown>>

Init == adapters \in Hosts /\ smi \in BOOLEAN /\ rows = {} /\ shown = None

\* parse_windows_gpu_probe: the ids the registry has under the name of an adapter,
\* those of earlier boots (0) with them.
Ids(a) == {0} \cup {adapters[b].id : b \in {b \in DOMAIN adapters :
                       adapters[b].known /\ adapters[b].model = adapters[a].model}}

Skipped(a) == smi /\ adapters[a].vendor = "nvidia"

\* The first adapter that has the id, else the one of that number; numbers are
\* counted from zero.
Attributed_ByNumber(id, number) ==
  IF number < Len(adapters) THEN number + 1 ELSE None

Attributed(id, number) ==
  LET having == {a \in DOMAIN adapters : id \in Ids(a)}
  IN IF having # {} THEN Min(having)
     ELSE IF number < Len(adapters) THEN number + 1 ELSE None

\* One entry for each number that has a row, with the load of all rows of that
\* number (`luid` is the id that was met last), then the adapters that had none.
Counted(counters, luid) ==
  LET At(n) == Attributed(luid[n], n)
      told == {n \in DOMAIN luid : At(n) # None /\ ~Skipped(At(n))}
      idle == {a \in DOMAIN adapters : ~Skipped(a) /\ \A n \in told : At(n) # a}
      IdsAt(n) == {row.id : row \in {r \in counters : r.number = n}}
  IN {[adapter |-> At(n), number |-> n, load |-> IdsAt(n)] : n \in told}
       \cup {[adapter |-> a, number |-> None, load |-> {}] : a \in idle}

\* Adapters without a process that uses them have no row.
Polls(busy, number) ==
  /\ shown = None
  /\ rows' = {[id |-> i, number |-> number[i]] : i \in busy}
  /\ \E luid \in [{number[i] : i \in busy} -> busy] :
       /\ \A n \in DOMAIN luid : number[luid[n]] = n
       /\ shown' = Counted(rows', luid)
  /\ UNCHANGED <<adapters, smi>>

Next ==
  LET ids == Unlisted \cup {adapters[a].id : a \in DOMAIN adapters}
  IN \E busy \in SUBSET ids :
       \E number \in [busy -> 0 .. Cardinality(ids) - 1] : Polls(busy, number)

Spec == Init /\ [][Next]_vars

------------------------------------------------------------------------------
TypeOK ==
  /\ adapters \in Hosts /\ smi \in BOOLEAN
  /\ shown = None \/ \A s \in shown : s.adapter \in DOMAIN adapters

\* The registry knows every adapter, each has a name of its own, and the rows are
\* those of listed adapters under different numbers.
ToldApart ==
  /\ \A a \in DOMAIN adapters : adapters[a].known
  /\ \A a, b \in DOMAIN adapters : adapters[a].model = adapters[b].model => a = b
  /\ \A row \in rows : row.id \notin Unlisted
  /\ \A row, other \in rows : row.number = other.number => row = other

OwnLoad(a) ==
  LET mine == {s \in shown : s.adapter = a}
  IN Cardinality(mine) = 1
     /\ \A s \in mine : s.load = {adapters[a].id} \cap {row.id : row \in rows}

\* Whatever the rows are, no adapter is left out; and where ids tell the adapters
\* apart each is there once with the load of its own rows, whatever number they
\* have ("counter instances are attributed to adapters by the LUID embedded in
\* their names (exact ...)", windows_monitor.rs:512).
LoadIsItsOwn ==
  shown # None => \A a \in DOMAIN adapters : ~Skipped(a) =>
    (\E s \in shown : s.adapter = a) /\ (ToldApart => OwnLoad(a))

\* Not so where they do not: of two adapters of one name the first has the load of
\* both in two entries, a row that no adapter has goes to the one of its number,
\* and rows under one number go to one adapter (windows_monitor.rs:513).
LoadIsAlwaysItsOwn ==
  shown # None => \A a \in DOMAIN adapters : ~Skipped(a) => OwnLoad(a)
=============================================================================
