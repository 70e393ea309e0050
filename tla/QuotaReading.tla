---------------------------- MODULE QuotaReading ----------------------------
(***************************************************************************)
(* How account quotas are read (ssh/agent_monitor.rs): the limits of a     *)
(* JSON answer, in groups that nest (parse_rate_limits), and the screen of *)
(* AGY's /usage, line by line (parse_agy_usage_output).                    *)
(***************************************************************************)
EXTENDS Naturals, Sequences, SequencesExt, FiniteSets

CONSTANTS
  Screens,     \* what /usage may print: sequences of lines
  Groups,      \* the two groups of models
  Windows,     \* a week, five hours
  Trees,       \* answers: sequences of entries
  Now, Grace,  \* the clock; RESET_STALE_GRACE_SECONDS
  None

\* A line of the screen: the heading of a group, its models, the heading of a
\* window, or a value: a rounded percentage that remains, an exact one, the time
\* to the reset.
GroupLine(g) == [is |-> "group", group |-> g]
ModelsLine == [is |-> "models"]
WindowLine(w) == [is |-> "window", window |-> w]
ValueLine(rounded, exact, resets) ==
  [is |-> "value", rounded |-> rounded, exact |-> exact, resets |-> resets]

\* An entry of an answer: a window, or a group of entries.
WindowEntry(label, used, resets) ==
  [label |-> label, used |-> used, resets |-> resets, inner |-> <<>>]
GroupEntry(label, inner) == [label |-> label, used |-> None, resets |-> None, inner |-> inner]

VARIABLES
  screen, tree,
  limits,    \* what was read of the screen: <<group, window>> -> value
  windows    \* what was read of the answer

vars == <<screen, tree, limits, windows>>

Keys == Groups \X Windows

Init == screen \in Screens /\ tree \in Trees /\ limits = None /\ windows = None

-----------------------------------------------------------------------------
(* parse_agy_usage_output                                                  *)

NoWindow == [group |-> None, window |-> None, exact |-> None, resets |-> None]
Start == [group |-> None, models |-> FALSE, pending |-> NoWindow,
          found |-> [k \in Keys |-> None], last |-> None]

\* A new heading keeps the window that waits for its value.
OnGroup_Keeps(s, line) == [s EXCEPT !.group = line.group, !.models = FALSE]

OnGroup(s, line) ==
  [s EXCEPT !.group = line.group, !.models = FALSE, !.pending = NoWindow]

OnModels(s) == IF s.group = None THEN s ELSE [s EXCEPT !.models = TRUE]

OnWindow(s, line) ==
  [s EXCEPT !.models = FALSE,
            !.pending = IF s.group = None THEN NoWindow
                        ELSE [NoWindow EXCEPT !.group = s.group, !.window = line.window]]

\* A line among the models is one of them; one without a window is the reset of
\* the last window that was found; the others make up the window that waits.
OnValue(s, line) ==
  LET p == [s.pending EXCEPT !.resets = IF line.resets # None THEN line.resets ELSE @,
                             !.exact = IF line.exact # None THEN line.exact ELSE @]
      key == <<p.group, p.window>>
  IN IF s.models THEN s
     ELSE IF s.pending = NoWindow
     THEN IF line.resets = None \/ s.last = None THEN s
          ELSE [s EXCEPT !.found[s.last].resets = line.resets]
     ELSE IF line.rounded = None THEN [s EXCEPT !.pending = p]
     ELSE [s EXCEPT !.found[key] =
                      [remains |-> IF p.exact # None THEN p.exact ELSE line.rounded,
                       resets |-> p.resets],
                    !.last = key, !.pending = NoWindow]

OnLine(s, line) ==
  CASE line.is = "group" -> OnGroup(s, line)
    [] line.is = "models" -> OnModels(s)
    [] line.is = "window" -> OnWindow(s, line)
    [] line.is = "value" -> OnValue(s, line)

Complete(found) == \A k \in Keys : found[k] # None

-----------------------------------------------------------------------------
(* parse_rate_limit_entries                                                *)

\* Groups in groups belong to the outermost.
RECURSIVE Entries_Outermost(_, _), Entries(_, _)
Entries_Outermost(entries, group) ==
  FoldLeft(LAMBDA all, e :
             IF e.used # None \/ e.resets # None
             THEN Append(all, [label |-> e.label, group |-> group, used |-> e.used,
                               stale |-> e.resets # None /\ e.resets + Grace < Now])
             ELSE all \o Entries_Outermost(e.inner, IF group # None THEN group ELSE e.label),
           <<>>, entries)

\* A window whose reset is past is stale, not dropped.
Entries(entries, group) ==
  FoldLeft(LAMBDA all, e :
             IF e.used # None \/ e.resets # None
             THEN Append(all, [label |-> e.label, group |-> group, used |-> e.used,
                               stale |-> e.resets # None /\ e.resets + Grace < Now])
             ELSE all \o Entries(e.inner, e.label),
           <<>>, entries)

-----------------------------------------------------------------------------
Reads ==
  /\ limits = None
  /\ LET found == FoldLeft(OnLine, Start, screen).found
     IN limits' = IF Complete(found) THEN found ELSE <<>>
  /\ windows' = Entries(tree, None)
  /\ UNCHANGED <<screen, tree>>

Next == Reads

Spec == Init /\ [][Next]_vars

-----------------------------------------------------------------------------
(* Properties.                                                             *)

\* The line at i is a value of window w in group g: w is the last heading before
\* it, g the last group before that, and nothing has filled the window since.
Before(i, kinds) == {j \in 1 .. i - 1 : screen[j].is \in kinds}
Latest(S) == CHOOSE i \in S : \A j \in S : j <= i
Fills(i, g, w) ==
  /\ screen[i].is = "value" /\ screen[i].rounded # None
  /\ Before(i, {"group", "models", "window"}) # {}
  /\ LET h == Latest(Before(i, {"group", "models", "window"}))
     IN /\ screen[h].is = "window" /\ screen[h].window = w
        /\ Before(h, {"group"}) # {} /\ screen[Latest(Before(h, {"group"}))].group = g
        /\ \A j \in h + 1 .. i - 1 : screen[j].rounded = None

ExactBefore(i) ==
  LET h == Latest(Before(i, {"window"}))
      exact == {j \in h + 1 .. i : screen[j].exact # None}
  IN IF exact = {} THEN screen[i].rounded ELSE screen[Latest(exact)].exact

\* However often the screen is drawn again, a percentage is shown for the window
\* under whose heading it stood last, and nothing is shown of a screen that is
\* not whole (agent_monitor.rs:2739).
UsageIsUnderItsHeading ==
  limits # None =>
    LET of(k) == {i \in DOMAIN screen : Fills(i, k[1], k[2])}
    IN IF \E k \in Keys : of(k) = {} THEN limits = <<>>
       ELSE \A k \in Keys : limits[k].remains = ExactBefore(Latest(of(k)))

\* The paths to the windows of an answer: no window is below another.
RECURSIVE Paths(_, _)
Paths(entries, above) ==
  UNION {IF e.used # None \/ e.resets # None THEN {Append(above, e.label)}
         ELSE Paths(e.inner, Append(above, e.label)) : e \in Range(entries)}

\* Every window of an answer is listed once, under the group right above it: two
\* groups with windows of the same name are told apart (agent_monitor.rs:2481).
WindowsAreGrouped ==
  windows # None =>
    LET paths == Paths(tree, <<>>)
        named == {<<IF Len(p) = 1 THEN None ELSE p[Len(p) - 1], p[Len(p)]>> : p \in paths}
    IN /\ Len(windows) = Cardinality(paths)
       /\ {<<x.group, x.label>> : x \in Range(windows)} = named
=============================================================================
