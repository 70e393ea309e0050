----------------------------- MODULE SshConfig -----------------------------
(***************************************************************************)
(* How an OpenSSH configuration is read for an import (ssh/ssh_config.rs): *)
(* lines become blocks under the conditions of the Host lines and Includes *)
(* around them, and a host takes the first value of each keyword from the  *)
(* blocks that apply to it.  The reference reads the file once for each    *)
(* host, line by line, as OpenSSH does, and includes any number of files;  *)
(* a Match never matches in either.                                        *)
(***************************************************************************)
EXTENDS Naturals, Sequences, SequencesExt

CONSTANTS
  Aliases,     \* concrete names
  Keywords,
  Main, Other, \* the lines a file may have
  MaxLines, MaxOther,
  MaxDepth,    \* MAX_INCLUDE_DEPTH
  MaxFiles,    \* MAX_INCLUDED_FILES
  None

\* A line: a Host with the names it lists and those its patterns match and
\* exclude, a Match, an Include of the other file or of its own, a setting.
HostLine(names, hits, excluded) ==
  [is |-> "host", names |-> names, hits |-> hits, excluded |-> excluded]
MatchLine == [is |-> "match"]
IncludeLine(file) == [is |-> "include", file |-> file]
Setting(keyword, value) == [is |-> "set", keyword |-> keyword, value |-> value]

VARIABLES
  files,    \* "main", which is imported, and "other"
  hosts,    \* the aliases found, in order
  values,   \* what they resolve to
  read      \* included files so far, one more than the limit once it was warned of

vars == <<files, hosts, values, read>>

Nothing == [a \in Aliases |-> [k \in Keywords |-> None]]
Texts(lines, most) == UNION {[1 .. n -> lines] : n \in 0 .. most}

Init ==
  /\ files \in {[main |-> m, other |-> o] : m \in Texts(Main, MaxLines),
                                           o \in Texts(Other, MaxOther)}
  /\ hosts = <<>> /\ values = Nothing /\ read = 0

-----------------------------------------------------------------------------
(* parse_into                                                              *)

\* A name is matched, and by no negated pattern.
Matches(line, alias) == alias \in line.hits \ line.excluded

Block(conditions, declares) ==
  [conditions |-> conditions, declares |-> declares, settings |-> <<>>]

AppliesTo(block, alias) == \A line \in Range(block.conditions) : Matches(line, alias)

AddSetting(blocks, line) ==
  [blocks EXCEPT ![Len(blocks)].settings = Append(@, <<line.keyword, line.value>>)]

\* What follows an Include goes on in the last block of the included file.
Resumed_Not(blocks, conditions) == blocks

\* "The rest of this file belongs to the enclosing block again."
Resumed(blocks, conditions) == Append(blocks, Block(conditions, FALSE))

\* include_file and parse_into call each other, with the blocks so far and the
\* number of files read; a file that is being read is not read again.
RECURSIVE Included(_, _, _, _), Parsed(_, _, _, _, _, _)

Included(file, conditions, stack, got) ==
  IF got.read >= MaxFiles THEN [got EXCEPT !.read = MaxFiles + 1]
  ELSE IF file \in Range(stack) \/ Len(stack) >= MaxDepth THEN got
  ELSE Parsed(files[file], conditions, conditions, FALSE, Append(stack, file),
              [blocks |-> Append(got.blocks, Block(conditions, FALSE)),
               read |-> got.read + 1])

Parsed(lines, inherited, current, inMatch, stack, got) ==
  IF lines = <<>> THEN got
  ELSE LET line == Head(lines)
           Go(now, match, then) == Parsed(Tail(lines), inherited, now, match, stack, then)
           conditions == Append(inherited, line)
           With(then, blocks) == [then EXCEPT !.blocks = blocks]
           included == Included(line.file, current, stack, got)
       IN CASE line.is = "host" ->
                 Go(conditions, FALSE, With(got, Append(got.blocks, Block(conditions, TRUE))))
            [] line.is = "match" -> Go(current, TRUE, got)
            [] line.is # "host" /\ inMatch -> Go(current, inMatch, got)
            [] line.is = "include" /\ ~inMatch ->
                 Go(current, FALSE, With(included, Resumed(included.blocks, current)))
            [] line.is = "set" /\ ~inMatch ->
                 Go(current, FALSE, With(got, AddSetting(got.blocks, line)))

ParsedMain == Parsed(files.main, <<>>, <<>>, FALSE, <<"main">>,
                     [blocks |-> <<Block(<<>>, FALSE)>>, read |-> 0])

-----------------------------------------------------------------------------
(* preview_from_blocks and resolve_host                                    *)

\* The aliases a block lists, if the blocks around it match them.
Named(block) ==
  IF ~block.declares THEN <<>>
  ELSE SelectSeq(Last(block.conditions).names,
                 LAMBDA a : \A outer \in Range(Front(block.conditions)) : Matches(outer, a))

\* Each alias once.
Distinct(s) ==
  FoldLeft(LAMBDA seen, a : IF a \in Range(seen) THEN seen ELSE Append(seen, a), <<>>, s)

HostsOf(blocks) == Distinct(FoldLeft(LAMBDA all, b : all \o Named(b), <<>>, blocks))

\* The last value obtained wins.
Resolved_Last(blocks, alias) ==
  FoldLeft(LAMBDA v, b : IF ~AppliesTo(b, alias) THEN v
                         ELSE FoldLeft(LAMBDA w, set : [w EXCEPT ![set[1]] = set[2]],
                                       v, b.settings),
           [k \in Keywords |-> None], blocks)

\* "First value obtained wins."
Resolved(blocks, alias) ==
  FoldLeft(LAMBDA v, b : IF ~AppliesTo(b, alias) THEN v
                         ELSE FoldLeft(LAMBDA w, set : [w EXCEPT ![set[1]] =
                                         IF @ = None THEN set[2] ELSE @], v, b.settings),
           [k \in Keywords |-> None], blocks)

\* parse_with_includes, before an import and for its preview.
Reads ==
  /\ LET got == ParsedMain
         blocks == got.blocks
     IN /\ hosts' = HostsOf(blocks)
        /\ read' = got.read
        /\ values' = [a \in Aliases |-> IF a \in Range(hosts') THEN Resolved(blocks, a)
                                        ELSE Nothing[a]]
  /\ UNCHANGED files

Next == Reads

Spec == Init /\ [][Next]_vars

-----------------------------------------------------------------------------
(* The reference: one host, line by line.  Lines count while the host is    *)
(* matched, here and where the file was included.                           *)

RECURSIVE Read(_, _, _, _)
Read(file, active, stack, alias) ==
  LET Line(state, line) ==
        CASE line.is = "host" ->
               [state EXCEPT !.on = active /\ Matches(line, alias), !.match = FALSE]
          [] line.is = "match" -> [state EXCEPT !.match = TRUE]
          [] line.is = "set" ->
               IF state.on /\ ~state.match
               THEN [state EXCEPT !.took = Append(@, <<line.keyword, line.value>>)] ELSE state
          [] line.is = "include" ->
               IF state.on /\ ~state.match /\ line.file \notin stack
               THEN [state EXCEPT !.took = @ \o
                       Read(line.file, TRUE, stack \cup {line.file}, alias)]
               ELSE state
  IN FoldLeft(Line, [on |-> active, match |-> FALSE, took |-> <<>>], files[file]).took

\* The value that the first setting of a keyword gives.
FirstOf(took, keyword) ==
  LET of == SelectSeq(took, LAMBDA set : set[1] = keyword)
  IN IF of = <<>> THEN None ELSE of[1][2]

\* The values OpenSSH would give.  Not so beyond MAX_INCLUDED_FILES, of which the
\* user is warned: a value it would take from a file that was left out is missing
\* or another one.
OpenSshReads ==
  \A a \in Range(hosts) : \A k \in Keywords :
    values[a][k] = FirstOf(Read("main", TRUE, {"main"}, a), k)

\* "Values follow OpenSSH's rule that the first one obtained wins [...] and an
\* Include inside a Host block applies the included file only to hosts that
\* block matches" (ssh_config.rs:4): each host that is found has the values
\* OpenSSH would give it, unless a file was left out at MAX_INCLUDED_FILES.
ReadsAsOpenSsh ==
  read <= MaxFiles => OpenSshReads
=============================================================================
