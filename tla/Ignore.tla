------------------------------- MODULE Ignore -------------------------------
(***************************************************************************)
(* The ignore lists: how a pattern matches a path, what the directory walk *)
(* of add leaves out, and the commands that write the lists: ignore with   *)
(* target and source paths, with patterns and with --remove, and add and   *)
(* pull with --force, which drop the patterns they override.  The user     *)
(* edits the lists in between.                                             *)
(*                                                                         *)
(* A pattern is the sequence of its sub-patterns between the slashes, each *)
(* the sets of names it matches as a whole and within, and whether its     *)
(* text begins with ^, ends with $ and reaches any depth (begins with ^ or *)
(* .* ).  Stems are words none of which contains another one, or ends in $ *)
(* (lib.rs:365 would take the escaped $ for an anchor).                    *)
(***************************************************************************)
EXTENDS Paths, SequencesExt

CONSTANTS
  Files,         \* the files under the target directory: paths
  ShortStems,    \* stems of a single letter
  ProbeStem,     \* the stem of IGNORE_DIR_PROBE_CHILD
  UserPatterns,  \* patterns given by the user
  NoPattern,
  Faults,        \* subset of {"error"}
  MaxActs,       \* bound: commands and edits
  MaxLines       \* bound: lines of a list

Probe == [marks |-> <<>>, stem |-> ProbeStem]
PrefixesOf(f) == {SubSeq(f, 1, n) : n \in 1..Len(f)}
AllPaths == UNION {PrefixesOf(f) : f \in Files}
Roots == {<<>>} \cup Files
UsedNames ==
  {Probe} \cup UNION {{n, Encode(n), Decode(Encode(n), FALSE)} : n \in UNION {Range(f) : f \in Files}}
Below(root) == {f \in Files : Begins(root, f)}

VARIABLES
  tlist,  \* the target ignore file: its lines, and whether the last is open
  slist,  \* the source ignore file
  last,   \* the command before: its name, its path, what came of it
  acts

vars == <<tlist, slist, last, acts>>

-----------------------------------------------------------------------------
(* Patterns                                                                *)
Holds(n, m) == n.stem = m.stem /\ IsSuffix(m.marks, n.marks)
Word(n) == [whole |-> {n}, within |-> {m \in UsedNames : Holds(m, n)}]
Words(path) == [i \in DOMAIN path |-> Word(path[i])]

\* mutant: only the name of a file is written
LiteralName(path) ==
  [parts |-> <<Word(path[Len(path)])>>, start |-> FALSE, end |-> FALSE, deep |-> FALSE]

(* regex::escape of a path, and the form of source entries: ^path$ *)
Literal(path) == [parts |-> Words(path), start |-> FALSE, end |-> FALSE, deep |-> FALSE]
Canonical(path) == [parts |-> Words(path), start |-> TRUE, end |-> TRUE, deep |-> TRUE]

(* The entry ignore writes for a source path *)
SourceEntry(s) == Canonical(Dotless(SourceOf(s)))

Patterns ==
  UserPatterns \cup UNION {{Literal(t), Literal(SourceOf(t)), SourceEntry(t)} : t \in AllPaths}

(* What matches a name as a whole is found within it.  An empty pattern is
   an empty line, which is no entry. *)
ASSUME IgnoreAssumption ==
  /\ \A f \in Files : IsPath(f) /\ f # <<>>
  /\ ShortStems \subseteq Stems /\ ProbeStem \in Stems
  /\ \A p \in UserPatterns :
       /\ p.parts \in Seq([whole : SUBSET UsedNames, within : SUBSET UsedNames]) \ {<<>>}
       /\ \A k \in DOMAIN p.parts : p.parts[k].whole \subseteq p.parts[k].within
       /\ p.start => p.deep
  /\ NoPattern \notin Patterns
  /\ MaxActs \in Nat /\ MaxLines \in Nat

(* RegexSet::matches on the whole path: somewhere, unless anchored *)
Found(p, path) ==
  \E i \in 0..(Len(path) - Len(p.parts)) :
    /\ p.start => i = 0
    /\ p.end => i + Len(p.parts) = Len(path)
    /\ \A k \in DOMAIN p.parts :
         path[i + k] \in IF k = 1 /\ ~p.start THEN p.parts[k].within ELSE p.parts[k].whole

\* mutant: the sequence of components slides along the path
MatchesAnywhere(p, path) ==
  \E i \in 0..(Len(path) - Len(p.parts)) :
    \A k \in DOMAIN p.parts : path[i + k] \in p.parts[k].whole

(* component_sub_regexes: a sub-pattern matches a name as a whole, but one
   with an anchor of its own is left as it is.  Of ^a/b$ the last then
   matches what ends in b (and the first what begins with a, which is a). *)
Component(p, k) ==
  IF p.end /\ k > 1 /\ k = Len(p.parts) THEN p.parts[k].within ELSE p.parts[k].whole

(* pattern_matches_path_components *)
MatchesComponents(p, path) ==
  IF Len(p.parts) = 1 /\ p.deep
  THEN \E i \in DOMAIN path : path[i] \in p.parts[1].whole
  ELSE /\ Len(p.parts) <= Len(path)
       /\ \A k \in DOMAIN p.parts : path[k] \in Component(p, k)

(* load_ignore_regex: comments and empty lines are no entries *)
Entries(list) == {i \in DOMAIN list.lines : list.lines[i].pat # NoPattern}

(* check_path_matches_regex_component_wise: any pattern may open the gate,
   the first that matches component by component is the answer *)
Matching(list, path) ==
  LET hits == {i \in Entries(list) : MatchesComponents(list.lines[i].pat, path)}
  IN IF hits = {} \/ \A i \in Entries(list) : ~Found(list.lines[i].pat, path) THEN NoPattern
     ELSE list.lines[Min(hits)].pat

Ignored(list, path) == Matching(list, path) # NoPattern

(* matches_source_ignore_regex, of the source of a path *)
MatchingSource(list, path) ==
  LET own == Matching(list, SourceOf(path))
  IN IF own # NoPattern THEN own ELSE Matching(list, Dotless(SourceOf(path)))

-----------------------------------------------------------------------------
(* The walks.  The directory or file a walk starts from is always kept.    *)
DirsBetween(root, f) == {SubSeq(f, 1, n) : n \in (Len(root) + 1)..(Len(f) - 1)}

(* is_dir_ignored: a directory is pruned when a child of it would be *)
DirIgnored(list, dir) == Ignored(list, Append(dir, Probe))

AddWalk(list, root) == {f \in Below(root) : \A d \in DirsBetween(root, f) : ~DirIgnored(list, d)}

(* PULL_KEEP_NON_DOTFILES wants two characters of every name *)
Kept(n) == ~Marked(n, ".") /\ (n.marks # <<>> \/ n.stem \notin ShortStems)
PullWalk(root) == {f \in Below(root) : \A i \in (Len(root) + 1)..Len(f) : Kept(Encode(f[i]))}

-----------------------------------------------------------------------------
(* The files                                                               *)
Line(p) == [pat |-> p, noted |-> FALSE]
Comment == [pat |-> NoPattern, noted |-> TRUE]

\* mutant: what is appended continues an open last line
Garbled == [parts |-> <<[whole |-> {}, within |-> {}]>>, start |-> FALSE, end |-> FALSE, deep |-> FALSE]
AppendedToOpen(list, ps) ==
  IF ~list.open \/ ps = <<>> THEN [lines |-> list.lines \o [i \in DOMAIN ps |-> Line(ps[i])], open |-> FALSE]
  ELSE [lines |-> Front(list.lines) \o <<Line(Garbled)>>
                  \o [i \in DOMAIN Tail(ps) |-> Line(Tail(ps)[i])], open |-> FALSE]

(* ensure_trailing_newline, then one line for each *)
Appended(list, ps) ==
  [lines |-> list.lines \o [i \in DOMAIN ps |-> Line(ps[i])],
   open |-> list.open /\ ps = <<>>]

(* The lines of a set, in their order *)
Filtered(lines, stays) ==
  LET kept[n \in 0..Len(lines)] ==
        IF n = 0 THEN <<>>
        ELSE IF lines[n] \in stays THEN Append(kept[n - 1], lines[n])
        ELSE kept[n - 1]
  IN kept[Len(lines)]

Staying(list, ps) == {l \in Range(list.lines) : l.noted \/ l.pat \notin ps}

\* mutant: the text that is written back never ends in a newline
PrunedOpen(list, ps) == [lines |-> Filtered(list.lines, Staying(list, ps)), open |-> TRUE]

(* prune_ignore_file compares whole lines and joins what it keeps: no
   newline at the end, unless there was nothing to remove *)
Pruned(list, ps) ==
  LET kept == Filtered(list.lines, Staying(list, ps))
  IN IF Staying(list, ps) = Range(list.lines) THEN list
     ELSE [lines |-> kept, open |-> kept # <<>>]

(* migrate_ignore_line *)
Migrated(list, old, new) ==
  LET kept == Filtered(list.lines, Staying(list, {old}))
  IN [lines |-> IF Line(new) \in Range(kept) THEN kept ELSE Append(kept, Line(new)), open |-> FALSE]

-----------------------------------------------------------------------------
(* The commands                                                            *)
Did(op, target, source, ok) ==
  /\ acts < MaxActs /\ acts' = acts + 1
  /\ last' = [op |-> op, target |-> target, source |-> source, ok |-> ok]
Room(list) == Len(list.lines) < MaxLines

(* The lines to append to the target list: one path at most *)
TargetLines(ts) == IF ts = <<>> \/ Ignored(tlist, ts[1]) THEN <<>> ELSE <<Literal(ts[1])>>

(* The source list after the paths were checked, and the lines to append *)
Checked(s) ==
  LET old == MatchingSource(slist, s)
  IN IF old = NoPattern \/ old = SourceEntry(s) THEN slist ELSE Migrated(slist, old, SourceEntry(s))
SourceLines(s) == IF MatchingSource(slist, s) = NoPattern THEN <<SourceEntry(s)>> ELSE <<>>

(* ignore TARGET, ignore SOURCE, or both.  The target list is written
   first; an error after that leaves the source line out. *)
IgnorePaths(ts, ss) ==
  /\ Room(tlist) /\ Room(slist)
  /\ tlist' = Appended(tlist, TargetLines(ts))
  /\ LET checked == IF ss = <<>> THEN slist ELSE Checked(ss[1])
         lines == IF ss = <<>> THEN <<>> ELSE SourceLines(ss[1])
     IN \/ slist' = Appended(checked, lines) /\ Did("ignore", ts, ss, TRUE)
        \/ /\ "error" \in Faults /\ lines # <<>>
           /\ slist' = checked /\ Did("ignore", ts, ss, FALSE)

IgnorePattern(p) ==
  /\ Room(tlist)
  /\ tlist' = Appended(tlist, <<p>>)
  /\ Did("pattern", <<>>, <<>>, TRUE)
  /\ UNCHANGED slist

(* ignore --remove, given a pattern or a path, of which it drops the escaped
   form too.  (No pattern here is spelled as the path of a file.) *)
RemoveRecord(p) ==
  /\ tlist' = Pruned(tlist, {p})
  /\ Did("remove", <<>>, <<>>, TRUE)
  /\ UNCHANGED slist

(* add and pull: an ignored file is skipped, or with --force taken along and
   the pattern dropped after the last task, if there was a task at all.
   Which of the files taken need a task is for the other modules to say. *)
Copy(op, root, walk, force) ==
  LET ignored == {f \in walk : Ignored(tlist, f)}
      taken == IF force THEN walk ELSE walk \ ignored
      patterns == {Matching(tlist, f) : f \in ignored}
  IN \/ tlist' = tlist /\ Did(op, <<root>>, <<>>, TRUE)
     \/ /\ "error" \in Faults /\ taken # {}
        /\ tlist' = tlist /\ Did(op, <<root>>, <<>>, FALSE)
     \/ /\ force /\ taken # {}
        /\ tlist' = Pruned(tlist, patterns) /\ Did(op, <<root>>, <<>>, TRUE)

Add(root, force) == Copy("add", root, AddWalk(tlist, root), force) /\ UNCHANGED slist
Pull(root, force) == Copy("pull", root, PullWalk(root), force) /\ UNCHANGED slist

-----------------------------------------------------------------------------
(* The user edits a list with an editor that leaves the last line as it    *)
(* was typed: a pattern, one with a note behind it, a comment; or an old   *)
(* entry of the source list.                                               *)
EditTargetList(l) ==
  /\ Room(tlist)
  /\ tlist' = [lines |-> Append(tlist.lines, l), open |-> TRUE]
  /\ Did("edit", <<>>, <<>>, TRUE)
  /\ UNCHANGED slist

EditSourceList(s) ==
  /\ Room(slist)
  /\ slist' = [lines |-> Append(slist.lines, Line(Literal(SourceOf(s)))), open |-> FALSE]
  /\ Did("edit", <<>>, <<>>, TRUE)
  /\ UNCHANGED tlist

NoList == [lines |-> <<>>, open |-> FALSE]
Init ==
  /\ tlist = NoList /\ slist = NoList
  /\ last = [op |-> "none", target |-> <<>>, source |-> <<>>, ok |-> TRUE]
  /\ acts = 0

UserLines == {Comment} \cup [pat : UserPatterns, noted : BOOLEAN]

Rest == acts = MaxActs /\ UNCHANGED vars

Next ==
  \/ \E t \in AllPaths : IgnorePaths(<<t>>, <<>>) \/ IgnorePaths(<<>>, <<t>>) \/ IgnorePaths(<<t>>, <<t>>)
  \/ \E p \in UserPatterns : IgnorePattern(p)
  \/ \E p \in UserPatterns \cup {Literal(t) : t \in AllPaths} : RemoveRecord(p)
  \/ \E root \in Roots, force \in BOOLEAN : Add(root, force) \/ Pull(root, force)
  \/ \E l \in UserLines : EditTargetList(l)
  \/ \E s \in Files : EditSourceList(s)
  \/ Rest

Spec == Init /\ [][Next]_vars

-----------------------------------------------------------------------------
ListTypeOK(list) ==
  /\ list \in [lines : Seq([pat : Patterns \cup {NoPattern}, noted : BOOLEAN]), open : BOOLEAN]
  /\ list.open => list.lines # <<>>

IgnoreTypeOK ==
  /\ ListTypeOK(tlist) /\ ListTypeOK(slist)
  /\ last.ok \in BOOLEAN /\ acts \in 0..MaxActs

(* README.md:155, what ignore is for.  Right after it succeeded, every path
   it named is ignored, with everything below - whatever the list held and
   however its last line ended.  (A pattern anchored at an end that matched
   the directory before is left as the only entry; it need not reach below.) *)
IgnoreHolds ==
  last.op = "ignore" /\ last.ok =>
    /\ \A i \in DOMAIN last.target :
         LET t == last.target[i]
             p == Matching(tlist, t)
         IN /\ p # NoPattern
            /\ p.start \/ p.end \/ \A f \in Below(t) : Ignored(tlist, f)
    /\ \A i \in DOMAIN last.source : MatchingSource(slist, last.source[i]) # NoPattern

(* The literal entry of a path catches that path only.  A file that ignore
   makes ignored lies below the path it was given, or is one that an entry
   made before names. *)
IgnoreIsExact ==
  [][last'.op = "ignore" /\ last'.target # <<>> =>
       \A f \in Files : Ignored(tlist', f) /\ ~Ignored(tlist, f) =>
         \/ \E i \in DOMAIN last'.target : Begins(last'.target[i], f)
         \/ \E i \in Entries(tlist) : MatchesComponents(tlist.lines[i].pat, f)]_vars

(* No command loses an entry of the lists it was not asked to drop: ignore
   --remove drops one record and no other, add and pull with --force entries
   that match a file below their PATH, and ignore rewrites an old entry of
   the source file it names; notes and comments survive them all. *)
EntriesKept ==
  [][/\ \A l \in Range(tlist.lines) \ Range(tlist'.lines) :
          /\ ~l.noted
          /\ \/ last'.op = "remove" /\ \A k \in Range(tlist.lines) \ Range(tlist'.lines) : k = l
             \/ last'.op \in {"add", "pull"} /\ \E f \in Below(last'.target[1]) : MatchesComponents(l.pat, f)
     /\ \A l \in Range(slist.lines) \ Range(slist'.lines) :
          /\ ~l.noted /\ last'.op = "ignore" /\ last'.source # <<>>
          /\ Ignored(slist', SourceOf(last'.source[1])) \/ Ignored(slist', Dotless(SourceOf(last'.source[1])))]_vars

(* lib.rs:1246, the probe "never matches a real sub-pattern unless it is a
   glob that matches everything - and then pruning is still correct": a
   directory the walk leaves out holds no file that is not ignored. *)
PruneHidesNothing == \A f \in Files \ AddWalk(tlist, <<>>) : Ignored(tlist, f)
=============================================================================
