-------------------------------- MODULE Paths --------------------------------
(***************************************************************************)
(* The two name spaces: a path relative to the target directory, and the   *)
(* path of its source relative to the source directory.  The mapping works *)
(* component by component: a hidden name gets the dot prefix instead of    *)
(* its dot, and names that look encoded are marked.                        *)
(*                                                                         *)
(* A name is a stem behind a sequence of marks, each a leading dot, the    *)
(* dot prefix ("dot_") or a tilde; a path is a sequence of names.          *)
(***************************************************************************)
EXTENDS Sequences, Naturals

CONSTANT Stems

Marks == {".", "dot_", "~"}
Names == [marks : Seq(Marks), stem : Stems]
IsPath(p) == p \in Seq(Names)

Marked(n, m) == n.marks # <<>> /\ Head(n.marks) = m
Without(n) == [marks |-> Tail(n.marks), stem |-> n.stem]
Under(m, n) == [marks |-> <<m>> \o n.marks, stem |-> n.stem]

(* filepath_in_source_dir: one component *)
Encode(n) ==
  IF Marked(n, ".") THEN Under("dot_", Without(n))
  ELSE IF Marked(n, "dot_") \/ Marked(n, "~") THEN Under("~", n)
  ELSE n

(* decode_source_rel_path: one component; without the dot for ignore lines *)
Decode(n, hiddenAsDot) ==
  IF Marked(n, "~") THEN Without(n)      \* "~~foo" loses one of two, too
  ELSE IF Marked(n, "dot_")
       THEN IF hiddenAsDot THEN Under(".", Without(n)) ELSE Without(n)
  ELSE n

SourceOf(path) == [i \in DOMAIN path |-> Encode(path[i])]
TargetOf(path) == [i \in DOMAIN path |-> Decode(path[i], TRUE)]
Dotless(path) == [i \in DOMAIN path |-> Decode(path[i], FALSE)]

Begins(prefix, path) == Len(prefix) <= Len(path) /\ \A i \in DOMAIN prefix : prefix[i] = path[i]
=============================================================================
