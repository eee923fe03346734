---------------------------- MODULE MCEditTools ----------------------------
(***************************************************************************)
(* Small instances of merge and diff -e for TLC.                           *)
(***************************************************************************)
EXTENDS EditTools, TLC

Invoked(cmd, files) == [cmd |-> cmd, dryRun |-> FALSE, files |-> files]

(* merge of everything or of one path, diff -e of all paths in turn *)
MergesAndEdits == {Invoked("merge", {}), Invoked("edit", Files)}
                  \cup {Invoked("merge", {f}) : f \in Encrypted}

(* contents are only compared *)
Alike == Permutations(Contents)
=============================================================================
