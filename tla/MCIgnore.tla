------------------------------ MODULE MCIgnore ------------------------------
(***************************************************************************)
(* Small instances of the ignore lists for TLC.                            *)
(***************************************************************************)
EXTENDS Ignore

log == [marks |-> <<>>, stem |-> "log"]
etc == [marks |-> <<".">>, stem |-> "etc"]
x == [marks |-> <<>>, stem |-> "x"]

(* log  .etc/log  .etc/x *)
FewFiles == {<<log>>, <<etc, log>>, <<etc, x>>}

(* log  .etc/log/x *)
DeepFiles == {<<log>>, <<etc, log, x>>}

(* ^log$   ^log   .*log *)
GivenPatterns ==
  LET EndsInLog == {n \in UsedNames : n.stem = "log"}
  IN {[parts |-> <<Word(log)>>, start |-> TRUE, end |-> TRUE, deep |-> TRUE],
      [parts |-> <<Word(log)>>, start |-> TRUE, end |-> FALSE, deep |-> TRUE],
      [parts |-> <<[whole |-> EndsInLog, within |-> EndsInLog]>>, start |-> FALSE, end |-> FALSE, deep |-> TRUE]}
=============================================================================
