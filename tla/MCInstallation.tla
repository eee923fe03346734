--------------------------- MODULE MCInstallation ---------------------------
(***************************************************************************)
(* Small instances of the installation for TLC.                            *)
(***************************************************************************)
EXTENDS Installation

CONSTANTS k1, k2

InitCommand == [op |-> "init"]
StateCommands == [op : {"record"}, key : {k1, k2}] \cup [op : {"forget"}, key : {k1, k2}]
ConfigCommands == [op : {"add", "rm"}, key : {k1}] \cup [op : {"rmi"}, at : {0, 1}]

AllCommands == {InitCommand} \cup StateCommands \cup ConfigCommands
=============================================================================
