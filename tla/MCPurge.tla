------------------------------ MODULE MCPurge ------------------------------
(***************************************************************************)
(* Small instances of purge for TLC.                                       *)
(***************************************************************************)
EXTENDS Purge

(* for the properties that do not hold *)
UnforcedRuns == [force : {FALSE}, keepSource : {FALSE}, keepConfig : {FALSE},
                 dryRun : {FALSE}]
=============================================================================
