------------------------------ MODULE MCLinks ------------------------------
(***************************************************************************)
(* Small instances of Links for TLC.                                       *)
(***************************************************************************)
EXTENDS Links

Usual(cmds, forces, symlinks, paths) ==
  [cmd : cmds, force : forces, symlink : symlinks, path : paths, here : {TRUE}]

(* every command over everything and by name, from the target's directory  *)
(* and (it matters to add alone) from another one                          *)
LinkRuns ==
  Usual({"add", "pull"}, BOOLEAN, BOOLEAN, {"all", "target"})
  \cup Usual({"pull"}, BOOLEAN, BOOLEAN, Slots)
  \cup Usual({"sync"}, {FALSE}, {FALSE}, {"all"})
  \cup Usual({"forget"}, BOOLEAN, {FALSE}, {"all", "target"} \cup Slots)
  \cup {[cmd |-> "add", force |-> FALSE, symlink |-> FALSE, path |-> "all",
         here |-> FALSE]}

(* for ForgetTakesTheLink, which does not hold *)
ForgetRuns == Usual({"add"}, {FALSE}, {TRUE}, {"all"})
              \cup Usual({"pull"}, {FALSE}, {TRUE}, {"all"})
              \cup Usual({"forget"}, {FALSE}, {FALSE}, {"all", "target"})
=============================================================================
