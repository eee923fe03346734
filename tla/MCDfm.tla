------------------------------- MODULE MCDfm -------------------------------
(***************************************************************************)
(* Small instances of the core for TLC: which invocations, which files.    *)
(***************************************************************************)
EXTENDS DfmProperties, Status

Invocations(cmds, forces, encrypts, paths) ==
  [cmd : cmds, force : forces, encrypt : encrypts, dryRun : {FALSE}, paths : paths]

WholeTree == {{}}
Named == {{p} : p \in Paths}
AllCommands == {"add", "pull", "sync", "forget"}

PlainSlots == {Plain(f) : f \in Files}
EncSlots == {Enc(f) : f \in Files}
PlainPaths == Targets \cup PlainSlots

(* every command, with and without --force, without PATH *)
WalkRuns == Invocations(AllCommands, BOOLEAN, {FALSE}, WholeTree)

(* ... also as a dry run *)
WalkAndDryRuns == WalkRuns \cup [cmd : AllCommands, force : BOOLEAN,
                                encrypt : {FALSE}, dryRun : {TRUE}, paths : WholeTree]

(* ... with any single PATH, and add --encrypt *)
PathRuns == Invocations(AllCommands, BOOLEAN, {FALSE}, WholeTree \cup Named)
            \cup Invocations({"add"}, BOOLEAN, {TRUE}, WholeTree)

(* ... for names that only ever have a plain source *)
PlainPathRuns ==
  Invocations(AllCommands, BOOLEAN, {FALSE}, WholeTree \cup {{p} : p \in PlainPaths})

(* nothing is forced: for the properties that do not hold *)
PoliteRuns == Invocations(AllCommands, {FALSE}, {FALSE}, WholeTree \cup Named)
=============================================================================
