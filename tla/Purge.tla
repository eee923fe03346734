------------------------------- MODULE Purge -------------------------------
(***************************************************************************)
(* `dfm purge` (commands/purge.rs): checks the recorded pairs, removes the *)
(* config file, replaces managed symlinks by copies of their pointees, and *)
(* removes the source and the state directory; errors are collected and    *)
(* the command goes on.  A process may be killed at any step and purge run *)
(* again.  Every managed name has one source file, plain or encrypted.     *)
(***************************************************************************)
EXTENDS Compare, FiniteSets

CONSTANTS
  Names,         \* the managed names
  Encrypted,     \* those whose source is encrypted
  Contents,      \* what the user may write into a file
  Link,          \* a target that is a symlink to its source
  Outside,       \* a target that is a symlink out of the source directory
  Situations,    \* how a name came to be managed, see Init
  UserActs,      \* subset of {"edit", "remove", "repoint"}
  Runs,          \* the invocations: records of RunType
  OwnNaming,     \* the config file sets another dot prefix or postfix
  Faults,        \* subset of {"error", "crash"}
  MaxClock       \* bound on the number of edits and runs

RunType == [force : BOOLEAN, keepSource : BOOLEAN, keepConfig : BOOLEAN,
            dryRun : BOOLEAN]
Kinds == {"added", "linked", "pulledLink", "cloned", "unmanaged"}
Dirs == {"config", "source", "state"}

Entries == [content : Contents, mtime : Nat]
SyncRecords == [mtime : Nat, sha256 : Contents]

ASSUME PurgeAssumption ==
  /\ Encrypted \subseteq Names /\ Situations \subseteq Kinds
  /\ Runs \subseteq RunType
  /\ OwnNaming \in BOOLEAN /\ MaxClock \in Nat
  /\ {Absent, Link, Outside} \cap Entries = {}
  /\ Absent \notin Names \cup Runs \cup SyncRecords

VARIABLES
  target,   \* name -> entry, Link, Outside or Absent
  source,   \* name -> entry or Absent
  recs,     \* the syncs table of state.toml: name -> record or Absent
  dirs,     \* which of the config file, source and state directory exist
  clock,
  run,      \* the invocation under way
  pc,
  todo,     \* recorded names whose symlink is still to be replaced
  current,  \* the one whose symlink has just been removed, or Absent
  named,    \* the run maps state keys to the right target paths
  failed,   \* the run collected an error
  checked,  \* history: names that were recorded and had a target, not
            \* leading elsewhere, when the run passed its check
  stranded  \* history: the state directory went while the source directory
            \* was to stay, or after an error had been collected

vars == <<target, source, recs, dirs, clock, run, pc, todo, current, named,
          failed, checked, stranded>>

Steps == {"idle", "check", "config", "links", "copy", "source", "state"}

PurgeTypeOK ==
  /\ target \in [Names -> Entries \cup {Link, Outside, Absent}]
  /\ source \in [Names -> Entries \cup {Absent}]
  /\ recs \in [Names -> SyncRecords \cup {Absent}]
  /\ dirs \subseteq Dirs
  /\ clock \in Nat /\ run \in Runs \cup {Absent} /\ pc \in Steps
  /\ todo \subseteq Names /\ current \in Names \cup {Absent} /\ checked \subseteq Names
  /\ named \in BOOLEAN /\ failed \in BOOLEAN /\ stranded \in BOOLEAN
  /\ pc = "idle" <=> run = Absent
  /\ pc = "copy" <=> current # Absent

Recorded == {n \in Names : recs[n] # Absent}
Regular(e) == e \notin {Absent, Link, Outside}

(* calc_working_dir_paths and read_state both succeed *)
Resolved == {"source", "state"} \subseteq dirs

(* symlink_metadata of the target path the key is mapped to *)
SeenTarget(n) == IF named THEN target[n] ELSE Absent

-----------------------------------------------------------------------------
Edit(n) ==
  /\ "edit" \in UserActs /\ pc = "idle" /\ clock < MaxClock
  /\ clock' = clock + 1
  /\ \E c \in Contents :
       LET e == [content |-> c, mtime |-> clock + 1] IN
       \/ /\ target[n] \notin {Link, Outside}
          /\ target' = [target EXCEPT ![n] = e]
          /\ UNCHANGED source
       \/ /\ "source" \in dirs     \* in the source, or through the symlink
          /\ source' = [source EXCEPT ![n] = e]
          /\ UNCHANGED target
  /\ UNCHANGED <<recs, dirs, run, pc, todo, current, named, failed, checked,
                 stranded>>

Unlink(n) ==
  /\ pc = "idle" /\ target[n] # Absent
  /\ \/ "remove" \in UserActs /\ target' = [target EXCEPT ![n] = Absent]
     \/ "repoint" \in UserActs /\ target' = [target EXCEPT ![n] = Outside]
  /\ UNCHANGED <<source, recs, dirs, clock, run, pc, todo, current, named,
                 failed, checked, stranded>>

Rest == pc = "idle" /\ UNCHANGED vars

-----------------------------------------------------------------------------
(* main reads the state and the config, which falls back to the defaults   *)
Start(r) ==
  /\ pc = "idle" /\ clock < MaxClock
  /\ clock' = clock + 1
  /\ run' = r
  /\ pc' = "check"
  /\ named' = ("config" \in dirs \/ ~OwnNaming)
  /\ failed' = FALSE /\ checked' = {} /\ todo' = {}
  /\ UNCHANGED <<target, source, recs, dirs, current, stranded>>

(* Recorded pairs the safety check compares: a symlink is left out, and so *)
(* is a pair that cannot be compared because a side is missing.            *)
Comparable == {n \in Recorded : Regular(SeenTarget(n)) /\ source[n] # Absent}

(* un_pulled or un_pushed; an error of the comparison counts as neither *)
Compared(n) == CompareFiles(IF n \in Encrypted THEN "enc" ELSE "plain",
                            target[n], source[n], recs[n])
UnsyncedTarget(n) == Compared(n) \in {"TargetModified", "BothModified"} \* mutant
Unsynced(n) ==
  Compared(n) \in {"SourceModified", "TargetModified", "BothModified"}

FinishHalf == pc' = "idle" /\ run' = Absent /\ todo' = {} /\ UNCHANGED current \* mutant
Finish == pc' = "idle" /\ run' = Absent /\ todo' = {} /\ current' = Absent

(* The pre-flight check, skipped when nothing is deleted or --force is given *)
Check ==
  /\ pc = "check"
  /\ checked' = IF Resolved
                THEN {n \in Recorded : target[n] \notin {Absent, Outside}}
                ELSE {}
  /\ IF /\ Resolved /\ ~run.keepSource /\ ~run.force /\ ~run.dryRun
        /\ \E n \in Comparable : Unsynced(n)
     THEN Finish
     ELSE pc' = "config" /\ UNCHANGED <<run, todo, current>>
  /\ UNCHANGED <<target, source, recs, dirs, clock, named, failed, stranded>>

(* One removal of the sequence: it works, or its error is collected *)
Removes(dir) ==
  \/ dirs' = dirs \ {dir} /\ UNCHANGED failed
  \/ /\ "error" \in Faults /\ dir \in dirs
     /\ dirs' \in {dirs, dirs \ {dir}} /\ failed' = TRUE

LinksAnyway == Recorded                                           \* mutant
LinksToReplace == IF Resolved /\ ~run.keepSource THEN Recorded ELSE {}

RemoveConfig ==
  /\ pc = "config"
  /\ IF run.keepConfig \/ run.dryRun THEN UNCHANGED <<dirs, failed>>
                                     ELSE Removes("config")
  /\ pc' = "links"
  /\ todo' = LinksToReplace
  /\ UNCHANGED <<target, source, recs, clock, run, current, named, checked,
                 stranded>>

(* replace_managed_symlinks, for one recorded name: the symlink goes ...   *)
RemoveLink(n) ==
  /\ pc = "links" /\ n \in todo
  /\ todo' = todo \ {n}
  /\ \/ /\ SeenTarget(n) # Link \/ run.dryRun
        /\ UNCHANGED <<target, pc, current, failed>>
     \/ /\ SeenTarget(n) = Link /\ ~run.dryRun
        /\ target' = [target EXCEPT ![n] = Absent]
        /\ current' = n
        /\ pc' = "copy"
        /\ UNCHANGED failed
     \/ /\ SeenTarget(n) = Link /\ ~run.dryRun /\ "error" \in Faults
        /\ failed' = TRUE
        /\ UNCHANGED <<target, pc, current>>
  /\ UNCHANGED <<source, recs, dirs, clock, run, named, checked, stranded>>

(* ... and a copy of its pointee takes its place, a plain source: no       *)
(* command makes a link to an encrypted one.  A copy that fails is         *)
(* reported, and the command goes on.                                      *)
CopyPointee ==
  /\ pc = "copy"
  /\ \/ /\ source[current] # Absent
        /\ target' = [target EXCEPT ![current] =
                         [content |-> source[current].content, mtime |-> clock]]
        /\ UNCHANGED failed
     \/ /\ source[current] = Absent \/ "error" \in Faults
        /\ failed' = TRUE
        /\ UNCHANGED target
  /\ pc' = "links"
  /\ current' = Absent
  /\ UNCHANGED <<source, recs, dirs, clock, run, todo, named, checked, stranded>>

LinksDone ==
  /\ pc = "links" /\ todo = {}
  /\ pc' = "source"
  /\ UNCHANGED <<target, source, recs, dirs, clock, run, todo, current, named,
                 failed, checked, stranded>>

(* remove_dir_all stops at the first error: some files are already gone *)
RemoveSource ==
  /\ pc = "source"
  /\ \/ /\ run.keepSource \/ run.dryRun \/ ~Resolved
        /\ UNCHANGED <<source, dirs, failed>>
     \/ /\ ~(run.keepSource \/ run.dryRun) /\ Resolved
        /\ source' = [n \in Names |-> Absent]
        /\ dirs' = dirs \ {"source"}
        /\ UNCHANGED failed
     \/ /\ ~(run.keepSource \/ run.dryRun) /\ Resolved /\ "error" \in Faults
        /\ \E gone \in SUBSET Names :
             source' = [n \in Names |-> IF n \in gone THEN Absent ELSE source[n]]
        /\ failed' = TRUE
        /\ UNCHANGED dirs
  /\ pc' = "state"
  /\ UNCHANGED <<target, recs, clock, run, todo, current, named, checked,
                 stranded>>

(* The source directory is left behind, as asked or after an error told    *)
LeftBehind == /\ run.keepSource \/ failed
              /\ "source" \in dirs /\ "state" \in dirs \ dirs'

RemoveStateEarly ==                                               \* mutant
  /\ pc \in {"source", "state"} /\ ~run.dryRun
  /\ Removes("state")
  /\ recs' = [n \in Names |-> IF "state" \in dirs' THEN recs[n] ELSE Absent]
  /\ stranded' = (stranded \/ LeftBehind)
  /\ Finish
  /\ UNCHANGED <<target, source, clock, named, checked>>
RemoveState ==
  /\ pc = "state"
  /\ IF run.dryRun THEN UNCHANGED <<dirs, failed>> ELSE Removes("state")
  /\ recs' = [n \in Names |-> IF "state" \in dirs' THEN recs[n] ELSE Absent]
  /\ stranded' = (stranded \/ LeftBehind)
  /\ Finish
  /\ UNCHANGED <<target, source, clock, named, checked>>

Crash ==
  /\ "crash" \in Faults /\ pc # "idle"
  /\ Finish
  /\ UNCHANGED <<target, source, recs, dirs, clock, named, failed, checked,
                 stranded>>

-----------------------------------------------------------------------------
(* added: by add or pull.  linked: by add -s.  pulledLink: by pull -s on a *)
(* machine that has no record of the file.  cloned: a source not pulled.   *)
InitTarget(kind, e) == CASE kind \in {"added", "unmanaged"} -> e
                         [] kind \in {"linked", "pulledLink"} -> Link
                         [] OTHER -> Absent

Init ==
  /\ \E kind \in [Names -> Situations], c \in [Names -> Contents] :
       /\ \A n \in Encrypted : kind[n] \notin {"linked", "pulledLink"}
       /\ target = [n \in Names |->
                      InitTarget(kind[n], [content |-> c[n], mtime |-> 0])]
       /\ source = [n \in Names |-> IF kind[n] = "unmanaged" THEN Absent
                                    ELSE [content |-> c[n], mtime |-> 0]]
       /\ recs = [n \in Names |-> IF kind[n] \in {"added", "linked"}
                                  THEN [mtime |-> 0, sha256 |-> c[n]]
                                  ELSE Absent]
  /\ dirs = Dirs
  /\ clock = 0 /\ run = Absent /\ pc = "idle" /\ todo = {} /\ current = Absent
  /\ named = TRUE /\ failed = FALSE /\ checked = {} /\ stranded = FALSE

Process == \/ Check \/ RemoveConfig \/ CopyPointee \/ LinksDone
           \/ \E n \in todo : RemoveLink(n)
           \/ RemoveSource \/ RemoveState

Next == \/ \E r \in Runs : Start(r)
        \/ Process \/ Crash
        \/ \E n \in Names : Edit(n) \/ Unlink(n)
        \/ Rest

Spec == Init /\ [][Next]_vars

-----------------------------------------------------------------------------
ByPurge == pc # "idle" /\ <<pc, todo>>' # <<pc, todo>>
Removed(n) == source[n] # Absent /\ source'[n] = Absent
HeldByTarget(n) == Regular(target[n]) /\ target[n].content = source[n].content

(* An unforced purge that maps the state keys to the right targets and met *)
(* no error deletes the source of a recorded name that had a target when   *)
(* the check was passed only once the target is a regular file with the    *)
(* same content: in-sync pairs stay, links have been replaced, and         *)
(* modified pairs have made the run give up.  Earlier purges may have been *)
(* interrupted anywhere, as long as the config, if it changes the naming,  *)
(* is still there; a link they took away without replacing it is a missing *)
(* target.                                                                 *)
CheckedSurvives ==
  [][ByPurge /\ ~run.force /\ ~failed' /\ named =>
       \A n \in checked : Removed(n) => HeldByTarget(n)]_vars

(* Whatever an earlier purge has done.  The config goes first, and once it *)
(* is gone its naming is too: the check and the replacement of links then  *)
(* look for other targets (purge.rs:167, 103).  Does not hold (section 5   *)
(* of the README here), and no run checks it.                              *)
RepeatedPurgeChecks ==
  [][ByPurge /\ ~run.force /\ ~failed' =>
       \A n \in checked : Removed(n) => HeldByTarget(n)]_vars

(* Whatever has failed.  Links are replaced "so removing the source        *)
(* directory does not leave dangling symlinks or lose the files they point *)
(* to" (purge.rs:203-205), but a copy that fails does not keep the source  *)
(* directory from being removed (purge.rs:339, 231).  Does not hold        *)
(* (section 5 of the README here), and no run checks it.                   *)
ErrorsLoseNothing ==
  [][ByPurge /\ ~run.force /\ named =>
       \A n \in checked : Removed(n) => HeldByTarget(n)]_vars

(* The end of a run that was asked to keep nothing and tells no error      *)
ReportsAllGone ==
  /\ pc = "state" /\ pc' = "idle" /\ "state" \notin dirs' /\ ~failed'
  /\ ~(run.keepSource \/ run.keepConfig \/ run.dryRun)

(* A purge asked to keep nothing that reports success has left nothing,    *)
(* wherever the purges before it were killed: what a killed one left can   *)
(* still be found by the next.  The exception is a source directory whose  *)
(* state directory went with --keep-source or after a reported error       *)
(* (purge.rs:231, 248): it cannot be found again, and is passed over.      *)
PurgeCompletes == [][ReportsAllGone => dirs' = {} \/ stranded']_vars

(* Without that exception: the state directory, without which the source   *)
(* directory is not found again, goes only after it.  Does not hold        *)
(* (section 5 of the README here), and no run checks it.                   *)
StateGoesLast ==
  [][ByPurge /\ ~run.keepSource /\ "state" \in dirs \ dirs' => "source" \notin dirs]_vars

(* A dry run changes nothing, --keep-source leaves the source and the      *)
(* symlinks into it alone, --keep-config-file the config file.             *)
KeepsWhatItShould ==
  [][ByPurge =>
       /\ run.dryRun => UNCHANGED <<target, source, recs, dirs>>
       /\ run.keepSource => UNCHANGED <<target, source>>
       /\ run.keepConfig => ("config" \in dirs <=> "config" \in dirs')]_vars

(* No symlink of ours is left dangling by a purge (README 2.10: "Managed   *)
(* symlinks are replaced by regular copies of their pointees").            *)
(* Does not hold (section 5 of the README here), and no run checks it.     *)
NoDanglingLink ==
  pc = "idle" => \A n \in Names : target[n] = Link => source[n] # Absent

(* An unforced purge that meets no error deletes no un-pulled file, one    *)
(* whose target is missing (README 2.10 and 2.12).                         *)
(* Does not hold (section 5 of the README here), and no run checks it.     *)
UnpulledIsKept ==
  [][ByPurge /\ ~run.force /\ ~failed' =>
       \A n \in Names : Removed(n) => target[n] # Absent]_vars
=============================================================================
