-------------------------------- MODULE Dfm --------------------------------
(***************************************************************************)
(* The core of dfm: `add`, `pull`, `sync` and `forget` over regular files, *)
(* one process at a time, interleaved with the user who edits both sides   *)
(* (an editor on the target, `git pull` on the source).                    *)
(*                                                                         *)
(* A path <<f, side>> is the target file of f ("target"), or one of its    *)
(* two possible source files: plain (dot_f) and encrypted (dot_f.encrypted)*)
(* whose content is the plaintext it decrypts to.  A slot is a source path;*)
(* its state key indexes the sync records.                                 *)
(*                                                                         *)
(* A run reads state.toml, checks every traversed path, decides, executes  *)
(* the queued tasks one by one, each in several steps, and writes the      *)
(* state file if (forget: even unless) the command succeeded.  Symlinks,   *)
(* ignore patterns and directories are modelled elsewhere.                 *)
(***************************************************************************)
EXTENDS Compare, FiniteSets

CONSTANTS
  Files,          \* the managed names, relative to the target directory
  Contents,       \* what the user may write into a file
  Torn,           \* the content of a file whose copy was cut short
  Managed,        \* slots managed and in sync to begin with
  UserPaths,      \* the paths the user writes and removes
  Runs,           \* the invocations of dfm: records of RunType
  ForceEncrypted, \* files that match force_encryption_for
  SourceInTarget, \* whether the source directory lies inside the target one
  EditPhases,     \* values of pc at which the user may touch a file
  EditSides,      \* the sides the user may touch while a run is under way
  Faults,         \* subset of {"denied", "error", "crash"}
  Reverts,        \* whether an edit may restore the content of a record
  MaxClock        \* bound: no edit and no run starts once it is reached

Slots == Files \X {"plain", "enc"}
Targets == Files \X {"target"}
Paths == Targets \cup Slots

RunType == [cmd : {"add", "pull", "sync", "forget"}, force : BOOLEAN,
            encrypt : BOOLEAN, dryRun : BOOLEAN, paths : SUBSET Paths]

Phases == {"idle", "check", "exec", "copy", "record", "stamp", "drop",
           "commit", "failed"}

AllContents == Contents \cup {Torn}
Entries == [content : AllContents, mtime : Nat]
Records == [mtime : Nat, sha256 : AllContents]

ASSUME CoreAssumption ==
  /\ Managed \subseteq Slots /\ UserPaths \subseteq Paths
  /\ Runs \subseteq RunType
  /\ ForceEncrypted \subseteq Files
  /\ SourceInTarget \in BOOLEAN /\ Reverts \in BOOLEAN
  /\ EditPhases \subseteq Phases
  /\ MaxClock \in Nat
  /\ Torn \notin Contents /\ Absent \notin Contents /\ Torn # Absent
  /\ Absent \notin Entries \cup Records

VARIABLES
  file,     \* the file system: path -> entry or Absent
  disk,     \* the syncs table of state.toml: slot -> record or Absent
  mem,      \* the StateObject the run works on
  clock,    \* time; every edit and every write of a file gets a new instant
  run,      \* the invocation under way
  pc,       \* its phase
  todo,     \* traversed paths still to be checked
  tasks,    \* queued tasks still to be executed
  task,     \* the task being executed
  blocked,  \* conflict_detected, or error_messages / error_list not empty
  \* history, read by no step of dfm:
  synced,   \* slot -> the content it and the target last had in common
  raced,    \* paths the user touched while the run was under way
  done      \* tasks the run completed

vars == <<file, disk, mem, clock, run, pc, todo, tasks, task, blocked,
          synced, raced, done>>

Tasks == [op : {"push", "pull", "record", "delete", "unlist"}, slot : Slots]
NoRun == [cmd |-> "none", force |-> FALSE, encrypt |-> FALSE,
          dryRun |-> FALSE, paths |-> {}]
NoTask == [op |-> "none", slot |-> <<>>]
NoRecords == [s \in Slots |-> Absent]

TypeOK ==
  /\ file \in [Paths -> Entries \cup {Absent}]
  /\ disk \in [Slots -> Records \cup {Absent}]
  /\ mem \in [Slots -> Records \cup {Absent}]
  /\ clock \in Nat
  /\ run \in Runs \cup {NoRun}
  /\ pc \in Phases
  /\ todo \subseteq Paths
  /\ tasks \subseteq Tasks
  /\ task \in Tasks \cup {NoTask}
  /\ blocked \in BOOLEAN
  /\ synced \in [Slots -> AllContents \cup {Absent}]
  /\ raced \subseteq Paths
  /\ done \subseteq Tasks
  /\ pc = "idle" <=> run = NoRun
  /\ pc \in {"copy", "record", "stamp", "drop"} <=> task # NoTask

Exists(p) == file[p] # Absent
TargetOf(s) == <<s[1], "target">>
Plain(f) == <<f, "plain">>
Enc(f) == <<f, "enc">>
Same(p, q) == file[p].content = file[q].content

(* What the pair of a slot looks like under the given records *)
Verdict(s, recs) == CompareFiles(s[2], file[TargetOf(s)], file[s], recs[s])

(* resolve_source_variant: the encrypted source wins over the plain one *)
Resolved(f) == IF Exists(Enc(f)) THEN Enc(f) ELSE Plain(f)

-----------------------------------------------------------------------------
(* What the check of one traversed path does: it queues tasks, it blocks   *)
(* the run unless forced, or it returns an error at once.                  *)

Skip == [queue |-> {}, blocks |-> FALSE, aborts |-> FALSE]
Queue(op, s) == [Skip EXCEPT !.queue = {[op |-> op, slot |-> s]}]
Abort == [Skip EXCEPT !.aborts = TRUE]
BlockedUnnoticed == Skip                                          \* mutant
Blocked == [Skip EXCEPT !.blocks = TRUE]
(* queued with --force, otherwise left out and reported after the traversal*)
ContestedUnnoticed(op, s) == Queue(op, s)                         \* mutant
Contested(op, s) == IF run.force THEN [Queue(op, s) EXCEPT !.blocks = TRUE]
                                 ELSE Blocked
(* require_force inside the traversal: the command ends here *)
NeverAbort(op, s) == Queue(op, s)                                 \* mutant
ForceOrAbort(op, s) == IF run.force THEN Queue(op, s) ELSE Abort

(* add compares the bytes of a source never synchronized with the target;  *)
(* those of a ciphertext never equal it.                                   *)
IdenticalAssumed(s) == TRUE                                       \* mutant
Identical(s) == s[2] = "plain" /\ Same(s, TargetOf(s))

(* add, second half of handle_target_file: compare with the chosen source  *)
AddPair(s) ==
  LET v == Verdict(s, mem) IN
  IF ~Exists(s) THEN Queue("push", s)
  ELSE CASE v \in {"BothModified", "SourceModified"} -> Contested("push", s)
         [] v = "NonModified" -> IF run.force THEN Queue("push", s) ELSE Skip
         [] v = "TargetModified" -> Queue("push", s)
         [] v = "NeverSynchronized" ->
              IF Identical(s) THEN Queue("record", s) ELSE Contested("push", s)
         [] OTHER -> Abort

(* add, handle_target_file: a file with an encrypted source, or one that   *)
(* is to be encrypted, is compared with a leftover plain source first,     *)
(* because the conversion deletes it.                                      *)
AddTarget(f) ==
  LET encrypt == run.encrypt \/ f \in ForceEncrypted
      v == Verdict(Plain(f), mem)
  IN  IF ~(Exists(Enc(f)) \/ encrypt) THEN AddPair(Plain(f))
      ELSE IF ~Exists(Plain(f)) THEN AddPair(Enc(f))
      ELSE IF v \in {"BothModified", "SourceModified"}
           THEN IF run.force THEN [AddPair(Enc(f)) EXCEPT !.blocks = TRUE]
                             ELSE Blocked
      ELSE IF /\ v = "NeverSynchronized"
              /\ ~Identical(Plain(f))
              /\ ~run.force
           THEN Skip
      ELSE AddPair(Enc(f))

AddCheck(p) == IF ~Exists(p) THEN Abort
               ELSE IF p[2] = "target" THEN AddTarget(p[1]) ELSE Skip

(* pull, handle_encrypted_timestamps *)
PullEncrypted(f) ==
  LET v == Verdict(Enc(f), mem) IN
  CASE v = "SourceModified" -> Queue("pull", Enc(f))
    [] v = "NonModified" -> IF run.force THEN Queue("pull", Enc(f)) ELSE Skip
    [] v = "Inconsistent" -> Abort
    [] OTHER -> ForceOrAbort("pull", Enc(f))

(* pull, handle_existing_target: the plain source is looked up first *)
PullExisting(f) ==
  LET v == Verdict(Plain(f), mem) IN
  IF ~Exists(Plain(f)) THEN IF Exists(Enc(f)) THEN PullEncrypted(f) ELSE Skip
  ELSE CASE v = "SourceModified" -> Queue("pull", Plain(f))
         [] v = "NonModified" ->
              IF run.force THEN Queue("pull", Plain(f)) ELSE Skip
         [] v = "NeverSynchronized" -> Contested("pull", Plain(f))
         [] OTHER -> ForceOrAbort("pull", Plain(f))

(* pull, handle_missing_target: nothing on the target side to lose *)
PullMissing(f) ==
  IF Exists(Plain(f)) THEN Queue("pull", Plain(f))
  ELSE IF Exists(Enc(f)) THEN Queue("pull", Enc(f))
  ELSE Abort

(* pull, handle_target_path *)
PullTarget(f) ==
  IF Exists(<<f, "target">>) THEN PullExisting(f) ELSE PullMissing(f)

(* pull, handle_source_path *)
PullSource(s) ==
  IF Exists(s) /\ ~Exists(TargetOf(s)) THEN Queue("pull", s)
  ELSE IF Exists(TargetOf(s)) /\ s[2] = "enc"
       THEN IF Exists(s) THEN PullEncrypted(s[1]) ELSE Abort
  ELSE PullTarget(s[1])

PullCheck(p) == IF p[2] = "target" THEN PullTarget(p[1]) ELSE PullSource(p)

(* sync, handle_regular_file: only pairs with a record, in the direction   *)
(* of the only modified side; a conflict is never queued.                  *)
SyncTarget(f) ==
  LET s == Resolved(f)
      v == Verdict(s, mem)
  IN  IF ~Exists(s) \/ mem[s] = Absent THEN Skip
      ELSE CASE v = "SourceModified" -> Queue("pull", s)
             [] v = "TargetModified" -> Queue("push", s)
             [] v = "BothModified" -> Blocked
             [] v = "NonModified" -> Skip
             [] OTHER -> Abort

SyncCheck(p) == IF ~Exists(p) THEN Abort
                ELSE IF p[2] = "target" THEN SyncTarget(p[1]) ELSE Skip

(* forget, handle_target_file *)
ForgetTarget(f) ==
  LET s == Resolved(f)
      v == Verdict(s, mem)
  IN  IF ~Exists(s) THEN Skip
      ELSE CASE v \in {"NonModified", "NeverSynchronized"} -> Queue("delete", s)
             [] v = "Inconsistent" -> Abort
             [] OTHER -> Contested("delete", s)

(* forget, handle_missing_target: a named target that is gone is resolved  *)
(* through the source variants; one that resolves to nothing ends the run. *)
MissingTarget(f) ==
  IF Exists(Resolved(f)) THEN Queue("delete", Resolved(f)) ELSE Abort

(* forget: handle_source_path deletes the source it is given *)
ForgetCheck(p) ==
  CASE p[2] = "target" /\ Exists(p) -> ForgetTarget(p[1])
    [] p[2] = "target" /\ ~Exists(p) -> MissingTarget(p[1])
    [] p[2] # "target" /\ Exists(p) -> Queue("delete", p)
    [] OTHER -> IF Exists(TargetOf(p)) THEN Skip ELSE Abort

Outcome(p) == CASE run.cmd = "add" -> AddCheck(p)
                [] run.cmd = "pull" -> PullCheck(p)
                [] run.cmd = "sync" -> SyncCheck(p)
                [] OTHER -> ForgetCheck(p)

(* Permission denied while a path is checked: it is left out with a warning*)
Outcomes(p) == {Outcome(p)} \cup (IF "denied" \in Faults THEN {Skip} ELSE {})

(* forget without PATH: records the traversal did not reach.  Here alone   *)
(* a modification is judged by the source's mtime for plain files as well. *)
Orphans ==
  IF run.cmd = "forget" /\ run.paths = {}
  THEN {s \in Slots : mem[s] # Absent
                      /\ [op |-> "delete", slot |-> s] \notin tasks}
  ELSE {}
Stale(s) == Exists(s) /\ file[s].mtime > mem[s].mtime
OrphanTasks ==
  {[op |-> IF Exists(s) THEN "delete" ELSE "unlist", slot |-> s] :
     s \in {o \in Orphans : run.force \/ ~Stale(o)}}

-----------------------------------------------------------------------------
(* The user *)

Touch(p) == /\ p \in UserPaths
            /\ pc \in EditPhases
            /\ pc # "idle" => p[2] \in EditSides
            /\ raced' = IF pc = "idle" THEN {} ELSE raced \cup {p}
            /\ UNCHANGED <<disk, mem, run, pc, todo, tasks, task, blocked,
                           synced, done>>

(* not the content some record was made of *)
Fresh(c) == \A s \in Slots : disk[s] # Absent => disk[s].sha256 # c

Edit(p, c) == /\ clock < MaxClock
              /\ ~Reverts => Fresh(c)
              /\ Touch(p)
              /\ clock' = clock + 1
              /\ file' = [file EXCEPT ![p] = [content |-> c, mtime |-> clock + 1]]

Remove(p) == /\ Exists(p)
             /\ Touch(p)
             /\ file' = [file EXCEPT ![p] = Absent]
             /\ UNCHANGED clock

(* Nobody does anything: the program is not obliged to be invoked *)
Rest == pc = "idle" /\ UNCHANGED vars

-----------------------------------------------------------------------------
(* A run of dfm *)

(* The paths given, or everything below the default directory: the target  *)
(* directory, for pull the source directory.  A target directory that      *)
(* contains the source directory is walked with it.                        *)
Traversed(r) ==
  IF r.paths # {} THEN r.paths
  ELSE {p \in Paths : /\ Exists(p)
                      /\ IF r.cmd = "pull" THEN p \in Slots
                         ELSE p \in Targets \/ SourceInTarget}

(* main: read_state, then the command lists the paths it has to check *)
Start(r) ==
  /\ pc = "idle" /\ clock < MaxClock
  /\ run' = r
  /\ pc' = "check"
  /\ mem' = disk
  /\ todo' = Traversed(r)
  /\ UNCHANGED <<file, disk, clock, tasks, task, blocked, synced, raced, done>>

(* One round of the loop over the traversed paths, in any order *)
Check(p) ==
  /\ pc = "check" /\ p \in todo
  /\ \E o \in Outcomes(p) :
       /\ tasks' = tasks \cup o.queue
       /\ blocked' = (blocked \/ o.blocks)
       /\ pc' = IF o.aborts THEN "failed" ELSE "check"
       /\ synced' = [s \in Slots |->
                       IF [op |-> "record", slot |-> s] \in o.queue
                       THEN file[s].content ELSE synced[s]]
  /\ todo' = todo \ {p}
  /\ UNCHANGED <<file, disk, mem, clock, run, task, raced, done>>

(* tasks.is_empty(), or every task is only described *)
NothingToDoAtAll(queue) == queue = {}                             \* mutant
NothingToDo(queue) == queue = {} \/ run.dryRun

(* After the traversal: conflicts and errors end the run unless forced *)
Decide ==
  /\ pc = "check" /\ todo = {}
  /\ tasks' = tasks \cup OrphanTasks
  /\ blocked' = (blocked \/ \E s \in Orphans : Stale(s))
  /\ pc' = IF blocked' /\ ~run.force THEN "failed"
           ELSE IF NothingToDo(tasks') THEN "commit"
           ELSE "exec"
  /\ UNCHANGED <<file, disk, mem, clock, run, todo, task, synced, raced, done>>

From(t) == IF t.op = "push" THEN TargetOf(t.slot) ELSE t.slot
To(t) == IF t.op = "push" THEN t.slot ELSE TargetOf(t.slot)
Encrypts(t) == t.op = "push" /\ t.slot[2] = "enc"
Copies(t) == t.op \in {"push", "pull"}

Write(p, c) == file' = [file EXCEPT ![p] = [content |-> c, mtime |-> clock']]

(* fs::copy and restore_streamed truncate the destination before they      *)
(* write it: from here to FinishCopy it holds part of the content.         *)
BeginCopy(t) ==
  /\ pc = "exec" /\ t \in tasks
  /\ Copies(t) /\ ~Encrypts(t) /\ Exists(From(t))
  /\ clock' = clock + 1
  /\ Write(To(t), Torn)
  /\ pc' = "copy"
  /\ task' = t
  /\ tasks' = tasks \ {t}
  /\ UNCHANGED <<disk, mem, run, todo, blocked, synced, raced, done>>

FinishCopy ==
  /\ pc = "copy" /\ Exists(From(task))
  /\ UNCHANGED clock
  /\ Write(To(task), file[From(task)].content)
  /\ pc' = "record"
  /\ synced' = [synced EXCEPT ![task.slot] = file[From(task)].content]
  /\ UNCHANGED <<disk, mem, run, todo, tasks, task, blocked, raced, done>>

(* write_encrypted_file: a temporary sibling, renamed into place *)
Encrypt(t) ==
  /\ pc = "exec" /\ t \in tasks
  /\ Encrypts(t) /\ Exists(From(t))
  /\ clock' = clock + 1
  /\ Write(t.slot, file[From(t)].content)
  /\ pc' = "record"
  /\ task' = t
  /\ tasks' = tasks \ {t}
  /\ synced' = [synced EXCEPT ![t.slot] = file[From(t)].content]
  /\ UNCHANGED <<disk, mem, run, todo, blocked, raced, done>>

(* add's UpdateSync task goes straight to update_sync_state *)
RecordOnly(t) ==
  /\ pc = "exec" /\ t \in tasks /\ t.op = "record"
  /\ pc' = "record"
  /\ task' = t
  /\ tasks' = tasks \ {t}
  /\ UNCHANGED <<file, disk, mem, clock, run, todo, blocked, synced, raced, done>>

(* update_sync_state, first half: the digest of the source file as it is   *)
(* now, not of what was copied, goes into the record.                      *)
RecordedOnce(s) ==                                                \* mutant
  [mtime |-> clock, sha256 |-> IF mem[s] = Absent THEN file[s].content
                                                  ELSE mem[s].sha256]
RecordedTarget(s) ==                                              \* mutant
  [mtime |-> clock, sha256 |-> IF Exists(TargetOf(s))
                               THEN file[TargetOf(s)].content ELSE Torn]
Recorded(s) == [mtime |-> clock, sha256 |-> file[s].content]
Record ==
  LET s == task.slot IN
  /\ pc = "record" /\ Exists(s)
  /\ mem' = [mem EXCEPT ![s] = Recorded(s)]
  /\ pc' = "stamp"
  /\ UNCHANGED <<file, disk, clock, run, todo, tasks, task, blocked,
                 synced, raced, done>>

TaskKept == /\ pc' = "exec"                                       \* mutant
            /\ task' = task
            /\ done' = done \cup {task}
TaskDone == /\ pc' = "exec"
            /\ task' = NoTask
            /\ done' = done \cup {task}

(* update_sync_state, second half: both files get the record's mtime.      *)
(* add then deletes a plain source the encrypted one replaces.             *)
StampedSource(s) == [file EXCEPT ![s].mtime = mem[s].mtime]       \* mutant
Stamped(s) == [file EXCEPT ![s].mtime = mem[s].mtime,
                           ![TargetOf(s)].mtime = mem[s].mtime]
Stamp ==
  LET s == task.slot IN
  /\ pc = "stamp" /\ Exists(s) /\ Exists(TargetOf(s))
  /\ file' = Stamped(s)
  /\ IF run.cmd = "add" /\ Encrypts(task)
     THEN pc' = "drop" /\ UNCHANGED <<task, done>>
     ELSE TaskDone
  /\ UNCHANGED <<disk, mem, clock, run, todo, tasks, blocked, synced, raced>>

DropPlain ==
  LET s == Plain(task.slot[1]) IN
  /\ pc = "drop"
  /\ IF Exists(s) THEN /\ file' = [file EXCEPT ![s] = Absent]
                       /\ mem' = [mem EXCEPT ![s] = Absent]
                  ELSE UNCHANGED <<file, mem>>
  /\ TaskDone
  /\ UNCHANGED <<disk, clock, run, todo, tasks, blocked, synced, raced>>

(* forget: the source goes, or is left when its removal fails, and the     *)
(* record goes in either case (phases 1 and 2 of the command; nothing      *)
(* reads the records in between).                                          *)
Delete(t) ==
  /\ pc = "exec" /\ t \in tasks /\ t.op \in {"delete", "unlist"}
  /\ \/ t.op = "delete" /\ file' = [file EXCEPT ![t.slot] = Absent]
     \/ t.op = "delete" /\ "error" \in Faults /\ UNCHANGED file
     \/ t.op = "unlist" /\ UNCHANGED file
  /\ mem' = [mem EXCEPT ![t.slot] = Absent]
  /\ tasks' = tasks \ {t}
  /\ done' = done \cup {t}
  /\ UNCHANGED <<disk, clock, run, pc, todo, task, blocked, synced, raced>>

TasksDoneIfAny ==                                                 \* mutant
  /\ pc = "exec" /\ tasks = {} /\ done # {}
  /\ pc' = "commit"
  /\ UNCHANGED <<file, disk, mem, clock, run, todo, tasks, task, blocked,
                 synced, raced, done>>
TasksDone ==
  /\ pc = "exec" /\ tasks = {}
  /\ pc' = "commit"
  /\ UNCHANGED <<file, disk, mem, clock, run, todo, tasks, task, blocked,
                 synced, raced, done>>

(* Permission denied when a copy opens its files: the task is skipped *)
SkipTask(t) ==
  /\ "denied" \in Faults /\ pc = "exec" /\ t \in tasks /\ Copies(t)
  /\ tasks' = tasks \ {t}
  /\ UNCHANGED <<file, disk, mem, clock, run, pc, todo, task, blocked,
                 synced, raced, done>>

(* update_sync_state sets the target's mtime first: what an error leaves   *)
HalfStamped ==
  {file} \cup
  {[file EXCEPT ![TargetOf(s)].mtime = mem[s].mtime] :
     s \in {s \in {task.slot} : Exists(TargetOf(s))}}

(* Permission denied when mtimes are set: a plain copy is skipped with its *)
(* record already made, the encrypted tasks and UpdateSync return the error*)
StampDenied ==
  /\ "denied" \in Faults /\ pc = "stamp"
  /\ file' \in HalfStamped
  /\ pc' = IF Copies(task) /\ task.slot[2] = "plain" THEN "exec" ELSE "failed"
  /\ task' = NoTask
  /\ UNCHANGED <<disk, mem, clock, run, todo, tasks, blocked,
                 synced, raced, done>>

(* What the next step of a task has to find on disk *)
Needs(t) == IF pc \in {"exec", "copy"} THEN {From(t)}
            ELSE IF pc = "record" THEN {t.slot}
            ELSE IF pc = "stamp" THEN {t.slot, TargetOf(t.slot)}
            ELSE {}
CannotGoOn(t) == "error" \in Faults \/ \E p \in Needs(t) : ~Exists(p)

(* Any other error of a task ends the command.  A decryption that fails    *)
(* removes its partly written target; a failed copy is left as it is.      *)
FailTask ==
  /\ \/ pc = "exec" /\ \E t \in tasks : Copies(t) /\ CannotGoOn(t)
     \/ pc \in {"copy", "record", "stamp", "drop"} /\ CannotGoOn(task)
  /\ IF pc = "copy" /\ task.slot[2] = "enc"
     THEN file' = [file EXCEPT ![To(task)] = Absent]
     ELSE file' \in IF pc = "stamp" THEN HalfStamped ELSE {file}
  /\ pc' = "failed"
  /\ task' = NoTask
  /\ UNCHANGED <<disk, mem, clock, run, todo, tasks, blocked, synced, raced, done>>

Quit == /\ pc' = "idle"
        /\ run' = NoRun
        /\ mem' = NoRecords
        /\ todo' = {}
        /\ tasks' = {}
        /\ task' = NoTask
        /\ blocked' = FALSE
        /\ raced' = {}
        /\ done' = {}
        /\ UNCHANGED <<file, clock, synced>>

(* with_state writes the state file after success only, and                *)
(* with_state_even_if_error (forget) after an error too.                   *)
Commit == /\ pc = "commit"
          /\ disk' = mem
          /\ Quit

Fail == /\ pc = "failed"
        /\ disk' = IF run.cmd = "forget" THEN mem ELSE disk
        /\ Quit

(* The process is killed; write_state is atomic (sibling file and rename) *)
Crash == /\ "crash" \in Faults /\ pc # "idle"
         /\ Quit
         /\ UNCHANGED disk

-----------------------------------------------------------------------------
(* A new installation, or one left in sync by earlier runs *)
InitialFile(content, p) ==
  IF \E s \in Managed : p = s \/ p = TargetOf(s)
  THEN [content |-> content[p[1]], mtime |-> 0] ELSE Absent

Init ==
  /\ \E content \in [Files -> Contents] :
       /\ file = [p \in Paths |-> InitialFile(content, p)]
       /\ disk = [s \in Slots |-> IF s \in Managed
                                 THEN [mtime |-> 0, sha256 |-> content[s[1]]]
                                 ELSE Absent]
       /\ synced = [s \in Slots |-> IF s \in Managed THEN content[s[1]]
                                                    ELSE Absent]
  /\ mem = NoRecords
  /\ clock = 0
  /\ run = NoRun
  /\ pc = "idle"
  /\ todo = {} /\ tasks = {} /\ task = NoTask
  /\ blocked = FALSE
  /\ raced = {} /\ done = {}

User == \/ \E p \in Paths, c \in Contents : Edit(p, c)
        \/ \E p \in Paths : Remove(p)

Execute == \/ \E t \in tasks : \/ BeginCopy(t) \/ Encrypt(t)
                              \/ RecordOnly(t) \/ Delete(t) \/ SkipTask(t)
           \/ FinishCopy \/ Record \/ Stamp \/ StampDenied \/ DropPlain
           \/ FailTask \/ TasksDone

Process == \/ \E p \in todo : Check(p)
           \/ Decide \/ Execute \/ Commit \/ Fail

Next == \/ \E r \in Runs : Start(r)
        \/ Process \/ Crash \/ User \/ Rest

Spec == Init /\ [][Next]_vars

(* A started process is scheduled until it ends *)
FairSpec == Spec /\ WF_vars(Process)
=============================================================================
