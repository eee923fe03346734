------------------------------- MODULE Links -------------------------------
(***************************************************************************)
(* Symbolic links under `add`, `pull`, `sync` and `forget`, for one name   *)
(* outside every ignore pattern, never encrypted.                          *)
(*                                                                         *)
(* The target is missing, a regular file or a link.  Its sources are the   *)
(* plain file dot_f and the pointer file dot_f.symlink, whose text is the  *)
(* pointee of a link the user has.  `add -s` moves the target to the plain *)
(* source and leaves a relative link to it, `pull -s` makes an absolute    *)
(* one.  The copy of a regular file is one step here (module Dfm divides   *)
(* it); what is specific to links is divided at every system call.         *)
(***************************************************************************)
EXTENDS Compare, Sequences, FiniteSets

CONSTANTS
  Contents,      \* texts the user writes into a regular file
  UserPointees,  \* where the links the user makes lead to
  Runs,          \* the invocations of dfm: records of RunType
  Faults,        \* subset of {"denied", "error", "crash"}
  MaxActs        \* bound: acts of the user and runs started

(* own, ownRel: the plain source, absolute and relative; stray: another    *)
(* file of the source directory; out, rel: files outside both directories; *)
(* "./rel" is rel spelled differently.  Empty: a pointer file just created.*)
Pointees == {"own", "ownRel", "stray", "out", "rel", "./rel"}
Relative == {"ownRel", "rel", "./rel"}
Others == {"stray", "out", "rel"}
Empty == ""
Texts == Contents \cup Pointees \cup {Empty}
Slots == {"plain", "pointer"}

File(c) == [kind |-> "file", text |-> c]
Link(p) == [kind |-> "link", text |-> p]
Objects == {File(c) : c \in Texts} \cup {Link(p) : p \in Texts \ {Empty}}

RunType == [cmd : {"add", "pull", "sync", "forget"}, force : BOOLEAN,
            symlink : BOOLEAN, path : {"all", "target"} \cup Slots,
            here : BOOLEAN]        \* run in the directory of the target
NoRun == [cmd |-> "none", force |-> FALSE, symlink |-> FALSE,
          path |-> "all", here |-> FALSE]

ASSUME LinksAssumption ==
  /\ Runs \subseteq RunType
  /\ UserPointees \subseteq Pointees
  /\ Contents \cap (Pointees \cup {Empty}) = {}
  /\ Absent \notin Texts /\ Absent \notin Objects /\ Absent \notin [sha256 : Texts]
  /\ MaxActs \in Nat

VARIABLES
  target,   \* the object at the target path, or Absent
  source,   \* slot -> text or Absent
  other,    \* what the other pointees hold
  backup,   \* .f.dfm-backup beside the target: a text or Absent
  touched,  \* slots whose mtime is newer than their record on disk
  stamped,  \* slots the run under way has recorded
  disk,     \* the records of state.toml: slot -> text digested, or Absent
  mem,      \* those the run works on
  run, pc, todo, tasks, blocked,
  denied,   \* history: what the run was refused and skipped
  acts,     \* acts so far
  before    \* history: the target, as read when the run began

files == <<target, source, other, backup>>
vars == <<files, touched, stamped, disk, mem, run, pc, todo, tasks, blocked, denied,
          acts, before>>

Phases == {"idle", "check", "exec", "copied", "aside", "linked", "removed",
           "emptied", "commit", "failed"}
Ops == {"push", "pull", "record", "addlink", "point", "mklink",
        "delete", "unlist", "unlink", "stray"}
Tasks == [op : Ops, slot : Slots, text : Texts]
NoRecords == [s \in Slots |-> Absent]

LinksTypeOK ==
  /\ target \in Objects \cup {Absent}
  /\ source \in [Slots -> Texts \cup {Absent}]
  /\ other \in [Others -> Texts \cup {Absent}]
  /\ backup \in Texts \cup {Absent}
  /\ touched \subseteq Slots /\ stamped \subseteq Slots
  /\ disk \in [Slots -> Texts \cup {Absent}]
  /\ mem \in [Slots -> Texts \cup {Absent}]
  /\ run \in Runs \cup {NoRun}
  /\ pc \in Phases
  /\ todo \subseteq {"target"} \cup Slots
  /\ tasks \in Seq(Tasks)
  /\ blocked \in BOOLEAN
  /\ denied \subseteq {"check", "task"}
  /\ acts \in 0..MaxActs
  /\ before \in Texts \cup {Absent}
  /\ pc = "idle" <=> run = NoRun
  /\ pc \in {"copied", "aside", "linked", "removed", "emptied"}
       => tasks # << >>

Unrecorded == UNCHANGED <<touched, stamped, mem>>

-----------------------------------------------------------------------------
(* Where a link leads, and what is read there *)
Where(p) == CASE p \in {"own", "ownRel"} -> "plain"
              [] p \in {"rel", "./rel"} -> "rel"
              [] p \in {"stray", "out"} -> p
              [] OTHER -> "nowhere"
At(place) == IF place = "plain" THEN source["plain"]
             ELSE IF place \in Others THEN other[place] ELSE Absent
IsLink == target # Absent /\ target.kind = "link"
IsFile == target # Absent /\ target.kind = "file"
Read(t) == IF t = Absent THEN Absent
           ELSE IF t.kind = "link" THEN At(Where(t.text)) ELSE t.text
(* Path::exists follows links *)
TargetExists == Read(target) # Absent
InSource(place) == place \in {"plain", "stray"}

Entry(c) == [content |-> c]
Verdict(s) ==
  CompareByContent(Entry(target.text), Entry(source[s]),
                   IF mem[s] = Absent THEN Absent ELSE [sha256 |-> mem[s]])

(* read_symlink_pointer = the link's own text *)
AnyPointerMatches == TRUE                                         \* mutant
PointerMatches == source["pointer"] = target.text
PointerExists == source["pointer"] # Absent

(* What the check of one path queues; whether it blocks or ends the run *)
Skip == [queue |-> << >>, blocks |-> FALSE, aborts |-> FALSE]
QueueAll(q) == [Skip EXCEPT !.queue = q]
Task(op, s, p) == [op |-> op, slot |-> s, text |-> p]
Queue(op, s) == QueueAll(<<Task(op, s, Empty)>>)
QueueLink(op, p) == QueueAll(<<Task(op, "pointer", p)>>)
Abort == [Skip EXCEPT !.aborts = TRUE]
Contested(op, s) == IF run.force THEN [Queue(op, s) EXCEPT !.blocks = TRUE]
                                 ELSE [Skip EXCEPT !.blocks = TRUE]
ForceOrAbort(op, s) == IF run.force THEN Queue(op, s) ELSE Abort

(* add, handle_target_symlink: the pointee is canonicalized as if it were  *)
(* relative to the current directory, but recorded as it is spelled.       *)
Dangling(p) == At(Where(p)) = Absent \/ (p \in Relative /\ ~run.here)
PointerIsRight == PointerExists /\ PointerMatches
AddLink ==
  LET p == target.text IN
  IF Dangling(p) THEN IF run.path = "target" THEN Abort ELSE Skip
  ELSE IF run.force \/ (PointerExists /\ ~PointerIsRight)
       THEN QueueLink("point", p)
  ELSE IF PointerIsRight \/ InSource(Where(p)) THEN Skip
  ELSE QueueLink("point", p)

(* add, handle_target_file, with and without --symlink *)
AddFile ==
  LET op == IF run.symlink THEN "addlink" ELSE "push"
      v == Verdict("plain")
  IN  IF source["plain"] = Absent THEN Queue(op, "plain")
      ELSE CASE v \in {"BothModified", "SourceModified"} -> Contested(op, "plain")
             [] v = "TargetModified" -> Queue(op, "plain")
             [] v = "NonModified" -> IF run.force THEN Queue(op, "plain") ELSE Skip
             [] OTHER -> IF target.text = source["plain"]
                         THEN Queue("record", "plain") ELSE Contested(op, "plain")

AddCheck(p) == IF p # "target" THEN Skip
               ELSE IF IsLink THEN AddLink
               ELSE IF IsFile THEN AddFile ELSE Abort

(* pull, handle_missing_target *)
Fetch == IF run.symlink THEN QueueLink("mklink", "own") ELSE Queue("pull", "plain")
PullMissing == IF source["plain"] # Absent THEN Fetch
               ELSE IF PointerExists THEN QueueLink("mklink", source["pointer"])
               ELSE Abort

(* pull, handle_existing_target: a link that leads somewhere *)
PullLink ==
  IF Where(target.text) = "plain" THEN Skip
  ELSE IF PointerExists
       THEN IF PointerMatches THEN Skip ELSE QueueLink("mklink", source["pointer"])
  ELSE IF InSource(Where(target.text)) THEN QueueLink("mklink", "own") ELSE Skip

PullFile ==
  LET v == Verdict("plain") IN
  IF source["plain"] = Absent THEN Skip
  ELSE CASE v = "SourceModified" -> Queue("pull", "plain")
         [] v = "NonModified" -> IF run.force THEN Queue("pull", "plain") ELSE Skip
         [] v = "NeverSynchronized" -> Contested("pull", "plain")
         [] OTHER -> ForceOrAbort("pull", "plain")

PullTarget == IF ~TargetExists THEN PullMissing
              ELSE IF IsLink THEN PullLink ELSE PullFile

(* pull, handle_source_path *)
PullSource(s) ==
  IF source[s] # Absent /\ ~TargetExists
  THEN IF s = "pointer" THEN QueueLink("mklink", source[s]) ELSE Fetch
  ELSE IF s = "pointer" /\ IsLink /\ PointerExists /\ ~PointerMatches
       THEN QueueLink("mklink", source[s])
  ELSE PullTarget
PullCheck(p) == IF p = "target" THEN PullTarget ELSE PullSource(p)

(* resolve_source_variant; sync, handle_symlink and handle_regular_file *)
Resolved == IF source["plain"] # Absent THEN "plain" ELSE "pointer"
SyncLink ==
  IF /\ Resolved = "pointer" /\ PointerExists
     /\ mem["pointer"] # Absent /\ ~PointerMatches
  THEN QueueLink("point", target.text) ELSE Skip
SyncFile ==
  LET s == Resolved
      v == Verdict(s)
  IN  IF source[s] = Absent \/ mem[s] = Absent THEN Skip
      ELSE CASE v = "SourceModified" -> Queue("pull", s)
             [] v = "TargetModified" -> Queue("push", s)
             [] v = "BothModified" -> [Skip EXCEPT !.blocks = TRUE]
             [] OTHER -> Skip
SyncCheck(p) == IF p # "target" THEN Skip
                ELSE IF IsLink THEN SyncLink
                ELSE IF IsFile THEN SyncFile ELSE Abort

(* forget, handle_symlink_pointer *)
ForgetPointer == IF PointerMatches \/ run.force THEN Queue("delete", "pointer")
                                                ELSE Skip
(* forget, handle_target_symlink: only an absolute link into the source    *)
(* directory is deleted.  Without a pointer file the pointee is processed  *)
(* as a source path (handle_source_path), which deletes it.                *)
PointsIntoSource(p) == p \in {"own", "stray"}
ForgetLink ==
  LET p == target.text
      link == IF PointsIntoSource(p) THEN QueueLink("unlink", p).queue ELSE << >>
      pointee == CASE At(Where(p)) = Absent -> << >>
                   [] Where(p) = "plain" -> Queue("delete", "plain").queue
                   [] Where(p) = "stray" -> QueueLink("stray", p).queue
                   [] OTHER -> << >>
  IN  QueueAll(link \o (IF PointerExists THEN ForgetPointer.queue ELSE pointee))

ForgetFile ==
  LET v == Verdict("plain") IN
  IF source["plain"] = Absent THEN Skip
  ELSE IF v \in {"NonModified", "NeverSynchronized"} THEN Queue("delete", "plain")
  ELSE Contested("delete", "plain")

ForgetSource(s) ==
  IF source[s] = Absent THEN IF TargetExists THEN Skip ELSE Abort
  ELSE IF s = "plain" THEN Queue("delete", s)
  ELSE IF ~TargetExists THEN Skip
  ELSE IF IsLink THEN ForgetPointer
  ELSE Abort                                 \* read_link of a regular file

ForgetCheck(p) ==
  CASE p \in Slots -> ForgetSource(p)
    [] p = "target" /\ IsLink -> ForgetLink
    [] p = "target" /\ IsFile -> ForgetFile
    [] OTHER -> IF source[Resolved] # Absent THEN Queue("delete", Resolved)
                                             ELSE Abort

Outcome(p) == CASE run.cmd = "add" -> AddCheck(p)
                [] run.cmd = "pull" -> PullCheck(p)
                [] run.cmd = "sync" -> SyncCheck(p)
                [] OTHER -> ForgetCheck(p)

-----------------------------------------------------------------------------
(* The user, between two runs: files, links, and what git brings *)

Act == /\ pc = "idle" /\ acts < MaxActs
       /\ acts' = acts + 1
Idle == UNCHANGED <<stamped, disk, mem, run, pc, todo, tasks, blocked, denied, before>>

UserTarget == /\ Act /\ Idle
              /\ target' \in {File(c) : c \in Contents}
                             \cup {Link(p) : p \in UserPointees} \cup {Absent}
              /\ UNCHANGED <<source, other, backup, touched>>
UserSource(s) ==
  /\ Act /\ Idle
  /\ \E c \in (IF s = "plain" THEN Contents ELSE UserPointees) \cup {Absent} :
       source' = [source EXCEPT ![s] = c]
  /\ touched' = touched \cup {s}
  /\ UNCHANGED <<target, other, backup>>
UserOther == /\ Act /\ Idle
             /\ other' = [other EXCEPT !["out"] = Absent]
             /\ UNCHANGED <<target, source, backup, touched>>
Rest == pc = "idle" /\ UNCHANGED vars

-----------------------------------------------------------------------------
(* A run of dfm *)

Traversed(r) ==
  IF r.path # "all" THEN {r.path}
  ELSE IF r.cmd = "pull" THEN {s \in Slots : source[s] # Absent}
  ELSE {p \in {"target"} : target # Absent}

Start(r) == /\ Act
            /\ run' = r /\ pc' = "check"
            /\ mem' = disk
            /\ todo' = Traversed(r)
            /\ denied' = {}
            /\ before' = Read(target)
            /\ UNCHANGED <<files, touched, stamped, disk, tasks, blocked>>

Checked(p, o) ==
  /\ pc = "check" /\ p \in todo
  /\ tasks' = tasks \o o.queue
  /\ blocked' = (blocked \/ o.blocks)
  /\ pc' = IF o.aborts THEN "failed" ELSE "check"
  /\ todo' = todo \ {p}
  /\ Unrecorded /\ UNCHANGED <<files, disk, run, acts, before>>
Check(p) == Checked(p, Outcome(p)) /\ UNCHANGED denied

(* Permission denied while a path is looked at: it is skipped, with what   *)
(* forget has queued of a link before it reads the pointer or the pointee. *)
Unread(p) ==
  {Skip} \cup {QueueLink("unlink", q) : q \in
                 {q \in Texts : /\ run.cmd = "forget" /\ p = "target" /\ IsLink
                                /\ q = target.text /\ PointsIntoSource(q)}}
CheckDenied(p) == /\ "denied" \in Faults
                  /\ \E o \in Unread(p) : Checked(p, o)
                  /\ denied' = denied \cup {"check"}

(* forget of everything: records whose source no queued task deletes *)
Orphans == IF run.cmd = "forget" /\ run.path = "all"
           THEN {s \in Slots : mem[s] # Absent
                   /\ ~\E i \in DOMAIN tasks : tasks[i].op = "delete"
                                               /\ tasks[i].slot = s}
           ELSE {}
Stale(s) == source[s] # Absent /\ s \in touched
OrphanTask(s) == IF s \notin Orphans \/ (Stale(s) /\ ~run.force) THEN << >>
                 ELSE Queue(IF source[s] = Absent THEN "unlist" ELSE "delete",
                            s).queue

Decide ==
  /\ pc = "check" /\ todo = {}
  /\ tasks' = tasks \o OrphanTask("plain") \o OrphanTask("pointer")
  /\ blocked' = (blocked \/ \E s \in Orphans : Stale(s))
  /\ pc' = IF blocked' /\ ~run.force THEN "failed"
           ELSE IF tasks' = << >> THEN "commit" ELSE "exec"
  /\ Unrecorded /\ UNCHANGED <<files, disk, run, todo, denied, acts, before>>

-----------------------------------------------------------------------------
(* Tasks, in the order they were queued *)

InTask(phase, op) == pc = phase /\ tasks # << >> /\ Head(tasks).op = op
Steady == UNCHANGED <<disk, run, todo, blocked, acts, before>>
During == Steady /\ UNCHANGED denied
TaskDone == pc' = "exec" /\ tasks' = Tail(tasks)
GoesDequeued(phase) == pc' = phase /\ tasks' = Tail(tasks)        \* mutant
Goes(phase) == pc' = phase /\ UNCHANGED tasks

(* update_sync_state *)
Recorded(s) == /\ mem' = [mem EXCEPT ![s] = source'[s]]
               /\ touched' = touched \cup {s}
               /\ stamped' = stamped \cup {s}

(* sync_file_copy to the source, of a regular target *)
WriteIn(s) == /\ source' = [source EXCEPT ![s] = target.text]
              /\ UNCHANGED <<target, other, backup>>
CopyIn(s) == WriteIn(s) /\ Recorded(s)
Push == /\ InTask("exec", "push")
        /\ CopyIn(Head(tasks).slot)
        /\ TaskDone /\ During

(* sync_file_copy to the target: through a dangling link it makes the file *)
(* the link leads to.                                                      *)
WriteOut(c) ==
  /\ IF IsLink
     THEN /\ other' = [o \in Others |-> IF o = Where(target.text) THEN c
                                                               ELSE other[o]]
          /\ UNCHANGED target
     ELSE target' = File(c) /\ UNCHANGED other
  /\ UNCHANGED <<source, backup>>
InPull == InTask("exec", "pull") /\ source[Head(tasks).slot] # Absent
Pull == /\ InPull
        /\ WriteOut(source[Head(tasks).slot])
        /\ Recorded(Head(tasks).slot)
        /\ TaskDone /\ During

(* Permission denied in a copy: the task is skipped and the run goes on,   *)
(* whether nothing was written yet, or the copy was but its record not, or *)
(* only the mtimes were refused.                                           *)
Refused == /\ "denied" \in Faults
           /\ denied' = denied \cup {"task"}
           /\ TaskDone /\ Steady
CopyInDenied ==
  LET s == Head(tasks).slot IN
  /\ InTask("exec", "push") \/ InTask("exec", "addlink")
  /\ \/ UNCHANGED files /\ Unrecorded
     \/ WriteIn(s) /\ touched' = touched \cup {s} /\ UNCHANGED <<stamped, mem>>
     \/ CopyIn(s)
  /\ Refused
PullDenied ==
  LET s == Head(tasks).slot IN
  /\ InPull
  /\ \/ UNCHANGED files /\ Unrecorded
     \/ WriteOut(source[s]) /\ Unrecorded
     \/ /\ WriteOut(source[s])
        /\ mem' = [mem EXCEPT ![s] = source[s]]
        /\ stamped' = stamped \cup {s} /\ UNCHANGED touched
  /\ Refused

(* UpdateSync *)
RecordOnly == /\ InTask("exec", "record")
              /\ UNCHANGED <<target, source, other, backup>>
              /\ Recorded(Head(tasks).slot)
              /\ TaskDone /\ During

(* CopyAndSymlink: copy to the source, target aside, link, backup away *)
CopyFirst == /\ InTask("exec", "addlink")
             /\ CopyIn("plain")
             /\ Goes("copied") /\ During
RemoveTarget == /\ pc = "copied"                                  \* mutant
                /\ target' = Absent
                /\ Goes("aside") /\ During
                /\ UNCHANGED <<source, other, backup>> /\ Unrecorded
MoveAside == /\ pc = "copied"
             /\ target' = Absent /\ backup' = target.text
             /\ Goes("aside") /\ During
             /\ UNCHANGED <<source, other>> /\ Unrecorded
MakeLink == /\ pc = "aside"
            /\ target' = Link("ownRel")
            /\ Goes("linked") /\ During
            /\ UNCHANGED <<source, other, backup>> /\ Unrecorded
DropBackup == /\ pc = "linked"
              /\ backup' = Absent
              /\ TaskDone /\ During
              /\ UNCHANGED <<target, source, other>> /\ Unrecorded

(* CreateSymlinkFilePointer and sync's UpdatePointer: the pointer file is  *)
(* truncated, written and recorded.                                        *)
TruncatePointer == /\ InTask("exec", "point")
                   /\ source' = [source EXCEPT !["pointer"] = Empty]
                   /\ touched' = touched \cup {"pointer"}
                   /\ Goes("emptied") /\ During
                   /\ UNCHANGED <<target, other, backup, stamped, mem>>
CanonicalPointer(p) == IF p = "./rel" THEN "rel" ELSE p           \* mutant
PointerText(p) == p
PointerWritten ==
  /\ source' = [source EXCEPT !["pointer"] = PointerText(Head(tasks).text)]
  /\ UNCHANGED <<target, other, backup>>
WritePointer == /\ pc = "emptied"
                /\ PointerWritten /\ Recorded("pointer")
                /\ TaskDone /\ During

(* sync skips a pointer file it is denied, at any point of the same; add   *)
(* ends with the error.                                                    *)
PointDenied ==
  /\ run.cmd = "sync" /\ (pc = "emptied" \/ InTask("exec", "point"))
  /\ \/ UNCHANGED files /\ Unrecorded
     \/ /\ pc = "emptied" /\ PointerWritten
        /\ touched' = touched \cup {"pointer"} /\ UNCHANGED <<stamped, mem>>
     \/ pc = "emptied" /\ PointerWritten /\ Recorded("pointer")
  /\ Refused

(* CreateOrUpdateSymlink: whatever is at the target goes first; no record  *)
RemoveOld == /\ InTask("exec", "mklink")
             /\ target' = Absent
             /\ Goes("removed") /\ During
             /\ UNCHANGED <<source, other, backup>> /\ Unrecorded
StripDot(p) == IF p = "./rel" THEN "rel" ELSE p
CreateLink == /\ pc = "removed" /\ Head(tasks).text # Empty
              /\ target' = Link(StripDot(Head(tasks).text))
              /\ TaskDone /\ During
              /\ UNCHANGED <<source, other, backup>> /\ Unrecorded

(* forget: a source, the target link, or the other source it leads to *)
Delete ==
  LET t == Head(tasks) IN
  /\ pc = "exec" /\ tasks # << >>
  /\ t.op \in {"delete", "unlist", "unlink", "stray"}
  /\ \/ /\ source' = IF t.op = "delete" THEN [source EXCEPT ![t.slot] = Absent]
                                        ELSE source
        /\ target' = IF t.op = "unlink" THEN Absent ELSE target
        /\ other' = IF t.op = "stray" THEN [other EXCEPT !["stray"] = Absent]
                                      ELSE other
     \/ "error" \in Faults /\ UNCHANGED <<source, target, other>>
  /\ mem' = IF t.op \in {"delete", "unlist"} THEN [mem EXCEPT ![t.slot] = Absent]
                                             ELSE mem
  /\ TaskDone /\ During
  /\ UNCHANGED <<backup, touched, stamped>>

TasksDone == /\ pc = "exec" /\ tasks = << >>
             /\ pc' = "commit"
             /\ During /\ UNCHANGED <<files, tasks>> /\ Unrecorded

(* Permission denied when pull creates the link: the old one is gone *)
LinkDenied == /\ pc = "removed" /\ Refused
              /\ UNCHANGED files /\ Unrecorded

(* An error of a task ends the command.  Only when the link of `add -s`    *)
(* cannot be made is something undone: the target is renamed back, unless  *)
(* that fails too.                                                         *)
Restored == /\ target' = File(backup)
            /\ backup' = Absent
FailTask ==
  /\ tasks # << >>
  /\ \/ "error" \in Faults /\ pc \notin {"check", "commit", "failed", "idle"}
        /\ Head(tasks).op \notin {"delete", "unlist", "unlink", "stray"}
     \/ pc = "removed" /\ Head(tasks).text = Empty
     \/ pc = "exec" /\ Head(tasks).op = "pull"
        /\ source[Head(tasks).slot] = Absent
  /\ \/ pc = "aside" /\ Restored
     \/ UNCHANGED <<target, backup>>
  /\ pc' = "failed" /\ UNCHANGED tasks
  /\ During /\ UNCHANGED <<source, other>> /\ Unrecorded

Quit == /\ pc' = "idle" /\ run' = NoRun
        /\ mem' = NoRecords
        /\ todo' = {} /\ tasks' = << >> /\ blocked' = FALSE /\ denied' = {}
        /\ stamped' = {}
        /\ UNCHANGED <<files, acts, before>>
Commit == /\ pc = "commit" /\ Quit
          /\ disk' = mem
          /\ touched' = touched \ stamped
Fail == /\ pc = "failed" /\ Quit
        /\ disk' = IF run.cmd = "forget" THEN mem ELSE disk
        /\ UNCHANGED touched
Crash == "crash" \in Faults /\ pc # "idle" /\ Quit /\ UNCHANGED <<disk, touched>>

-----------------------------------------------------------------------------
Init == /\ target = Absent
        /\ source = [s \in Slots |-> Absent]
        /\ other \in [Others -> Contents]
        /\ \A o, p \in Others : other[o] = other[p]
        /\ backup = Absent /\ touched = {} /\ stamped = {}
        /\ disk = NoRecords /\ mem = NoRecords
        /\ run = NoRun /\ pc = "idle"
        /\ todo = {} /\ tasks = << >> /\ blocked = FALSE /\ denied = {}
        /\ acts = 0 /\ before = Absent

User == UserTarget \/ (\E s \in Slots : UserSource(s)) \/ UserOther
AddLinkSteps == CopyFirst \/ MoveAside \/ MakeLink \/ DropBackup
PointerSteps == TruncatePointer \/ WritePointer
PullLinkSteps == RemoveOld \/ CreateLink
Denials == CopyInDenied \/ PullDenied \/ PointDenied \/ LinkDenied
Process == \/ \E p \in todo : Check(p) \/ CheckDenied(p)
           \/ Decide \/ Push \/ Pull \/ RecordOnly \/ AddLinkSteps
           \/ PointerSteps \/ PullLinkSteps \/ Delete \/ Denials \/ FailTask
           \/ TasksDone \/ Commit \/ Fail
Next == (\E r \in Runs : Start(r)) \/ Process \/ Crash \/ User \/ Rest
Spec == Init /\ [][Next]_vars

-----------------------------------------------------------------------------
(* Properties *)

(* add takes nothing away: whatever it does, fails to do or is killed at,  *)
(* the target still reads as it did when the run began, through the new    *)
(* link or not, or else its content is in the backup file ("the content is *)
(* preserved if creating the symlink fails", add.rs).                      *)
AddKeepsContent ==
  [][run.cmd = "add" => Read(target)' = before \/ backup' = before]_vars

(* When a pull has succeeded, a link whose source is a pointer file leads  *)
(* where the pointer says, however the pointer spells it, also when a step *)
(* of making it was refused; unless the pull could not look at the name.   *)
PulledLinkLeads ==
  /\ pc = "commit" /\ run.cmd = "pull" /\ "check" \notin denied
  /\ IsLink /\ PointerExists /\ source["plain"] = Absent
  => Where(target.text) = Where(source["pointer"])

(* An add or a sync that has succeeded and was refused nothing leaves      *)
(* nothing to do: checked again with the state it is about to store, the   *)
(* name queues no task.  (A name it had to skip still has its task, and    *)
(* the run succeeds; and `add -s` may make a link where a pointer file was *)
(* left over.)                                                             *)
AddSettles ==
  /\ pc = "commit" /\ run.cmd \in {"add", "sync"} /\ ~run.force /\ denied = {}
  /\ ~(run.symlink /\ PointerExists)
  => \A p \in Traversed(run) : Outcome(p).queue = << >>

(* forget of a link to its own source removes "the source file and the     *)
(* symlink" (README 2.6): it never leaves the link without its source.     *)
(* Does not hold (section 5 of the README here), and no run checks it.     *)
ForgetTakesTheLink ==
  [][/\ pc = "exec" /\ pc' = "commit" /\ run.cmd = "forget"
     /\ IsLink /\ Where(target.text) = "plain" /\ before # Absent
     => source["plain"] # Absent]_vars
=============================================================================
