---------------------------- MODULE LinksProofs ----------------------------
(***************************************************************************)
(* Theorems about links under add, pull, sync and forget, for every set of *)
(* invocations, pointees, contents and faults.                             *)
(***************************************************************************)
EXTENDS Links, SequenceTheorems, TLAPS

-----------------------------------------------------------------------------
(* The invariant                                                           *)

OpsOf(cmd) == CASE cmd = "add" -> {"push", "record", "addlink", "point"}
                [] cmd = "sync" -> {"push", "pull", "point"}
                [] cmd = "pull" -> {"pull", "mklink"}
                [] OTHER -> {"delete", "unlist", "unlink", "stray"}
TasksOf(cmd) == {t \in Tasks : t.op \in OpsOf(cmd)}

(* Which task the phases in the middle of one belong to                    *)
OpsInv ==
  /\ pc \in {"idle", "commit"} => tasks = << >>
  /\ pc # "idle" => tasks \in Seq(TasksOf(run.cmd))
  /\ pc \in {"copied", "aside", "linked"} => Head(tasks).op = "addlink"
  /\ pc = "emptied" => Head(tasks).op = "point"
  /\ pc = "removed" => Head(tasks).op = "mklink"

(* A run that looks at one path only queues one task at most.              *)
OneTask == tasks = << >> \/ \E t \in Tasks : tasks = <<t>>
OnePath == /\ OneTask
           /\ \A p, q \in todo : p = q
           /\ todo # {} => pc = "check" /\ tasks = << >> /\ todo = Traversed(run)

(* add and sync: what is copied from is a regular file, until add -s has   *)
(* moved it aside.                                                         *)
Reading == Head(tasks).op \in {"push", "record", "addlink"}
FileInv ==
  run.cmd \in {"add", "sync"} =>
    /\ OnePath
    /\ tasks # << >> /\ pc \in {"check", "exec", "copied"} /\ Reading => IsFile
    /\ pc = "aside" => backup # Absent

TypeInv == LinksTypeOK /\ OpsInv /\ FileInv

(* add: where the content of the target is                                 *)
KeptInv ==
  run.cmd = "add" =>
    /\ pc # "aside" => Read(target) = before \/ (pc = "failed" /\ backup = before)
    /\ pc \in {"copied", "aside", "linked"} => source["plain"] = before
    /\ pc = "aside" => backup = before
    /\ pc = "linked" => target = Link("ownRel")

(* pull of a name that has a pointer file and no plain source, and that it *)
(* may look at: the link is what the pointer says, or the only task is to  *)
(* make it.                                                                *)
LeadsThere == IsLink => Where(target.text) = Where(source["pointer"])
LeadsInv ==
  run.cmd = "pull" /\ "check" \notin denied /\ source["plain"] = Absent /\ PointerExists =>
    /\ OnePath
    /\ tasks # << >> => Head(tasks).op = "mklink" /\ Head(tasks).text = source["pointer"]
    /\ pc = "removed" => target = Absent
    /\ pc \in {"check", "exec", "commit"} /\ tasks = << >> /\ todo = {} => LeadsThere

(* An add or a sync without --force that was refused nothing: its task     *)
(* does all there is to do.                                                *)
Settled == \A p \in Traversed(run) : Outcome(p).queue = << >>
Suits(t) ==
  CASE t.op \in {"push", "pull", "record"} ->
         /\ IsFile /\ t.slot = IF run.cmd = "add" THEN "plain" ELSE Resolved
         /\ t.op = "record" => target.text = source[t.slot]
    [] t.op = "point" -> IsLink /\ t.text = target.text
    [] OTHER -> run.symlink
SettledInv ==
  run.cmd \in {"add", "sync"} /\ ~run.force /\ denied = {} =>
    /\ pc \in {"check", "exec", "emptied"} /\ tasks # << >> => Suits(Head(tasks))
    /\ pc \in {"copied", "aside", "linked"} => run.symlink /\ source["plain"] # Absent
    /\ pc = "linked" => target = Link("ownRel")
    /\ pc \notin {"check", "failed"} => ~blocked
    /\ pc \in {"check", "exec", "commit"} /\ tasks = << >> /\ todo = {} /\ ~blocked =>
         Settled \/ (run.symlink /\ PointerExists)

LinksInv == TypeInv /\ KeptInv /\ LeadsInv /\ SettledInv
-----------------------------------------------------------------------------
(* Sequences of at most one task                                           *)

(* What is added to, and left of, a list of tasks.                         *)
LEMMA TaskLists ==
  ASSUME NEW S
  PROVE  /\ << >> \in Seq(S)
         /\ \A t \in S : <<t>> \in Seq(S) /\ <<t>> # << >> /\ Head(<<t>>) = t
                         /\ Tail(<<t>>) = << >>
         /\ \A q \in Seq(S) : /\ << >> \o q = q /\ q \o << >> = q
                              /\ q # << >> => Head(q) \in S /\ Tail(q) \in Seq(S)
         /\ \A q, r \in Seq(S) : q \o r \in Seq(S)
<1>1. \A t \in S : <<t>> \in Seq(S) /\ <<t>> # << >> /\ Head(<<t>>) = t /\ Tail(<<t>>) = << >>
  OBVIOUS
<1>2. \A q \in Seq(S) : << >> \o q = q /\ q \o << >> = q
  OBVIOUS
<1>3. \A q \in Seq(S) : q # << >> => Head(q) \in S /\ Tail(q) \in Seq(S)
  OBVIOUS
<1>4. << >> \in Seq(S) /\ \A q, r \in Seq(S) : q \o r \in Seq(S)
  OBVIOUS
<1>. QED
  BY <1>1, <1>2, <1>3, <1>4

(* The parts of a task and of what a check returns.                        *)
LEMMA Parts ==
  /\ \A op \in Ops, s \in Slots, p \in Texts :
       /\ Task(op, s, p) \in Tasks
       /\ Task(op, s, p).op = op /\ Task(op, s, p).slot = s /\ Task(op, s, p).text = p
  /\ \A op, s : /\ Queue(op, s).queue = <<Task(op, s, Empty)>>
                /\ Queue(op, s).blocks = FALSE /\ Queue(op, s).aborts = FALSE
  /\ \A op, p : /\ QueueLink(op, p).queue = <<Task(op, "pointer", p)>>
                /\ QueueLink(op, p).blocks = FALSE /\ QueueLink(op, p).aborts = FALSE
  /\ Skip.queue = << >> /\ Skip.blocks = FALSE /\ Skip.aborts = FALSE
  /\ Abort.queue = << >> /\ Abort.blocks = FALSE /\ Abort.aborts = TRUE
<1>1. \A op \in Ops, s \in Slots, p \in Texts :
       /\ Task(op, s, p) \in Tasks
       /\ Task(op, s, p).op = op /\ Task(op, s, p).slot = s /\ Task(op, s, p).text = p
  BY DEF Task, Tasks
<1>2. \A op, s : /\ Queue(op, s).queue = <<Task(op, s, Empty)>>
                 /\ Queue(op, s).blocks = FALSE /\ Queue(op, s).aborts = FALSE
  BY DEF Queue, QueueAll, Skip
<1>3. \A op, p : /\ QueueLink(op, p).queue = <<Task(op, "pointer", p)>>
                 /\ QueueLink(op, p).blocks = FALSE /\ QueueLink(op, p).aborts = FALSE
  BY DEF QueueLink, QueueAll, Skip
<1>4. /\ Skip.queue = << >> /\ Skip.blocks = FALSE /\ Skip.aborts = FALSE
      /\ Abort.queue = << >> /\ Abort.blocks = FALSE /\ Abort.aborts = TRUE
  BY DEF Skip, Abort
<1>. QED
  BY <1>1, <1>2, <1>3, <1>4

(* A contested task is queued by --force only.                             *)
LEMMA ContestedParts ==
  /\ \A op, s : /\ Contested(op, s).queue = IF run.force THEN Queue(op, s).queue ELSE << >>
                /\ Contested(op, s).blocks = TRUE /\ Contested(op, s).aborts = FALSE
  /\ \A op, s : /\ ForceOrAbort(op, s).queue = IF run.force THEN Queue(op, s).queue ELSE << >>
                /\ ForceOrAbort(op, s).blocks = FALSE
                /\ ForceOrAbort(op, s).aborts \in BOOLEAN
<1>1. \A op, s : /\ Contested(op, s).queue = IF run.force THEN Queue(op, s).queue ELSE << >>
                 /\ Contested(op, s).blocks = TRUE /\ Contested(op, s).aborts = FALSE
  BY DEF Contested, Queue, QueueAll, Skip
<1>2. \A op, s : /\ ForceOrAbort(op, s).queue = IF run.force THEN Queue(op, s).queue ELSE << >>
                 /\ ForceOrAbort(op, s).blocks = FALSE
                 /\ ForceOrAbort(op, s).aborts \in BOOLEAN
  <2>. SUFFICES ASSUME NEW op, NEW s
                PROVE  /\ ForceOrAbort(op, s).queue = IF run.force THEN Queue(op, s).queue ELSE << >>
                       /\ ForceOrAbort(op, s).blocks = FALSE
                       /\ ForceOrAbort(op, s).aborts \in BOOLEAN
    BY DEF Queue, QueueLink, QueueAll, Skip, Contested, ForceOrAbort, Abort
  <2>1. CASE run.force
    BY <2>1 DEF ForceOrAbort, Queue, QueueAll, Skip
  <2>2. CASE ~run.force
    BY <2>2, Parts DEF ForceOrAbort
  <2>. QED
    BY <2>1, <2>2
<1>. QED
  BY <1>1, <1>2

(* A file has a text, and a link one that is not empty.                    *)
LEMMA ObjectParts ==
  ASSUME LinksTypeOK
  PROVE  /\ IsLink => target \in Objects /\ target.text \in Texts \ {Empty}
                      /\ target = Link(target.text)
         /\ IsFile => target \in Objects /\ target.text \in Texts
                      /\ target = File(target.text)
         /\ target = Absent \/ IsLink \/ IsFile
         /\ ~(IsLink /\ IsFile)
         /\ \A c \in Texts : /\ File(c) \in Objects /\ File(c) # Absent
                             /\ File(c).kind = "file" /\ File(c).text = c
         /\ \A p \in Texts \ {Empty} : /\ Link(p) \in Objects /\ Link(p) # Absent
                                       /\ Link(p).kind = "link" /\ Link(p).text = p
<1>1. \A c \in Texts : /\ File(c) \in Objects /\ File(c) # Absent
                       /\ File(c).kind = "file" /\ File(c).text = c
  BY LinksAssumption DEF Objects, File
<1>2. \A p \in Texts \ {Empty} : /\ Link(p) \in Objects /\ Link(p) # Absent
                                 /\ Link(p).kind = "link" /\ Link(p).text = p
  BY LinksAssumption DEF Objects, Link
<1>3. target = Absent \/ (\E c \in Texts : target = File(c))
        \/ (\E p \in Texts \ {Empty} : target = Link(p))
  BY DEF LinksTypeOK, Objects
<1>4. ASSUME NEW c \in Texts, target = File(c)
      PROVE  IsFile /\ ~IsLink /\ target \in Objects /\ target.text \in Texts
             /\ target = File(target.text)
  BY <1>1, <1>4 DEF IsFile, IsLink
<1>5. ASSUME NEW p \in Texts \ {Empty}, target = Link(p)
      PROVE  IsLink /\ ~IsFile /\ target \in Objects /\ target.text \in Texts \ {Empty}
             /\ target = Link(target.text)
  BY <1>2, <1>5 DEF IsFile, IsLink
<1>6. target = Absent => ~IsLink /\ ~IsFile
  BY DEF IsFile, IsLink
<1>. QED
  BY <1>1, <1>2, <1>3, <1>4, <1>5, <1>6

-----------------------------------------------------------------------------
(* What the checks return                                                  *)

(* Nothing, or one task of the command.                                    *)
OneOf(o, cmd) ==
  /\ o.queue = << >> \/ \E t \in TasksOf(cmd) : o.queue = <<t>>
  /\ o.blocks \in BOOLEAN /\ o.aborts \in BOOLEAN
(* and, of add and sync, one that reads a file only if there is one, and   *)
(* without --force one that suits the state of the name                    *)
OneGood(o, cmd) ==
  /\ o.queue = << >> \/ \E t \in TasksOf(cmd) :
       /\ o.queue = <<t>>
       /\ t.op \in {"push", "record", "addlink"} => IsFile
       /\ run.force \/ Suits(t)
  /\ o.blocks \in BOOLEAN /\ o.aborts \in BOOLEAN

(* add of a path.                                                          *)
LEMMA AddOutcome ==
  ASSUME LinksTypeOK, run \in RunType, run.cmd = "add", NEW p
  PROVE  OneGood(AddCheck(p), "add")
<1>. USE Parts, ContestedParts
<1>1. \A t \in Tasks : t.op \in {"push", "record", "addlink", "point"} <=> t \in TasksOf("add")
  BY DEF TasksOf, OpsOf
<1>2. Empty \in Texts
  BY DEF Texts
<1>3. OneGood(Skip, "add") /\ OneGood(Abort, "add")
  BY DEF OneGood
<1>4. ASSUME IsLink PROVE OneGood(QueueLink("point", target.text), "add")
  <2>1. target.text \in Texts
    BY <1>4, ObjectParts
  <2>2. Task("point", "pointer", target.text) \in TasksOf("add")
        /\ Task("point", "pointer", target.text).op = "point"
        /\ Task("point", "pointer", target.text).text = target.text
    BY <1>1, <2>1 DEF Ops, Slots
  <2>. DEFINE t == Task("point", "pointer", target.text)
  <2>3. QueueLink("point", target.text).queue = <<t>>
        /\ QueueLink("point", target.text).blocks \in BOOLEAN
        /\ QueueLink("point", target.text).aborts \in BOOLEAN
    BY DEF Queue, QueueLink, QueueAll, Skip, Contested, ForceOrAbort, Abort
  <2>. HIDE DEF t
  <2>. QED
    BY <1>4, <2>2, <2>3 DEF OneGood, Suits, t
<1>5. ASSUME NEW op \in {"push", "addlink", "record"}, IsFile,
             op = "addlink" => run.symlink,
             op = "record" => target.text = source["plain"]
      PROVE  OneGood(Queue(op, "plain"), "add")
  <2>1. Task(op, "plain", Empty) \in TasksOf("add")
        /\ Task(op, "plain", Empty).op = op
        /\ Task(op, "plain", Empty).slot = "plain"
    BY <1>1, <1>2 DEF Ops, Slots
  <2>2. Queue(op, "plain").queue = <<Task(op, "plain", Empty)>>
        /\ Queue(op, "plain").blocks \in BOOLEAN /\ Queue(op, "plain").aborts \in BOOLEAN
    BY DEF Queue, QueueLink, QueueAll, Skip, Contested, ForceOrAbort, Abort
  <2>. QED
    BY <1>5, <2>1, <2>2 DEF OneGood, Suits
<1>6. ASSUME NEW op \in {"push", "addlink"}, IsFile, op = "addlink" => run.symlink
      PROVE  OneGood(Contested(op, "plain"), "add")
  <2>1. OneGood(Queue(op, "plain"), "add")
    BY <1>5, <1>6
  <2>2. Contested(op, "plain").queue \in {<< >>, Queue(op, "plain").queue}
        /\ Contested(op, "plain").blocks \in BOOLEAN
        /\ Contested(op, "plain").aborts \in BOOLEAN
    BY DEF Queue, QueueLink, QueueAll, Skip, Contested, ForceOrAbort, Abort
  <2>. QED
    BY <2>1, <2>2 DEF OneGood, Suits
<1>7. IsLink => OneGood(AddLink, "add")
  BY <1>3, <1>4 DEF AddLink
<1>8. ASSUME IsFile PROVE OneGood(AddFile, "add")
  <2>. DEFINE op == IF run.symlink THEN "addlink" ELSE "push"
  <2>1. op \in {"push", "addlink"} /\ (op = "addlink" => run.symlink)
    OBVIOUS
  <2>2. OneGood(Queue(op, "plain"), "add") /\ OneGood(Contested(op, "plain"), "add")
    BY <1>5, <1>6, <1>8, <2>1
  <2>3. target.text = source["plain"] => OneGood(Queue("record", "plain"), "add")
    BY <1>5, <1>8
  <2>. HIDE DEF op
  <2>. QED
    BY <1>3, <2>2, <2>3 DEF AddFile, op
<1>. QED
  BY <1>3, <1>7, <1>8 DEF AddCheck

(* sync of a path.                                                         *)
LEMMA SyncOutcome ==
  ASSUME LinksTypeOK, run \in RunType, run.cmd = "sync", NEW p
  PROVE  OneGood(SyncCheck(p), "sync")
<1>. USE Parts
<1>1. \A t \in Tasks : t.op \in {"push", "pull", "point"} <=> t \in TasksOf("sync")
  BY DEF TasksOf, OpsOf
<1>2. Empty \in Texts /\ Resolved \in Slots
  BY DEF Texts, Resolved, Slots
<1>3. OneGood(Skip, "sync") /\ OneGood(Abort, "sync")
      /\ OneGood([Skip EXCEPT !.blocks = TRUE], "sync")
  BY DEF OneGood, Skip
<1>4. ASSUME IsLink PROVE OneGood(QueueLink("point", target.text), "sync")
  <2>1. target.text \in Texts
    BY <1>4, ObjectParts
  <2>2. Task("point", "pointer", target.text) \in TasksOf("sync")
        /\ Task("point", "pointer", target.text).op = "point"
        /\ Task("point", "pointer", target.text).text = target.text
    BY <1>1, <2>1 DEF Ops, Slots
  <2>. DEFINE t == Task("point", "pointer", target.text)
  <2>3. QueueLink("point", target.text).queue = <<t>>
        /\ QueueLink("point", target.text).blocks \in BOOLEAN
        /\ QueueLink("point", target.text).aborts \in BOOLEAN
    BY DEF Queue, QueueLink, QueueAll, Skip, Contested, ForceOrAbort, Abort
  <2>. HIDE DEF t
  <2>. QED
    BY <1>4, <2>2, <2>3 DEF OneGood, Suits, t
<1>5. ASSUME NEW op \in {"push", "pull"}, IsFile
      PROVE  OneGood(Queue(op, Resolved), "sync")
  <2>1. Task(op, Resolved, Empty) \in TasksOf("sync")
        /\ Task(op, Resolved, Empty).op = op
        /\ Task(op, Resolved, Empty).slot = Resolved
    BY <1>1, <1>2 DEF Ops
  <2>2. Queue(op, Resolved).queue = <<Task(op, Resolved, Empty)>>
        /\ Queue(op, Resolved).blocks \in BOOLEAN /\ Queue(op, Resolved).aborts \in BOOLEAN
    BY DEF Queue, QueueLink, QueueAll, Skip, Contested, ForceOrAbort, Abort
  <2>. QED
    BY <1>5, <2>1, <2>2 DEF OneGood, Suits
<1>6. IsLink => OneGood(SyncLink, "sync")
  BY <1>3, <1>4 DEF SyncLink
<1>7. IsFile => OneGood(SyncFile, "sync")
  BY <1>3, <1>5 DEF SyncFile
<1>. QED
  BY <1>3, <1>6, <1>7 DEF SyncCheck

(* pull of a path: one task, and of a name that has only a pointer file    *)
(* the one that makes the link it says, unless there is such a link or no  *)
(* link at all.                                                            *)
LEMMA PullOutcome ==
  ASSUME LinksTypeOK, run \in RunType, run.cmd = "pull", NEW p \in {"target"} \cup Slots
  PROVE  /\ OneOf(PullCheck(p), "pull")
         /\ source["plain"] = Absent /\ PointerExists =>
              \/ PullCheck(p).queue = << >> /\ LeadsThere
              \/ PullCheck(p).queue = <<Task("mklink", "pointer", source["pointer"])>>
<1>. USE Parts, ContestedParts
<1>1. \A t \in Tasks : t.op \in {"pull", "mklink"} <=> t \in TasksOf("pull")
  BY DEF TasksOf, OpsOf
<1>2. Empty \in Texts /\ "own" \in Texts /\ (\A s \in Slots : source[s] # Absent => source[s] \in Texts)
  BY DEF Texts, Pointees, LinksTypeOK
<1>3. OneOf(Skip, "pull") /\ OneOf(Abort, "pull")
  BY DEF OneOf
<1>4. ASSUME NEW t \in Texts PROVE OneOf(QueueLink("mklink", t), "pull")
  <2>1. Task("mklink", "pointer", t) \in TasksOf("pull")
    BY <1>1 DEF Ops, Slots
  <2>2. QueueLink("mklink", t).queue = <<Task("mklink", "pointer", t)>>
        /\ QueueLink("mklink", t).blocks \in BOOLEAN /\ QueueLink("mklink", t).aborts \in BOOLEAN
    BY DEF Queue, QueueLink, QueueAll, Skip, Contested, ForceOrAbort, Abort
  <2>. QED
    BY <2>1, <2>2, Zenon DEF OneOf
<1>5. OneOf(Queue("pull", "plain"), "pull")
  <2>1. Task("pull", "plain", Empty) \in TasksOf("pull")
    BY <1>1, <1>2 DEF Ops, Slots
  <2>2. Queue("pull", "plain").queue = <<Task("pull", "plain", Empty)>>
        /\ Queue("pull", "plain").blocks \in BOOLEAN /\ Queue("pull", "plain").aborts \in BOOLEAN
    BY DEF Queue, QueueLink, QueueAll, Skip, Contested, ForceOrAbort, Abort
  <2>. QED
    BY <2>1, <2>2, Zenon DEF OneOf
<1>6. OneOf(Contested("pull", "plain"), "pull") /\ OneOf(ForceOrAbort("pull", "plain"), "pull")
  <2>1. /\ Contested("pull", "plain").queue \in {<< >>, Queue("pull", "plain").queue}
        /\ ForceOrAbort("pull", "plain").queue \in {<< >>, Queue("pull", "plain").queue}
        /\ Contested("pull", "plain").blocks \in BOOLEAN
        /\ Contested("pull", "plain").aborts \in BOOLEAN
        /\ ForceOrAbort("pull", "plain").blocks \in BOOLEAN
        /\ ForceOrAbort("pull", "plain").aborts \in BOOLEAN
    BY DEF Queue, QueueLink, QueueAll, Skip, Contested, ForceOrAbort, Abort
  <2>. QED
    BY <1>5, <2>1 DEF OneOf
<1>7. OneOf(Fetch, "pull")
  BY <1>2, <1>4, <1>5 DEF Fetch
<1>8. \A s \in Slots : source[s] # Absent => OneOf(QueueLink("mklink", source[s]), "pull")
  BY <1>2, <1>4
<1>9. PointerExists => OneOf(QueueLink("mklink", source["pointer"]), "pull")
  BY <1>8 DEF PointerExists, Slots
<1>10. OneOf(PullMissing, "pull") /\ OneOf(PullLink, "pull") /\ OneOf(PullFile, "pull")
  <2>1. OneOf(PullMissing, "pull")
    BY <1>3, <1>7, <1>9 DEF PullMissing
  <2>2. OneOf(PullLink, "pull")
    BY <1>2, <1>3, <1>4, <1>9 DEF PullLink
  <2>3. OneOf(PullFile, "pull")
    BY <1>3, <1>5, <1>6 DEF PullFile
  <2>. QED
    BY <2>1, <2>2, <2>3
<1>11. OneOf(PullTarget, "pull")
  BY <1>10 DEF PullTarget
<1>12. \A s \in Slots : OneOf(PullSource(s), "pull")
  <2>. SUFFICES ASSUME NEW s \in Slots PROVE OneOf(PullSource(s), "pull")
    OBVIOUS
  <2>1. source[s] # Absent => OneOf(QueueLink("mklink", source[s]), "pull")
    BY <1>8
  <2>2. s = "pointer" /\ PointerExists => OneOf(QueueLink("mklink", source[s]), "pull")
    BY <1>9
  <2>. QED
    BY <1>7, <1>11, <2>1, <2>2 DEF PullSource
<1>13. OneOf(PullCheck(p), "pull")
  BY <1>11, <1>12 DEF PullCheck
<1>14. ASSUME source["plain"] = Absent, PointerExists
       PROVE  \/ PullCheck(p).queue = << >> /\ LeadsThere
              \/ PullCheck(p).queue = <<Task("mklink", "pointer", source["pointer"])>>
  <2>. DEFINE Right(o) ==
         \/ o.queue = << >> /\ LeadsThere
         \/ o.queue = <<Task("mklink", "pointer", source["pointer"])>>
  <2>1. Right(QueueLink("mklink", source["pointer"]))
    OBVIOUS
  <2>2. LeadsThere => Right(Skip)
    OBVIOUS
  <2>3. Right(PullMissing)
    BY <1>14, <2>1 DEF PullMissing
  <2>4. IsLink /\ TargetExists => Right(PullLink)
    <3>1. IsLink /\ TargetExists => Where(target.text) # "plain"
      BY <1>14 DEF TargetExists, Read, At, IsLink
    <3>2. PointerMatches => LeadsThere
      BY DEF PointerMatches, LeadsThere
    <3>. QED
      BY <1>14, <2>1, <2>2, <3>1, <3>2 DEF PullLink
  <2>5. ~IsLink => Right(PullFile)
    BY <1>14, <2>2 DEF PullFile, LeadsThere
  <2>6. Right(PullTarget)
    BY <2>3, <2>4, <2>5 DEF PullTarget
  <2>7. \A s \in Slots : Right(PullSource(s))
    BY <1>14, <2>1, <2>6 DEF PullSource, Slots, PointerExists
  <2>. QED
    BY <2>6, <2>7 DEF PullCheck
<1>. QED
  BY <1>13, <1>14

(* forget of a path: tasks that delete.                                    *)
LEMMA ForgetOutcome ==
  ASSUME LinksTypeOK, run \in RunType, run.cmd = "forget", NEW p \in {"target"} \cup Slots
  PROVE  /\ ForgetCheck(p).queue \in Seq(TasksOf("forget"))
         /\ ForgetCheck(p).blocks \in BOOLEAN /\ ForgetCheck(p).aborts \in BOOLEAN
<1>. DEFINE Fine(o) == /\ o.queue \in Seq(TasksOf("forget"))
                       /\ o.blocks \in BOOLEAN /\ o.aborts \in BOOLEAN
<1>1. \A t \in Tasks : t.op \in {"delete", "unlist", "unlink", "stray"} <=> t \in TasksOf("forget")
  BY DEF TasksOf, OpsOf
<1>2. Empty \in Texts /\ Resolved \in Slots
  BY DEF Texts, Resolved, Slots
<1>3. Fine(Skip) /\ Fine(Abort)
  BY TaskLists DEF Skip, Abort
<1>4. ASSUME NEW s \in Slots PROVE Fine(Queue("delete", s))
  <2>1. Task("delete", s, Empty) \in TasksOf("forget")
    BY <1>1, <1>2, Parts DEF Ops
  <2>2. <<Task("delete", s, Empty)>> \in Seq(TasksOf("forget"))
    BY <2>1, TaskLists
  <2>. QED
    BY <2>2 DEF Queue, QueueAll, Skip
<1>5. ASSUME NEW s \in Slots PROVE Fine(Contested("delete", s))
  BY <1>3, <1>4, <1>5 DEF Contested, Queue, QueueAll, Skip
<1>6. ASSUME NEW op \in {"unlink", "stray"}, NEW t \in Texts
      PROVE  QueueLink(op, t).queue \in Seq(TasksOf("forget"))
  <2>1. Task(op, "pointer", t) \in TasksOf("forget")
    BY <1>1, Parts DEF Ops, Slots
  <2>2. <<Task(op, "pointer", t)>> \in Seq(TasksOf("forget"))
    BY <2>1, TaskLists
  <2>. QED
    BY <2>2 DEF QueueLink, QueueAll, Skip
<1>7. Fine(ForgetPointer)
  BY <1>3, <1>4 DEF ForgetPointer, Slots
<1>8. \A s \in Slots : Fine(ForgetSource(s))
  BY <1>3, <1>4, <1>7 DEF ForgetSource
<1>9. Fine(ForgetFile)
  BY <1>3, <1>4, <1>5 DEF ForgetFile, Slots
<1>10. ASSUME IsLink PROVE Fine(ForgetLink)
  <2>. DEFINE t == target.text
              link == IF PointsIntoSource(t) THEN QueueLink("unlink", t).queue ELSE << >>
              pointee == CASE At(Where(t)) = Absent -> << >>
                           [] Where(t) = "plain" -> Queue("delete", "plain").queue
                           [] Where(t) = "stray" -> QueueLink("stray", t).queue
                           [] OTHER -> << >>
              rest == IF PointerExists THEN ForgetPointer.queue ELSE pointee
  <2>1. t \in Texts
    BY <1>10, ObjectParts
  <2>. HIDE DEF t
  <2>2. << >> \in Seq(TasksOf("forget"))
    BY TaskLists
  <2>3. link \in Seq(TasksOf("forget"))
    BY <1>6, <2>1, <2>2
  <2>4. Queue("delete", "plain").queue \in Seq(TasksOf("forget"))
    BY <1>4 DEF Slots
  <2>5. QueueLink("stray", t).queue \in Seq(TasksOf("forget"))
    BY <1>6, <2>1
  <2>6. pointee \in Seq(TasksOf("forget"))
    BY <2>2, <2>4, <2>5
  <2>. HIDE DEF pointee, link
  <2>7. rest \in Seq(TasksOf("forget"))
    BY <1>7, <2>6
  <2>. HIDE DEF rest
  <2>8. link \o rest \in Seq(TasksOf("forget"))
    BY <2>3, <2>7, TaskLists
  <2>9. ForgetLink = QueueAll(link \o rest)
    BY DEF ForgetLink, link, pointee, rest, t
  <2>. QED
    BY <2>8, <2>9 DEF QueueAll, Skip
<1>11. Fine(Queue("delete", Resolved))
  BY <1>2, <1>4
<1>. QED
  BY <1>3, <1>8, <1>9, <1>10, <1>11 DEF ForgetCheck, Slots

(* Any command, of a path it traverses.                                    *)
LEMMA Outcomes ==
  ASSUME LinksTypeOK, run \in RunType, NEW p \in {"target"} \cup Slots
  PROVE  /\ Outcome(p).queue \in Seq(TasksOf(run.cmd))
         /\ Outcome(p).blocks \in BOOLEAN /\ Outcome(p).aborts \in BOOLEAN
<1>1. CASE run.cmd = "add"
  <2>1. OneGood(AddCheck(p), "add")
    BY <1>1, AddOutcome
  <2>. QED
    BY <1>1, <2>1, TaskLists DEF Outcome, OneGood
<1>2. CASE run.cmd = "pull"
  <2>1. OneOf(PullCheck(p), "pull")
    BY <1>2, PullOutcome
  <2>. QED
    BY <1>2, <2>1, TaskLists DEF Outcome, OneOf
<1>3. CASE run.cmd = "sync"
  <2>1. OneGood(SyncCheck(p), "sync")
    BY <1>3, SyncOutcome
  <2>. QED
    BY <1>3, <2>1, TaskLists DEF Outcome, OneGood
<1>4. CASE run.cmd = "forget"
  BY <1>4, ForgetOutcome DEF Outcome
<1>. QED
  BY <1>1, <1>2, <1>3, <1>4 DEF RunType

-----------------------------------------------------------------------------
(* The types                                                               *)

(* What a link leads to is read as a text or not at all.                   *)
LEMMA ReadType ==
  ASSUME LinksTypeOK
  PROVE  Read(target) \in Texts \cup {Absent}
<1>1. \A place : At(place) \in Texts \cup {Absent}
  BY DEF At, LinksTypeOK, Slots
<1>. QED
  BY <1>1, ObjectParts DEF Read, IsLink, IsFile

(* A run under way and the task at its head.                               *)
LEMMA HeadTask ==
  ASSUME TypeInv, pc # "idle"
  PROVE  /\ run \in Runs /\ run \in RunType
         /\ tasks # << >> => /\ Head(tasks) \in TasksOf(run.cmd) /\ Head(tasks) \in Tasks
                             /\ Head(tasks).op \in OpsOf(run.cmd)
                             /\ Head(tasks).slot \in Slots /\ Head(tasks).text \in Texts
                             /\ Tail(tasks) \in Seq(TasksOf(run.cmd))
                             /\ Tail(tasks) \in Seq(Tasks)
<1>1. run \in Runs /\ run \in RunType
  BY LinksAssumption DEF TypeInv, LinksTypeOK
<1>2. tasks \in Seq(TasksOf(run.cmd)) /\ tasks \in Seq(Tasks)
  BY DEF TypeInv, OpsInv, LinksTypeOK
<1>3. tasks # << >> => /\ Head(tasks) \in TasksOf(run.cmd)
                       /\ Tail(tasks) \in Seq(TasksOf(run.cmd)) /\ Tail(tasks) \in Seq(Tasks)
  BY <1>2, TaskLists
<1>. QED
  BY <1>1, <1>3 DEF TasksOf, Tasks

(* The tasks for orphan records are those of forget of everything.         *)
LEMMA OrphanTypes ==
  ASSUME TypeInv, pc # "idle", NEW s \in Slots
  PROVE  /\ OrphanTask(s) \in Seq(TasksOf(run.cmd))
         /\ run.cmd # "forget" => OrphanTask(s) = << >> /\ Orphans = {}
<1>. DEFINE op == IF source[s] = Absent THEN "unlist" ELSE "delete"
<1>1. run.cmd # "forget" => Orphans = {}
  BY DEF Orphans
<1>2. << >> \in Seq(TasksOf(run.cmd))
  BY TaskLists
<1>3. ASSUME run.cmd = "forget" PROVE Queue(op, s).queue \in Seq(TasksOf(run.cmd))
  <2>1. Task(op, s, Empty) \in TasksOf(run.cmd)
    BY <1>3, Parts DEF TasksOf, OpsOf, Ops, Texts
  <2>2. <<Task(op, s, Empty)>> \in Seq(TasksOf(run.cmd))
    BY <2>1, TaskLists
  <2>. QED
    BY <2>2 DEF Queue, QueueAll, Skip
<1>4. OrphanTask(s) = << >> \/ (run.cmd = "forget" /\ OrphanTask(s) = Queue(op, s).queue)
  BY <1>1 DEF OrphanTask
<1>. QED
  BY <1>1, <1>2, <1>3, <1>4 DEF OrphanTask

(* The lists a check and the decision leave.                               *)
LEMMA QueueTypes ==
  ASSUME TypeInv, pc # "idle"
  PROVE  /\ \A p \in todo : tasks \o Outcome(p).queue \in Seq(TasksOf(run.cmd))
         /\ tasks \o OrphanTask("plain") \o OrphanTask("pointer") \in Seq(TasksOf(run.cmd))
         /\ run.cmd # "forget" =>
              tasks \o OrphanTask("plain") \o OrphanTask("pointer") = tasks
<1>1. tasks \in Seq(TasksOf(run.cmd)) /\ run \in RunType
  BY HeadTask DEF TypeInv, OpsInv
<1>2. \A p \in todo : p \in {"target"} \cup Slots
  BY DEF TypeInv, LinksTypeOK
<1>3. \A p \in todo : Outcome(p).queue \in Seq(TasksOf(run.cmd))
  BY <1>1, <1>2, Outcomes DEF TypeInv
<1>4. OrphanTask("plain") \in Seq(TasksOf(run.cmd)) /\ OrphanTask("pointer") \in Seq(TasksOf(run.cmd))
  BY OrphanTypes DEF Slots
<1>5. run.cmd # "forget" => OrphanTask("plain") = << >> /\ OrphanTask("pointer") = << >>
  BY OrphanTypes DEF Slots
<1>. DEFINE S == TasksOf(run.cmd)
<1>. HIDE DEF S
<1>6. tasks \o OrphanTask("plain") \in Seq(S)
  BY <1>1, <1>4, TaskLists DEF S
<1>7. tasks \o OrphanTask("plain") \o OrphanTask("pointer") \in Seq(S)
  BY <1>4, <1>6, TaskLists DEF S
<1>8. run.cmd # "forget" => tasks \o OrphanTask("plain") \o OrphanTask("pointer") = tasks
  BY <1>1, <1>5, TaskLists DEF S
<1>. QED
  BY <1>1, <1>3, <1>7, <1>8, TaskLists DEF S

(* Tasks of a command are tasks.                                           *)
LEMMA SeqTasks ==
  ASSUME NEW cmd
  PROVE  \A q \in Seq(TasksOf(cmd)) : q \in Seq(Tasks)
BY DEF TasksOf

(* What a check that is refused queues.                                    *)
LEMMA UnreadTypes ==
  ASSUME TypeInv, pc # "idle", NEW p, NEW o \in Unread(p)
  PROVE  /\ tasks \o o.queue \in Seq(TasksOf(run.cmd))
         /\ o.blocks = FALSE /\ o.aborts = FALSE
<1>1. tasks \in Seq(TasksOf(run.cmd))
  BY DEF TypeInv, OpsInv
<1>2. CASE o = Skip
  BY <1>1, <1>2, Parts, TaskLists
<1>3. ASSUME NEW q \in Texts, run.cmd = "forget", o = QueueLink("unlink", q)
      PROVE  /\ tasks \o o.queue \in Seq(TasksOf(run.cmd))
             /\ o.blocks = FALSE /\ o.aborts = FALSE
  <2>. DEFINE t == Task("unlink", "pointer", q)
  <2>1. t \in TasksOf(run.cmd)
    BY <1>3, Parts DEF TasksOf, OpsOf, Ops, Slots
  <2>2. o.queue = <<t>> /\ o.blocks = FALSE /\ o.aborts = FALSE
    BY <1>3, Parts
  <2>. HIDE DEF t
  <2>. QED
    BY <1>1, <2>1, <2>2, TaskLists
<1>. QED
  BY <1>2, <1>3 DEF Unread

(* The installation starts with nothing managed and no run.                *)
LEMMA InitHolds == Init => LinksInv
<1>. SUFFICES ASSUME Init PROVE LinksInv
  OBVIOUS
<1>1. \A c \in Contents : c \in Texts
  BY DEF Texts
<1>2. LinksTypeOK
  <2>1. source \in [Slots -> Texts \cup {Absent}] /\ disk \in [Slots -> Texts \cup {Absent}]
        /\ mem \in [Slots -> Texts \cup {Absent}] /\ other \in [Others -> Texts \cup {Absent}]
    BY <1>1 DEF Init, NoRecords
  <2>2. tasks \in Seq(Tasks)
    BY TaskLists DEF Init
  <2>3. acts \in 0..MaxActs
    BY LinksAssumption DEF Init
  <2>4. target \in Objects \cup {Absent} /\ backup \in Texts \cup {Absent}
        /\ touched \subseteq Slots /\ stamped \subseteq Slots
        /\ run \in Runs \cup {NoRun} /\ pc \in Phases
        /\ todo \subseteq {"target"} \cup Slots /\ blocked \in BOOLEAN
        /\ before \in Texts \cup {Absent} /\ denied = {}
    BY DEF Init, Phases
  <2>5. pc = "idle" /\ run = NoRun
    BY DEF Init
  <2>. QED
    BY <2>1, <2>2, <2>3, <2>4, <2>5 DEF LinksTypeOK
<1>3. run.cmd = "none" /\ pc = "idle" /\ tasks = << >>
  BY DEF Init, NoRun
<1>. QED
  BY <1>2, <1>3 DEF LinksInv, TypeInv, OpsInv, FileInv, KeptInv, LeadsInv, SettledInv

(* What a record is made of.                                               *)
LEMMA RecordedTypes ==
  ASSUME TypeInv, NEW s \in Slots, Recorded(s), source'[s] \in Texts \cup {Absent}
  PROVE  /\ mem' \in [Slots -> Texts \cup {Absent}]
         /\ touched' \subseteq Slots /\ stamped' \subseteq Slots
BY DEF Recorded, TypeInv, LinksTypeOK

(* What a copy from the target leaves.                                     *)
LEMMA CopyInTypes ==
  ASSUME TypeInv, NEW s \in Slots, CopyIn(s), IsFile
  PROVE  /\ source' = [source EXCEPT ![s] = target.text]
         /\ source' \in [Slots -> Texts \cup {Absent}] /\ source'[s] = target.text
         /\ mem' \in [Slots -> Texts \cup {Absent}] /\ mem' = [mem EXCEPT ![s] = target.text]
         /\ touched' \subseteq Slots /\ stamped' \subseteq Slots
         /\ UNCHANGED <<target, other, backup>>
<1>1. target.text \in Texts
  BY ObjectParts DEF TypeInv
<1>2. /\ source' = [source EXCEPT ![s] = target.text] /\ Recorded(s)
      /\ UNCHANGED <<target, other, backup>>
  BY DEF CopyIn, WriteIn
<1>3. source' \in [Slots -> Texts \cup {Absent}] /\ source'[s] = target.text
  BY <1>1, <1>2 DEF TypeInv, LinksTypeOK
<1>4. mem' = [mem EXCEPT ![s] = target.text]
  BY <1>2, <1>3 DEF Recorded
<1>. QED
  BY <1>2, <1>3, <1>4, RecordedTypes

(* The target is a file when it is copied from.                            *)
LEMMA CopiedIsFile ==
  ASSUME TypeInv
  PROVE  /\ InTask("exec", "push") => IsFile
         /\ InTask("exec", "record") => IsFile
         /\ InTask("exec", "addlink") => IsFile
         /\ pc = "copied" => IsFile /\ tasks # << >>
<1>1. ASSUME pc \in {"exec", "copied"}, tasks # << >>, Reading PROVE IsFile
  <2>1. run.cmd \in {"add", "sync"}
    <3>1. run \in RunType /\ Head(tasks).op \in OpsOf(run.cmd)
      BY <1>1, HeadTask
    <3>. QED
      BY <1>1, <3>1 DEF OpsOf, Reading, RunType
  <2>. QED
    BY <1>1, <2>1 DEF TypeInv, FileInv
<1>2. pc = "copied" => tasks # << >> /\ Reading
  BY DEF TypeInv, LinksTypeOK, OpsInv, Reading
<1>. QED
  BY <1>1, <1>2 DEF InTask, Reading

(* Every step keeps the types of what is on the disk and of the records.   *)
LEMMA StateTypes ==
  ASSUME TypeInv, [Next]_vars
  PROVE  /\ target' \in Objects \cup {Absent}
         /\ source' \in [Slots -> Texts \cup {Absent}]
         /\ other' \in [Others -> Texts \cup {Absent}]
         /\ backup' \in Texts \cup {Absent}
         /\ touched' \subseteq Slots /\ stamped' \subseteq Slots
         /\ disk' \in [Slots -> Texts \cup {Absent}]
         /\ mem' \in [Slots -> Texts \cup {Absent}]
<1>. DEFINE Goal == 
         /\ target \in Objects \cup {Absent}
         /\ source \in [Slots -> Texts \cup {Absent}]
         /\ other \in [Others -> Texts \cup {Absent}]
         /\ backup \in Texts \cup {Absent}
         /\ touched \subseteq Slots /\ stamped \subseteq Slots
         /\ disk \in [Slots -> Texts \cup {Absent}]
         /\ mem \in [Slots -> Texts \cup {Absent}]
<1>. SUFFICES Goal'
  OBVIOUS
<1>. LinksTypeOK
  BY DEF TypeInv
<1>. Empty \in Texts /\ "ownRel" \in Texts \ {Empty} /\ "pointer" \in Slots /\ "plain" \in Slots
  BY DEF Texts, Pointees, Empty, Slots
<1>1. ASSUME NEW r \in Runs, Start(r) PROVE Goal'
  BY <1>1 DEF Start, files, LinksTypeOK
<1>2. ASSUME NEW p \in todo, Check(p) PROVE Goal'
  BY <1>2 DEF Check, Checked, During, Steady, Unrecorded, files, LinksTypeOK
<1>3. CASE Decide
  BY <1>3 DEF Decide, During, Steady, Unrecorded, files, LinksTypeOK
<1>4. CASE Push
  <2>1. Head(tasks).slot \in Slots /\ IsFile
    BY <1>4, HeadTask, CopiedIsFile DEF Push, InTask
  <2>. QED
    BY <1>4, <2>1, CopyInTypes DEF Push, During, Steady, LinksTypeOK
<1>5. CASE Pull
  <2>. DEFINE c == source[Head(tasks).slot]
  <2>1. Head(tasks).slot \in Slots /\ c \in Texts
    BY <1>5, HeadTask DEF Pull, InPull, WriteOut, InTask, LinksTypeOK
  <2>2. source' = source /\ backup' = backup /\ disk' = disk /\ Recorded(Head(tasks).slot)
    BY <1>5 DEF Pull, InPull, WriteOut, During, Steady
  <2>3. mem' \in [Slots -> Texts \cup {Absent}] /\ touched' \subseteq Slots /\ stamped' \subseteq Slots
    BY <2>1, <2>2, RecordedTypes DEF LinksTypeOK
  <2>4. target' \in Objects \cup {Absent} /\ other' \in [Others -> Texts \cup {Absent}]
    BY <1>5, <2>1, ObjectParts DEF Pull, InPull, WriteOut, LinksTypeOK
  <2>. QED
    BY <2>2, <2>3, <2>4 DEF LinksTypeOK
<1>6. CASE RecordOnly
  <2>1. Head(tasks).slot \in Slots
    BY <1>6, HeadTask DEF RecordOnly, InTask
  <2>2. Recorded(Head(tasks).slot) /\ source' = source
    BY <1>6 DEF RecordOnly
  <2>3. mem' \in [Slots -> Texts \cup {Absent}] /\ touched' \subseteq Slots /\ stamped' \subseteq Slots
    BY <2>1, <2>2, RecordedTypes DEF LinksTypeOK
  <2>. QED
    BY <1>6, <2>3 DEF RecordOnly, During, Steady, LinksTypeOK
<1>7. CASE CopyFirst
  <2>1. IsFile
    BY <1>7, CopiedIsFile DEF CopyFirst
  <2>. QED
    BY <1>7, <2>1, CopyInTypes DEF CopyFirst, During, Steady, LinksTypeOK
<1>8. CASE MoveAside
  <2>1. target.text \in Texts
    BY <1>8, CopiedIsFile, ObjectParts DEF MoveAside
  <2>. QED
    BY <1>8, <2>1 DEF MoveAside, During, Steady, Unrecorded, LinksTypeOK
<1>9. CASE MakeLink
  <2>1. Link("ownRel") \in Objects
    BY ObjectParts
  <2>. QED
    BY <1>9, <2>1 DEF MakeLink, During, Steady, Unrecorded, LinksTypeOK
<1>10. CASE DropBackup
  BY <1>10 DEF DropBackup, During, Steady, Unrecorded, files, LinksTypeOK
<1>11. CASE TruncatePointer
  BY <1>11 DEF TruncatePointer, During, Steady, Unrecorded, files, LinksTypeOK
<1>12. CASE WritePointer
  <2>1. Head(tasks).text \in Texts
    BY <1>12, HeadTask DEF WritePointer, PointerWritten, LinksTypeOK
  <2>2. source' \in [Slots -> Texts \cup {Absent}] /\ Recorded("pointer")
    BY <1>12, <2>1 DEF WritePointer, PointerWritten, PointerText, LinksTypeOK
  <2>3. mem' \in [Slots -> Texts \cup {Absent}] /\ touched' \subseteq Slots /\ stamped' \subseteq Slots
    BY <2>2, RecordedTypes
  <2>. QED
    BY <1>12, <2>2, <2>3 DEF WritePointer, PointerWritten, During, Steady, LinksTypeOK
<1>13. CASE RemoveOld
  BY <1>13 DEF RemoveOld, During, Steady, Unrecorded, files, LinksTypeOK
<1>14. CASE CreateLink
  <2>1. Head(tasks).text \in Texts
    BY <1>14, HeadTask DEF CreateLink, LinksTypeOK
  <2>2. StripDot(Head(tasks).text) \in Texts \ {Empty}
    BY <1>14, <2>1 DEF CreateLink, StripDot, Texts, Pointees, Empty
  <2>3. Link(StripDot(Head(tasks).text)) \in Objects
    BY <2>2, ObjectParts
  <2>. QED
    BY <1>14, <2>3 DEF CreateLink, During, Steady, Unrecorded, LinksTypeOK
<1>15. CASE Delete
  <2>1. Head(tasks).slot \in Slots
    BY <1>15, HeadTask DEF Delete
  <2>2. /\ source' \in [Slots -> Texts \cup {Absent}] /\ target' \in Objects \cup {Absent}
        /\ other' \in [Others -> Texts \cup {Absent}]
    BY <1>15, <2>1 DEF Delete, LinksTypeOK
  <2>3. mem' \in [Slots -> Texts \cup {Absent}]
    BY <1>15, <2>1 DEF Delete, LinksTypeOK
  <2>. QED
    BY <1>15, <2>2, <2>3 DEF Delete, During, Steady, LinksTypeOK
<1>16. CASE LinkDenied
  BY <1>16 DEF LinkDenied, Refused, During, Steady, Unrecorded, files, LinksTypeOK
<1>17. CASE FailTask
  <2>1. pc = "aside" => backup # Absent
    <3>1. pc = "aside" => Head(tasks).op = "addlink" /\ Head(tasks).op \in OpsOf(run.cmd)
                          /\ run \in RunType
      BY HeadTask DEF TypeInv, OpsInv, LinksTypeOK
    <3>2. pc = "aside" => run.cmd = "add"
      BY <3>1 DEF OpsOf, RunType
    <3>. QED
      BY <3>2 DEF TypeInv, FileInv
  <2>2. target' \in Objects \cup {Absent} /\ backup' \in Texts \cup {Absent}
    BY <1>17, <2>1, ObjectParts DEF FailTask, Restored, LinksTypeOK
  <2>. QED
    BY <1>17, <2>2 DEF FailTask, During, Steady, Unrecorded, LinksTypeOK
<1>18. CASE TasksDone
  BY <1>18 DEF TasksDone, During, Steady, Unrecorded, files, LinksTypeOK
<1>19. CASE Commit
  BY <1>19 DEF Commit, Quit, files, NoRecords, LinksTypeOK
<1>20. CASE Fail
  BY <1>20 DEF Fail, Quit, files, NoRecords, LinksTypeOK
<1>21. CASE Crash
  BY <1>21 DEF Crash, Quit, files, NoRecords, LinksTypeOK
<1>22. CASE UserTarget
  <2>1. \A c \in Contents : File(c) \in Objects
    BY ObjectParts DEF Texts
  <2>2. \A p \in UserPointees : Link(p) \in Objects
    <3>1. \A p \in Pointees : p \in Texts \ {Empty}
      BY DEF Texts, Pointees, Empty
    <3>. QED
      BY <3>1, ObjectParts, LinksAssumption
  <2>. QED
    BY <1>22, <2>1, <2>2 DEF UserTarget, Idle, LinksTypeOK
<1>23. ASSUME NEW s \in Slots, UserSource(s) PROVE Goal'
  <2>1. \A c \in Contents \cup UserPointees : c \in Texts
    BY LinksAssumption DEF Texts
  <2>. QED
    BY <1>23, <2>1 DEF UserSource, Idle, LinksTypeOK
<1>24. CASE UserOther
  BY <1>24 DEF UserOther, Idle, LinksTypeOK
<1>25. CASE Rest
  BY <1>25 DEF Rest, vars, During, Steady, Unrecorded, files, LinksTypeOK
<1>26. CASE UNCHANGED vars
  BY <1>26 DEF vars, During, Steady, Unrecorded, files, LinksTypeOK
<1>27. ASSUME NEW p \in todo, CheckDenied(p) PROVE Goal'
  BY <1>27 DEF CheckDenied, Checked, Unrecorded, files, LinksTypeOK
<1>28. CASE CopyInDenied
  <2>. DEFINE s == Head(tasks).slot
  <2>1. s \in Slots /\ IsFile /\ target.text \in Texts
    BY <1>28, HeadTask, CopiedIsFile, ObjectParts DEF CopyInDenied, InTask
  <2>. HIDE DEF s
  <2>2. CASE UNCHANGED files /\ Unrecorded
    BY <1>28, <2>2 DEF CopyInDenied, Refused, Steady, files, Unrecorded, LinksTypeOK
  <2>3. CASE WriteIn(s) /\ touched' = touched \cup {s} /\ UNCHANGED <<stamped, mem>>
    BY <1>28, <2>1, <2>3 DEF CopyInDenied, WriteIn, Refused, Steady, LinksTypeOK
  <2>4. CASE CopyIn(s)
    BY <1>28, <2>1, <2>4, CopyInTypes DEF CopyInDenied, Refused, Steady, LinksTypeOK
  <2>. QED
    BY <1>28, <2>2, <2>3, <2>4 DEF CopyInDenied, s
<1>29. CASE PullDenied
  <2>. DEFINE s == Head(tasks).slot
  <2>1. s \in Slots /\ source[s] \in Texts
    BY <1>29, HeadTask DEF PullDenied, InPull, InTask, LinksTypeOK
  <2>. HIDE DEF s
  <2>2. disk' = disk
    BY <1>29 DEF PullDenied, Refused, Steady
  <2>3. CASE UNCHANGED files /\ Unrecorded
    BY <2>2, <2>3 DEF files, Unrecorded, LinksTypeOK
  <2>4. CASE /\ WriteOut(source[s])
             /\ \/ Unrecorded
                \/ /\ mem' = [mem EXCEPT ![s] = source[s]]
                   /\ stamped' = stamped \cup {s} /\ UNCHANGED touched
    <3>1. target' \in Objects \cup {Absent} /\ other' \in [Others -> Texts \cup {Absent}]
          /\ UNCHANGED <<source, backup>>
      BY <2>1, <2>4, ObjectParts DEF WriteOut, LinksTypeOK
    <3>2. mem' \in [Slots -> Texts \cup {Absent}] /\ touched' \subseteq Slots
          /\ stamped' \subseteq Slots
      BY <2>1, <2>4 DEF Unrecorded, LinksTypeOK
    <3>. QED
      BY <2>2, <3>1, <3>2 DEF LinksTypeOK
  <2>5. \/ UNCHANGED files /\ Unrecorded
        \/ /\ WriteOut(source[s])
           /\ \/ Unrecorded
              \/ /\ mem' = [mem EXCEPT ![s] = source[s]]
                 /\ stamped' = stamped \cup {s} /\ UNCHANGED touched
    BY <1>29 DEF PullDenied, s
  <2>. QED
    BY <2>3, <2>4, <2>5
<1>30. CASE PointDenied
  <2>1. /\ disk' = disk
        /\ \/ UNCHANGED files /\ Unrecorded
           \/ /\ pc = "emptied" /\ PointerWritten
              /\ touched' = touched \cup {"pointer"} /\ UNCHANGED <<stamped, mem>>
           \/ pc = "emptied" /\ PointerWritten /\ Recorded("pointer")
    BY <1>30 DEF PointDenied, Refused, Steady
  <2>2. CASE UNCHANGED files /\ Unrecorded
    BY <2>1, <2>2 DEF files, Unrecorded, LinksTypeOK
  <2>3. CASE pc = "emptied" /\ PointerWritten
    <3>1. Head(tasks).text \in Texts
      BY <2>3, HeadTask DEF LinksTypeOK
    <3>2. source' \in [Slots -> Texts \cup {Absent}] /\ UNCHANGED <<target, other, backup>>
      BY <2>3, <3>1 DEF PointerWritten, PointerText, LinksTypeOK
    <3>3. mem' \in [Slots -> Texts \cup {Absent}] /\ touched' \subseteq Slots
          /\ stamped' \subseteq Slots
      BY <2>1, <3>2, RecordedTypes DEF LinksTypeOK, Unrecorded
    <3>. QED
      BY <2>1, <3>2, <3>3 DEF LinksTypeOK
  <2>. QED
    BY <2>1, <2>2, <2>3
<1>. QED
  BY <1>1, <1>2, <1>3, <1>4, <1>5, <1>6, <1>7, <1>8, <1>9, <1>10, <1>11, <1>12, <1>13,
     <1>14, <1>15, <1>16, <1>17, <1>18, <1>19, <1>20, <1>21, <1>22, <1>23, <1>24, <1>25, <1>26,
     <1>27, <1>28, <1>29, <1>30
     DEF Next, Process, User, AddLinkSteps, PointerSteps, PullLinkSteps, Denials

(* A task is done: what is left is tasks of the command, and nothing if it *)
(* was the only one.                                                       *)
LEMMA DoneTypes ==
  ASSUME TypeInv, pc # "idle", tasks # << >>, TaskDone, run' = run
  PROVE  /\ tasks' \in Seq(TasksOf(run.cmd)) /\ pc' = "exec"
         /\ OneTask => tasks' = << >>
<1>1. tasks' = Tail(tasks) /\ pc' = "exec"
  BY DEF TaskDone
<1>2. OneTask => Tail(tasks) = << >>
  <2>. SUFFICES ASSUME NEW t \in Tasks, tasks = <<t>> PROVE Tail(tasks) = << >>
    BY DEF OneTask
  <2>. QED
    BY TaskLists
<1>. QED
  BY <1>1, <1>2, HeadTask

(* The steps of a task, and how they leave the list.                       *)
TaskStep == \/ Push \/ Pull \/ RecordOnly \/ AddLinkSteps \/ PointerSteps
            \/ PullLinkSteps \/ Delete \/ Denials
Ends == TaskDone \/ (pc' \in {"copied", "aside", "linked", "emptied", "removed"}
                     /\ UNCHANGED tasks)

(* The steps of a task begin with it at the head.                          *)
LEMMA TaskSteps ==
  ASSUME TypeInv, TaskStep
  PROVE  /\ pc # "idle" /\ tasks # << >> /\ Ends /\ Steady
         /\ denied' = denied \/ denied' = denied \cup {"task"}
<1>. LinksTypeOK
  BY DEF TypeInv
<1>1. CASE Push
  BY <1>1 DEF Push, InTask, Ends, During
<1>2. CASE Pull
  BY <1>2 DEF Pull, InPull, WriteOut, InTask, Ends, During
<1>3. CASE RecordOnly
  BY <1>3 DEF RecordOnly, InTask, Ends, During
<1>4. CASE AddLinkSteps
  BY <1>4 DEF AddLinkSteps, CopyFirst, MoveAside, MakeLink, DropBackup, InTask, Ends, Goes, During,
     LinksTypeOK
<1>5. CASE PointerSteps
  BY <1>5 DEF PointerSteps, TruncatePointer, WritePointer, PointerWritten, InTask, Ends, Goes,
     During, LinksTypeOK
<1>6. CASE PullLinkSteps
  BY <1>6 DEF PullLinkSteps, RemoveOld, CreateLink, InTask, Ends, Goes, During, LinksTypeOK
<1>7. CASE Delete
  BY <1>7 DEF Delete, Ends, During
<1>8. CASE Denials
  BY <1>8 DEF Denials, CopyInDenied, PullDenied, PointDenied, LinkDenied, InPull, InTask, Refused,
     Ends, LinksTypeOK
<1>. QED
  BY <1>1, <1>2, <1>3, <1>4, <1>5, <1>6, <1>7, <1>8 DEF TaskStep

(* Every step keeps the types of what a run is at.                         *)
LEMMA RunTypes ==
  ASSUME TypeInv, [Next]_vars
  PROVE  /\ run' \in Runs \cup {NoRun} /\ pc' \in Phases
         /\ todo' \subseteq {"target"} \cup Slots /\ tasks' \in Seq(Tasks)
         /\ blocked' \in BOOLEAN /\ denied' \subseteq {"check", "task"}
         /\ acts' \in 0..MaxActs /\ before' \in Texts \cup {Absent}
         /\ pc' = "idle" <=> run' = NoRun
         /\ pc' \in {"copied", "aside", "linked", "removed", "emptied"} => tasks' # << >>
         /\ pc' # "idle" => tasks' \in Seq(TasksOf(run'.cmd))
         /\ pc' \in {"idle", "commit"} => tasks' = << >>
<1>. DEFINE Goal ==
         /\ run \in Runs \cup {NoRun} /\ pc \in Phases
         /\ todo \subseteq {"target"} \cup Slots /\ tasks \in Seq(Tasks)
         /\ blocked \in BOOLEAN /\ denied \subseteq {"check", "task"}
         /\ acts \in 0..MaxActs /\ before \in Texts \cup {Absent}
         /\ pc = "idle" <=> run = NoRun
         /\ pc \in {"copied", "aside", "linked", "removed", "emptied"} => tasks # << >>
         /\ pc # "idle" => tasks \in Seq(TasksOf(run.cmd))
         /\ pc \in {"idle", "commit"} => tasks = << >>
<1>. SUFFICES Goal'
  OBVIOUS
<1>. LinksTypeOK /\ OpsInv
  BY DEF TypeInv
<1>0. << >> \in Seq(Tasks) /\ \A cmd : << >> \in Seq(TasksOf(cmd))
  BY TaskLists
<1>1. CASE TaskStep
  <2>1. /\ pc # "idle" /\ tasks # << >> /\ Steady
        /\ denied' = denied \/ denied' = denied \cup {"task"}
        /\ \/ TaskDone
           \/ /\ pc' \in {"copied", "aside", "linked", "emptied", "removed"}
              /\ UNCHANGED tasks
    BY <1>1, TaskSteps DEF Ends
  <2>2. /\ tasks' \in Seq(TasksOf(run.cmd))
        /\ pc' \in {"exec", "copied", "aside", "linked", "emptied", "removed"}
        /\ pc' # "exec" => tasks' # << >>
    BY <2>1, DoneTypes DEF During, Steady, OpsInv
  <2>3. tasks' \in Seq(Tasks)
    BY <2>2, SeqTasks
  <2>. QED
    BY <2>1, <2>2, <2>3 DEF During, Steady, LinksTypeOK, Phases
<1>2. ASSUME NEW r \in Runs, Start(r) PROVE Goal'
  <2>1. r \in RunType /\ r # NoRun
    BY LinksAssumption DEF RunType, NoRun
  <2>2. Traversed(r) \subseteq {"target"} \cup Slots
    BY <2>1 DEF Traversed, RunType
  <2>3. Read(target) \in Texts \cup {Absent}
    BY ReadType
  <2>4. tasks' = tasks /\ tasks = << >> /\ blocked' = blocked /\ acts' \in 0..MaxActs
    BY <1>2, LinksAssumption DEF Start, Act, LinksTypeOK, OpsInv
  <2>. QED
    BY <1>0, <1>2, <2>1, <2>2, <2>3, <2>4 DEF Start, LinksTypeOK, Phases
<1>3. ASSUME NEW p \in todo, Check(p) PROVE Goal'
  <2>1. pc = "check" /\ run \in RunType /\ p \in {"target"} \cup Slots
    BY <1>3, HeadTask DEF Check, Checked, LinksTypeOK
  <2>2. tasks' \in Seq(TasksOf(run.cmd)) /\ tasks' \in Seq(Tasks)
    BY <1>3, <2>1, QueueTypes, SeqTasks DEF Check, Checked
  <2>3. Outcome(p).blocks \in BOOLEAN /\ Outcome(p).aborts \in BOOLEAN
    BY <2>1, Outcomes
  <2>4. blocked' \in BOOLEAN /\ pc' \in {"failed", "check"}
    BY <1>3, <2>3 DEF Check, Checked, LinksTypeOK
  <2>5. todo' \subseteq {"target"} \cup Slots /\ UNCHANGED <<run, acts, before, denied>>
    BY <1>3 DEF Check, Checked, LinksTypeOK
  <2>. QED
    BY <2>1, <2>2, <2>4, <2>5 DEF LinksTypeOK, Phases
<1>4. CASE Decide
  <2>1. pc = "check" /\ run \in RunType
    BY <1>4, HeadTask DEF Decide
  <2>2. tasks' \in Seq(TasksOf(run.cmd)) /\ tasks' \in Seq(Tasks)
    BY <1>4, <2>1, QueueTypes, SeqTasks DEF Decide
  <2>3. blocked' \in BOOLEAN
    BY <1>4 DEF Decide, LinksTypeOK
  <2>4. pc' \in {"failed", "commit", "exec"} /\ UNCHANGED <<run, todo, acts, before, denied>>
    BY <1>4 DEF Decide
  <2>5. pc' = "commit" => tasks' = << >>
    BY <1>4 DEF Decide
  <2>. QED
    BY <2>1, <2>2, <2>3, <2>4, <2>5 DEF LinksTypeOK, Phases
<1>5. CASE TasksDone \/ FailTask
  <2>1. pc # "idle" /\ pc' \in {"commit", "failed"} /\ (pc' = "commit" => tasks = << >>)
        /\ UNCHANGED <<tasks, run, todo, blocked, acts, before, denied>>
    <3>1. CASE TasksDone
      BY <3>1 DEF TasksDone, During, Steady
    <3>2. CASE FailTask
      BY <3>2 DEF FailTask, During, Steady, LinksTypeOK
    <3>. QED
      BY <1>5, <3>1, <3>2
  <2>. QED
    BY <2>1 DEF LinksTypeOK, OpsInv, Phases
<1>6. CASE Quit
  BY <1>0, <1>6 DEF Quit, LinksTypeOK, Phases
<1>7. CASE Idle /\ acts' \in 0..MaxActs
  BY <1>7 DEF Idle, LinksTypeOK, OpsInv
<1>8. CASE UNCHANGED vars
  BY <1>8 DEF vars, LinksTypeOK, OpsInv
<1>9. CASE User
  BY <1>7, <1>9, LinksAssumption DEF User, UserTarget, UserSource, UserOther, Act, LinksTypeOK
<1>10. ASSUME NEW p \in todo, CheckDenied(p) PROVE Goal'
  <2>1. pc = "check" /\ pc # "idle"
    BY <1>10 DEF CheckDenied, Checked
  <2>2. PICK o \in Unread(p) : Checked(p, o)
    BY <1>10 DEF CheckDenied
  <2>3. /\ tasks \o o.queue \in Seq(TasksOf(run.cmd))
        /\ o.blocks = FALSE /\ o.aborts = FALSE
    BY <2>1, UnreadTypes
  <2>4. tasks' \in Seq(TasksOf(run.cmd)) /\ tasks' \in Seq(Tasks)
    BY <2>2, <2>3, SeqTasks DEF Checked
  <2>5. /\ blocked' \in BOOLEAN /\ pc' = "check" /\ todo' \subseteq {"target"} \cup Slots
        /\ denied' \subseteq {"check", "task"} /\ UNCHANGED <<run, acts, before>>
    BY <1>10, <2>2, <2>3 DEF CheckDenied, Checked, LinksTypeOK
  <2>. QED
    BY <2>1, <2>4, <2>5 DEF LinksTypeOK, Phases
<1>. QED
  BY <1>1, <1>2, <1>3, <1>4, <1>5, <1>6, <1>8, <1>9, <1>10
     DEF Next, Process, TaskStep, Commit, Fail, Crash, Rest

(* Every step keeps which task a phase belongs to.                         *)
LEMMA OpsStep ==
  ASSUME TypeInv, [Next]_vars
  PROVE  OpsInv'
<1>. LinksTypeOK /\ OpsInv
  BY DEF TypeInv
<1>0. ASSUME pc' \notin {"copied", "aside", "linked", "emptied", "removed"} PROVE OpsInv'
  BY <1>0, RunTypes DEF OpsInv
<1>1. ASSUME NEW r \in Runs, Start(r) PROVE OpsInv'
  BY <1>1, <1>0 DEF Start, TaskDone
<1>2. ASSUME NEW p \in todo, Check(p) PROVE OpsInv'
  <2>1. pc' \in {"failed", "check"}
    BY <1>2 DEF Check, Checked
  <2>. QED
    BY <1>0, <2>1
<1>3. CASE Decide
  <2>1. pc' \in {"failed", "commit", "exec"}
    BY <1>3 DEF Decide
  <2>. QED
    BY <1>0, <2>1
<1>4. CASE Push
  BY <1>4, <1>0 DEF Push, TaskDone
<1>5. CASE Pull
  BY <1>5, <1>0 DEF Pull, InPull, WriteOut, TaskDone
<1>6. CASE RecordOnly
  BY <1>6, <1>0 DEF RecordOnly, TaskDone
<1>7. CASE CopyFirst
  BY <1>7, RunTypes DEF CopyFirst, InTask, Goes, OpsInv
<1>8. CASE MoveAside
  BY <1>8, RunTypes DEF MoveAside, InTask, Goes, OpsInv
<1>9. CASE MakeLink
  BY <1>9, RunTypes DEF MakeLink, InTask, Goes, OpsInv
<1>10. CASE DropBackup
  BY <1>10, <1>0 DEF DropBackup, TaskDone
<1>11. CASE TruncatePointer
  BY <1>11, RunTypes DEF TruncatePointer, InTask, Goes, OpsInv
<1>12. CASE WritePointer
  BY <1>12, <1>0 DEF WritePointer, PointerWritten, TaskDone
<1>13. CASE RemoveOld
  BY <1>13, RunTypes DEF RemoveOld, InTask, Goes, OpsInv
<1>14. CASE CreateLink
  BY <1>14, <1>0 DEF CreateLink, TaskDone
<1>15. CASE Delete
  BY <1>15, <1>0 DEF Delete, TaskDone
<1>16. CASE LinkDenied
  BY <1>16, <1>0 DEF LinkDenied, Refused, TaskDone
<1>17. CASE FailTask
  BY <1>17, <1>0 DEF FailTask, TaskDone
<1>18. CASE TasksDone
  BY <1>18, <1>0 DEF TasksDone, TaskDone
<1>19. CASE Commit
  BY <1>19, <1>0 DEF Commit, Quit
<1>20. CASE Fail
  BY <1>20, <1>0 DEF Fail, Quit
<1>21. CASE Crash
  BY <1>21, <1>0 DEF Crash, Quit
<1>22. CASE UserTarget
  BY <1>22, <1>0 DEF UserTarget, Act, Idle
<1>23. ASSUME NEW s \in Slots, UserSource(s) PROVE OpsInv'
  BY <1>23, <1>0 DEF UserSource, Act, Idle
<1>24. CASE UserOther
  BY <1>24, <1>0 DEF UserOther, Act, Idle
<1>25. CASE Rest
  BY <1>25, <1>0 DEF Rest, vars, TaskDone
<1>26. CASE UNCHANGED vars
  BY <1>26 DEF vars, OpsInv
<1>27. ASSUME NEW p \in todo, CheckDenied(p) PROVE OpsInv'
  <2>1. pc' \in {"failed", "check"}
    BY <1>27 DEF CheckDenied, Checked
  <2>. QED
    BY <1>0, <2>1
<1>28. CASE CopyInDenied
  BY <1>28, <1>0 DEF CopyInDenied, Refused, TaskDone
<1>29. CASE PullDenied
  BY <1>29, <1>0 DEF PullDenied, Refused, TaskDone
<1>30. CASE PointDenied
  BY <1>30, <1>0 DEF PointDenied, Refused, TaskDone
<1>. QED
  BY <1>1, <1>2, <1>3, <1>4, <1>5, <1>6, <1>7, <1>8, <1>9, <1>10, <1>11, <1>12, <1>13,
     <1>14, <1>15, <1>16, <1>17, <1>18, <1>19, <1>20, <1>21, <1>22, <1>23, <1>24, <1>25, <1>26,
     <1>27, <1>28, <1>29, <1>30
     DEF Next, Process, User, AddLinkSteps, PointerSteps, PullLinkSteps, Denials

(* What a run traverses does not change while it looks.                    *)
LEMMA SameTraversed ==
  ASSUME UNCHANGED <<target, source, run>>
  PROVE  Traversed(run)' = Traversed(run)
BY DEF Traversed

(* Every step keeps that add and sync have one path, one task and a file   *)
(* to read.                                                                *)
LEMMA FileStep ==
  ASSUME TypeInv, [Next]_vars
  PROVE  FileInv'
<1>. LinksTypeOK /\ OpsInv /\ FileInv
  BY DEF TypeInv
<1>0. ASSUME run'.cmd \notin {"add", "sync"} PROVE FileInv'
  BY <1>0 DEF FileInv
<1>only. ASSUME run.cmd \in {"add", "sync"}, UNCHANGED <<run, todo>>, todo = {},
                tasks' = << >>, pc' # "aside"
         PROVE  FileInv'
  BY <1>only DEF FileInv, OnePath, OneTask
<1>done. ASSUME TaskStep, TaskDone PROVE FileInv'
  <2>. SUFFICES ASSUME run'.cmd \in {"add", "sync"} PROVE FileInv'
    BY <1>0
  <2>1. pc # "idle" /\ pc # "check" /\ UNCHANGED <<run, todo>>
    BY <1>done, TaskSteps
       DEF During, Steady, TaskStep, Push, Pull, InPull, WriteOut, RecordOnly, AddLinkSteps,
           PointerSteps, PullLinkSteps, CopyFirst, MoveAside, MakeLink, DropBackup,
           TruncatePointer, WritePointer, PointerWritten, RemoveOld,
           CreateLink, Delete, Denials, CopyInDenied, PullDenied, PointDenied, LinkDenied, InTask
  <2>2. OneTask /\ todo = {}
    BY <2>1 DEF FileInv, OnePath
  <2>. QED
    BY <1>done, <1>only, <2>1, <2>2, TaskSteps, DoneTypes DEF TaskDone
<1>1. ASSUME NEW r \in Runs, Start(r) PROVE FileInv'
  <2>. SUFFICES ASSUME run'.cmd \in {"add", "sync"} PROVE FileInv'
    BY <1>0
  <2>1. /\ run' = r /\ tasks' = << >> /\ pc' = "check" /\ todo' = Traversed(r)
        /\ UNCHANGED <<target, source>>
    BY <1>1 DEF Start, files, Act, OpsInv
  <2>2. Traversed(run)' = Traversed(r)
    BY <2>1 DEF Traversed
  <2>3. \A p, q \in Traversed(r) : p = q
    BY <2>1 DEF Traversed
  <2>. QED
    BY <2>1, <2>2, <2>3 DEF FileInv, OnePath, OneTask
<1>2. ASSUME NEW p \in todo, Check(p) PROVE FileInv'
  <2>. SUFFICES ASSUME run'.cmd \in {"add", "sync"} PROVE FileInv'
    BY <1>0
  <2>1. /\ run' = run /\ run \in RunType /\ run.cmd \in {"add", "sync"} /\ pc = "check"
        /\ UNCHANGED target
    BY <1>2, HeadTask DEF Check, Checked, files
  <2>2. tasks = << >> /\ todo = {p} /\ p \in {"target"} \cup Slots
    BY <1>2, <2>1 DEF FileInv, OnePath, LinksTypeOK
  <2>3. OneGood(Outcome(p), run.cmd)
    BY <2>1, AddOutcome, SyncOutcome DEF Outcome
  <2>4. Outcome(p).queue \in Seq(TasksOf(run.cmd))
    BY <2>1, <2>2, Outcomes
  <2>5. tasks' = Outcome(p).queue /\ todo' = {} /\ pc' \in {"check", "failed"}
    BY <1>2, <2>2, <2>4, TaskLists DEF Check, Checked
  <2>6. CASE tasks' = << >>
    BY <2>5, <2>6 DEF FileInv, OnePath, OneTask
  <2>7. ASSUME NEW t \in TasksOf(run.cmd), tasks' = <<t>>,
               t.op \in {"push", "record", "addlink"} => IsFile
        PROVE  FileInv'
    <3>1. t \in Tasks /\ Head(tasks') = t
      BY <2>7 DEF TasksOf
    <3>2. OneTask'
      BY <2>7, <3>1 DEF OneTask
    <3>3. Reading' => IsFile'
      BY <2>1, <2>7, <3>1 DEF Reading, IsFile
    <3>. QED
      BY <2>5, <3>2, <3>3 DEF FileInv, OnePath
  <2>. QED
    BY <2>3, <2>5, <2>6, <2>7 DEF OneGood
<1>3. CASE Decide
  <2>. SUFFICES ASSUME run'.cmd \in {"add", "sync"} PROVE FileInv'
    BY <1>0
  <2>1. /\ UNCHANGED <<run, target>> /\ run.cmd \in {"add", "sync"} /\ todo' = {} /\ pc = "check"
        /\ pc' \in {"failed", "commit", "exec"}
    BY <1>3 DEF Decide, files
  <2>2. tasks' = tasks
    BY <1>3, <2>1, QueueTypes DEF Decide
  <2>. QED
    BY <2>1, <2>2 DEF FileInv, OnePath, OneTask, Reading, IsFile
<1>4. CASE Push
  BY <1>4, <1>done DEF Push, TaskStep, AddLinkSteps, PointerSteps, PullLinkSteps
<1>5. CASE Pull
  BY <1>5, <1>done DEF Pull, InPull, WriteOut, TaskStep, AddLinkSteps, PointerSteps, PullLinkSteps
<1>6. CASE RecordOnly
  BY <1>6, <1>done DEF RecordOnly, TaskStep, AddLinkSteps, PointerSteps, PullLinkSteps
<1>7. CASE CopyFirst
  <2>. SUFFICES ASSUME run'.cmd \in {"add", "sync"} PROVE FileInv'
    BY <1>0
  <2>1. UNCHANGED <<run, todo, tasks>> /\ todo = {} /\ OneTask
    BY <1>7 DEF CopyFirst, Goes, During, Steady, InTask, FileInv, OnePath
  <2>2. IsFile /\ pc' = "copied" /\ target' = target
    BY <1>7, CopiedIsFile DEF CopyFirst, Goes, CopyIn, WriteIn
  <2>. QED
    BY <2>1, <2>2 DEF FileInv, OnePath, OneTask, IsFile
<1>8. CASE MoveAside
  <2>. SUFFICES ASSUME run'.cmd \in {"add", "sync"} PROVE FileInv'
    BY <1>0
  <2>1. UNCHANGED <<run, todo, tasks>> /\ todo = {} /\ OneTask
    BY <1>8 DEF MoveAside, Goes, During, Steady, InTask, FileInv, OnePath
  <2>2. target.text \in Texts
    BY <1>8, CopiedIsFile, ObjectParts DEF MoveAside
  <2>3. backup' # Absent /\ pc' = "aside"
    BY <1>8, <2>2, LinksAssumption DEF MoveAside, Goes
  <2>. QED
    BY <2>1, <2>3 DEF FileInv, OnePath, OneTask
<1>9. CASE MakeLink
  <2>. SUFFICES ASSUME run'.cmd \in {"add", "sync"} PROVE FileInv'
    BY <1>0
  <2>1. UNCHANGED <<run, todo, tasks>> /\ todo = {} /\ OneTask
    BY <1>9 DEF MakeLink, Goes, During, Steady, InTask, FileInv, OnePath
  <2>. QED
    BY <1>9, <2>1 DEF MakeLink, Goes, FileInv, OnePath, OneTask
<1>10. CASE DropBackup
  BY <1>10, <1>done DEF DropBackup, TaskStep, AddLinkSteps, PointerSteps, PullLinkSteps
<1>11. CASE TruncatePointer
  <2>. SUFFICES ASSUME run'.cmd \in {"add", "sync"} PROVE FileInv'
    BY <1>0
  <2>1. UNCHANGED <<run, todo, tasks>> /\ todo = {} /\ OneTask
    BY <1>11 DEF TruncatePointer, Goes, During, Steady, InTask, FileInv, OnePath
  <2>. QED
    BY <1>11, <2>1 DEF TruncatePointer, Goes, FileInv, OnePath, OneTask
<1>12. CASE WritePointer
  BY <1>12, <1>done DEF WritePointer, PointerWritten, TaskStep, AddLinkSteps, PointerSteps, PullLinkSteps
<1>13. CASE RemoveOld
  <2>. SUFFICES ASSUME run'.cmd \in {"add", "sync"} PROVE FileInv'
    BY <1>0
  <2>1. UNCHANGED <<run, todo, tasks>> /\ todo = {} /\ OneTask
    BY <1>13 DEF RemoveOld, Goes, During, Steady, InTask, FileInv, OnePath
  <2>. QED
    BY <1>13, <2>1 DEF RemoveOld, Goes, FileInv, OnePath, OneTask
<1>14. CASE CreateLink
  BY <1>14, <1>done DEF CreateLink, TaskStep, AddLinkSteps, PointerSteps, PullLinkSteps
<1>15. CASE Delete
  BY <1>15, <1>done DEF Delete, TaskStep, AddLinkSteps, PointerSteps, PullLinkSteps
<1>16. CASE LinkDenied
  BY <1>16, <1>done DEF LinkDenied, Refused, TaskStep, Denials
<1>17. CASE FailTask
  <2>. SUFFICES ASSUME run'.cmd \in {"add", "sync"} PROVE FileInv'
    BY <1>0
  <2>1. UNCHANGED <<run, todo, tasks>> /\ todo = {} /\ OneTask /\ pc' = "failed"
    BY <1>17 DEF FailTask, During, Steady, FileInv, OnePath
  <2>. QED
    BY <2>1 DEF FileInv, OnePath, OneTask
<1>18. CASE TasksDone
  <2>. SUFFICES ASSUME run'.cmd \in {"add", "sync"} PROVE FileInv'
    BY <1>0
  <2>1. UNCHANGED <<run, todo, tasks>> /\ tasks = << >> /\ pc' = "commit" /\ todo = {}
    BY <1>18 DEF TasksDone, During, Steady, FileInv, OnePath
  <2>. QED
    BY <2>1 DEF FileInv, OnePath, OneTask
<1>19. CASE Commit
  <2>1. run' = NoRun /\ NoRun.cmd = "none"
    BY <1>19 DEF Commit, Quit, NoRun
  <2>. QED
    BY <1>0, <2>1
<1>20. CASE Fail
  <2>1. run' = NoRun /\ NoRun.cmd = "none"
    BY <1>20 DEF Fail, Quit, NoRun
  <2>. QED
    BY <1>0, <2>1
<1>21. CASE Crash
  <2>1. run' = NoRun /\ NoRun.cmd = "none"
    BY <1>21 DEF Crash, Quit, NoRun
  <2>. QED
    BY <1>0, <2>1
<1>22. CASE UserTarget
  BY <1>22, <1>0 DEF UserTarget, Act, Idle, LinksTypeOK, NoRun
<1>23. ASSUME NEW s \in Slots, UserSource(s) PROVE FileInv'
  BY <1>23, <1>0 DEF UserSource, Act, Idle, LinksTypeOK, NoRun
<1>24. CASE UserOther
  BY <1>24, <1>0 DEF UserOther, Act, Idle, LinksTypeOK, NoRun
<1>25. CASE Rest
  BY <1>25, <1>0 DEF Rest, vars, LinksTypeOK, NoRun
<1>26. CASE UNCHANGED vars
  BY <1>26, SameTraversed DEF vars, files, FileInv, OnePath, OneTask, Reading, IsFile
<1>27. ASSUME NEW p \in todo, CheckDenied(p) PROVE FileInv'
  <2>. SUFFICES ASSUME run'.cmd \in {"add", "sync"} PROVE FileInv'
    BY <1>0
  <2>1. run' = run /\ run.cmd \in {"add", "sync"} /\ pc = "check"
    BY <1>27 DEF CheckDenied, Checked
  <2>2. tasks = << >> /\ todo = {p}
    BY <1>27, <2>1 DEF FileInv, OnePath, LinksTypeOK
  <2>3. Unread(p) = {Skip}
    BY <2>1 DEF Unread
  <2>4. tasks' = << >> /\ todo' = {} /\ pc' \in {"check", "failed"}
    BY <1>27, <2>2, <2>3, Parts DEF CheckDenied, Checked
  <2>. QED
    BY <2>4 DEF FileInv, OnePath, OneTask
<1>28. CASE CopyInDenied
  BY <1>28, <1>done DEF CopyInDenied, Refused, TaskStep, Denials
<1>29. CASE PullDenied
  BY <1>29, <1>done DEF PullDenied, Refused, TaskStep, Denials
<1>30. CASE PointDenied
  BY <1>30, <1>done DEF PointDenied, Refused, TaskStep, Denials
<1>. QED
  BY <1>1, <1>2, <1>3, <1>4, <1>5, <1>6, <1>7, <1>8, <1>9, <1>10, <1>11, <1>12, <1>13,
     <1>14, <1>15, <1>16, <1>17, <1>18, <1>19, <1>20, <1>21, <1>22, <1>23, <1>24, <1>25, <1>26,
     <1>27, <1>28, <1>29, <1>30
     DEF Next, Process, User, AddLinkSteps, PointerSteps, PullLinkSteps, Denials

(* Every step keeps the types.                                             *)
LEMMA TypeStep ==
  ASSUME TypeInv, [Next]_vars
  PROVE  TypeInv'
BY StateTypes, RunTypes, OpsStep, FileStep DEF TypeInv, LinksTypeOK

(* The types hold in every reachable state.                                *)
THEOREM TypeCorrect == Spec => []LinksTypeOK
<1>1. Init => TypeInv
  BY InitHolds DEF LinksInv
<1>2. TypeInv /\ [Next]_vars => TypeInv'
  BY TypeStep
<1>3. TypeInv => LinksTypeOK
  BY DEF TypeInv
<1>. QED
  BY <1>1, <1>2, <1>3, PTL DEF Spec

-----------------------------------------------------------------------------
(* add keeps what the target reads                                         *)

(* What a target reads depends on itself, the plain source and the other   *)
(* files.                                                                  *)
LEMMA SameRead ==
  ASSUME UNCHANGED <<target, other>>, source'["plain"] = source["plain"]
  PROVE  Read(target)' = Read(target)
BY DEF Read, At

(* The link add makes reads what the plain source holds.                   *)
LEMMA LinkReads ==
  ASSUME target' = Link("ownRel")
  PROVE  Read(target)' = source'["plain"]
<1>1. "ownRel" \in Texts \ {Empty}
  BY DEF Texts, Pointees, Empty
<1>2. target' \in Objects /\ target'.kind = "link" /\ target'.text = "ownRel"
  BY <1>1 DEF Objects, Link
<1>3. target' # Absent
  BY <1>2, LinksAssumption
<1>. QED
  BY <1>2, <1>3 DEF Read, At, Where

(* Every step keeps where the content is.                                  *)
LEMMA KeptStep ==
  ASSUME TypeInv, KeptInv, [Next]_vars
  PROVE  KeptInv'
<1>. LinksTypeOK /\ OpsInv /\ FileInv
  BY DEF TypeInv
<1>. SUFFICES ASSUME run'.cmd = "add" PROVE KeptInv'
  BY DEF KeptInv
<1>ops. run.cmd = "add" /\ pc # "idle" =>
          /\ tasks # << >> => Head(tasks).op \in {"push", "record", "addlink", "point"}
          /\ pc # "removed"
  <2>. SUFFICES ASSUME run.cmd = "add", pc # "idle"
                PROVE  /\ tasks # << >> => Head(tasks).op \in {"push", "record", "addlink", "point"}
                       /\ pc # "removed"
    OBVIOUS
  <2>1. tasks # << >> => Head(tasks).op \in {"push", "record", "addlink", "point"}
    BY HeadTask DEF OpsOf
  <2>. QED
    BY <2>1 DEF OpsInv, LinksTypeOK
<1>same. ASSUME UNCHANGED <<target, other, before, run>>, source'["plain"] = source["plain"],
                pc # "aside", pc # "failed", pc' \notin {"copied", "aside", "linked"}
         PROVE  KeptInv'
  <2>1. Read(target)' = Read(target)
    BY <1>same, SameRead
  <2>. QED
    BY <1>same, <2>1 DEF KeptInv
<1>aside. run.cmd = "add" /\ pc = "aside" => backup # Absent
  BY DEF FileInv
<1>1. ASSUME NEW r \in Runs, Start(r) PROVE KeptInv'
  <2>1. run' = r /\ before' = Read(target) /\ pc' = "check" /\ UNCHANGED <<target, source, other>>
    BY <1>1 DEF Start, files
  <2>2. Read(target)' = Read(target)
    BY <2>1, SameRead
  <2>. QED
    BY <2>1, <2>2 DEF KeptInv
<1>2. ASSUME NEW p \in todo, Check(p) PROVE KeptInv'
  <2>1. /\ UNCHANGED <<target, source, other, before, run>> /\ pc # "aside" /\ pc # "failed"
        /\ pc' \notin {"copied", "aside", "linked"}
    BY <1>2 DEF Check, Checked, files
  <2>. QED
    BY <1>same, <2>1
<1>3. CASE Decide
  <2>1. /\ UNCHANGED <<target, source, other, before, run>> /\ pc # "aside" /\ pc # "failed"
        /\ pc' \notin {"copied", "aside", "linked"}
    BY <1>3 DEF Decide, files
  <2>. QED
    BY <1>same, <2>1
<1>4. CASE Push
  <2>1. pc = "exec" /\ pc' = "exec" /\ UNCHANGED <<target, before, run>> /\ IsFile
    BY <1>4, CopiedIsFile DEF Push, InTask, TaskDone, During, Steady, CopyIn, WriteIn
  <2>2. Read(target)' = Read(target)
    BY <2>1 DEF Read, IsFile
  <2>. QED
    BY <2>1, <2>2 DEF KeptInv
<1>5. CASE Pull
  BY <1>5, <1>ops DEF Pull, InPull, WriteOut, InTask, During, Steady
<1>6. CASE RecordOnly
  <2>1. /\ UNCHANGED <<target, source, other, before, run>> /\ pc # "aside" /\ pc # "failed"
        /\ pc' \notin {"copied", "aside", "linked"}
    BY <1>6 DEF RecordOnly, InTask, TaskDone, During, Steady, files
  <2>. QED
    BY <1>same, <2>1
<1>7. CASE CopyFirst
  <2>1. /\ pc = "exec" /\ pc' = "copied" /\ UNCHANGED <<target, before, run>> /\ IsFile
        /\ CopyIn("plain")
    BY <1>7, CopiedIsFile DEF CopyFirst, InTask, Goes, During, Steady, CopyIn, WriteIn
  <2>2. Read(target) = target.text /\ Read(target)' = Read(target)
    BY <2>1 DEF Read, IsFile
  <2>3. source'["plain"] = target.text
    BY <2>1, CopyInTypes DEF Slots
  <2>. QED
    BY <2>1, <2>2, <2>3 DEF KeptInv
<1>8. CASE MoveAside
  <2>1. /\ pc = "copied" /\ pc' = "aside" /\ UNCHANGED <<source, before, run>> /\ IsFile
        /\ backup' = target.text
    BY <1>8, CopiedIsFile DEF MoveAside, Goes, During, Steady
  <2>2. Read(target) = target.text
    BY <2>1 DEF Read, IsFile
  <2>. QED
    BY <2>1, <2>2 DEF KeptInv
<1>9. CASE MakeLink
  <2>1. /\ pc = "aside" /\ pc' = "linked" /\ UNCHANGED <<source, before, run>>
        /\ target' = Link("ownRel")
    BY <1>9 DEF MakeLink, Goes, During, Steady
  <2>2. Read(target)' = source'["plain"]
    BY <2>1, LinkReads
  <2>. QED
    BY <2>1, <2>2 DEF KeptInv
<1>10. CASE DropBackup
  <2>1. pc = "linked" /\ pc' = "exec" /\ UNCHANGED <<source, before, run, target>>
    BY <1>10 DEF DropBackup, TaskDone, During, Steady
  <2>2. target' = Link("ownRel") /\ source["plain"] = before
    BY <2>1 DEF KeptInv
  <2>3. Read(target)' = source'["plain"]
    BY <2>2, LinkReads
  <2>. QED
    BY <2>1, <2>2, <2>3 DEF KeptInv
<1>11. CASE TruncatePointer
  <2>1. /\ UNCHANGED <<target, other, before, run>> /\ source'["plain"] = source["plain"]
        /\ pc # "aside" /\ pc # "failed" /\ pc' \notin {"copied", "aside", "linked"}
    BY <1>11 DEF TruncatePointer, InTask, Goes, During, Steady, LinksTypeOK, Slots
  <2>. QED
    BY <1>same, <2>1
<1>12. CASE WritePointer
  <2>1. /\ UNCHANGED <<target, other, before, run>> /\ source'["plain"] = source["plain"]
        /\ pc # "aside" /\ pc # "failed" /\ pc' \notin {"copied", "aside", "linked"}
    BY <1>12 DEF WritePointer, PointerWritten, TaskDone, During, Steady, LinksTypeOK, Slots
  <2>. QED
    BY <1>same, <2>1
<1>13. CASE RemoveOld
  BY <1>13, <1>ops DEF RemoveOld, InTask, During, Steady
<1>14. CASE CreateLink
  BY <1>14, <1>ops DEF CreateLink, During, Steady
<1>15. CASE Delete
  BY <1>15, <1>ops DEF Delete, During, Steady
<1>16. CASE LinkDenied
  BY <1>16, <1>ops DEF LinkDenied, Refused, During, Steady
<1>17. CASE FailTask
  <2>1. /\ UNCHANGED <<source, other, before, run>> /\ pc' = "failed" /\ pc # "idle" /\ pc # "failed"
        /\ \/ pc = "aside" /\ Restored
           \/ UNCHANGED <<target, backup>>
    BY <1>17 DEF FailTask, During, Steady, LinksTypeOK
  <2>2. CASE pc = "aside" /\ Restored
    <3>1. backup = before /\ backup \in Texts
      BY <2>1, <2>2, <1>aside DEF KeptInv, LinksTypeOK
    <3>2. Read(target)' = backup
      BY <2>2, <3>1, LinksAssumption DEF Restored, Read, File, Objects
    <3>. QED
      BY <2>1, <3>1, <3>2 DEF KeptInv
  <2>3. CASE UNCHANGED <<target, backup>>
    <3>1. Read(target)' = Read(target)
      BY <2>1, <2>3, SameRead
    <3>. QED
      BY <2>1, <2>3, <3>1 DEF KeptInv
  <2>. QED
    BY <2>1, <2>2, <2>3
<1>18. CASE TasksDone
  <2>1. /\ UNCHANGED <<target, source, other, before, run>> /\ pc # "aside" /\ pc # "failed"
        /\ pc' \notin {"copied", "aside", "linked"}
    BY <1>18 DEF TasksDone, During, Steady, files
  <2>. QED
    BY <1>same, <2>1
<1>19. CASE Commit
  <2>1. run' = NoRun /\ NoRun.cmd = "none"
    BY <1>19 DEF Commit, Quit, NoRun
  <2>. QED
    BY <2>1
<1>20. CASE Fail
  <2>1. run' = NoRun /\ NoRun.cmd = "none"
    BY <1>20 DEF Fail, Quit, NoRun
  <2>. QED
    BY <2>1
<1>21. CASE Crash
  <2>1. run' = NoRun /\ NoRun.cmd = "none"
    BY <1>21 DEF Crash, Quit, NoRun
  <2>. QED
    BY <2>1
<1>22. CASE UserTarget
  BY <1>22 DEF UserTarget, Act, Idle, LinksTypeOK, NoRun
<1>23. ASSUME NEW s \in Slots, UserSource(s) PROVE KeptInv'
  BY <1>23 DEF UserSource, Act, Idle, LinksTypeOK, NoRun
<1>24. CASE UserOther
  BY <1>24 DEF UserOther, Act, Idle, LinksTypeOK, NoRun
<1>25. CASE Rest
  BY <1>25 DEF Rest, vars, LinksTypeOK, NoRun
<1>26. CASE UNCHANGED vars
  <2>1. UNCHANGED <<target, source, other, before, run, pc, backup>>
    BY <1>26 DEF vars, files
  <2>2. Read(target)' = Read(target)
    BY <2>1, SameRead
  <2>. QED
    BY <2>1, <2>2 DEF KeptInv
<1>27. ASSUME NEW p \in todo, CheckDenied(p) PROVE KeptInv'
  <2>1. /\ UNCHANGED <<target, source, other, before, run>> /\ pc # "aside" /\ pc # "failed"
        /\ pc' \notin {"copied", "aside", "linked"}
    BY <1>27 DEF CheckDenied, Checked, files
  <2>. QED
    BY <1>same, <2>1
<1>28. CASE CopyInDenied
  <2>1. pc = "exec" /\ pc' = "exec" /\ UNCHANGED <<target, before, run>> /\ IsFile
    BY <1>28, CopiedIsFile
       DEF CopyInDenied, InTask, Refused, TaskDone, Steady, CopyIn, WriteIn, files
  <2>2. Read(target)' = Read(target)
    BY <2>1 DEF Read, IsFile
  <2>. QED
    BY <2>1, <2>2 DEF KeptInv
<1>29. CASE PullDenied
  BY <1>29, <1>ops DEF PullDenied, InPull, InTask, Refused, Steady
<1>30. CASE PointDenied
  BY <1>30 DEF PointDenied, Refused, Steady
<1>. QED
  BY <1>1, <1>2, <1>3, <1>4, <1>5, <1>6, <1>7, <1>8, <1>9, <1>10, <1>11, <1>12, <1>13,
     <1>14, <1>15, <1>16, <1>17, <1>18, <1>19, <1>20, <1>21, <1>22, <1>23, <1>24, <1>25, <1>26,
     <1>27, <1>28, <1>29, <1>30
     DEF Next, Process, User, AddLinkSteps, PointerSteps, PullLinkSteps, Denials

(* A run under way is the same, or ends without touching the files.        *)
LEMMA RunStays ==
  ASSUME TypeInv, [Next]_vars, run.cmd \in {"add", "pull", "sync"}
  PROVE  UNCHANGED <<run, before>> \/ (UNCHANGED <<target, source, other, backup, before>> /\ run' = NoRun)
<1>. DEFINE Goal == \/ UNCHANGED <<run, before>>
                    \/ UNCHANGED <<target, source, other, backup, before>> /\ run' = NoRun
<1>. SUFFICES Goal
  OBVIOUS
<1>. pc # "idle" /\ TypeInv
  BY DEF TypeInv, LinksTypeOK, NoRun
<1>1. CASE TaskStep
  BY <1>1, TaskSteps DEF During, Steady
<1>2. CASE Quit
  BY <1>2 DEF Quit, files
<1>3. ASSUME NEW r \in Runs, Start(r) PROVE Goal
  BY <1>3 DEF Start, Act
<1>4. ASSUME NEW p \in todo, Check(p) PROVE Goal
  BY <1>4 DEF Check, Checked
<1>5. CASE Decide
  BY <1>5 DEF Decide
<1>6. CASE TasksDone \/ FailTask
  BY <1>6 DEF TasksDone, FailTask, During, Steady
<1>7. CASE User
  BY <1>7 DEF User, UserTarget, UserSource, UserOther, Act
<1>8. CASE UNCHANGED vars
  BY <1>8 DEF vars
<1>9. ASSUME NEW p \in todo, CheckDenied(p) PROVE Goal
  BY <1>9 DEF CheckDenied, Checked
<1>. QED
  BY <1>1, <1>2, <1>3, <1>4, <1>5, <1>6, <1>7, <1>8, <1>9
     DEF Next, Process, TaskStep, Commit, Fail, Crash, Rest

(* Whatever a step of add does, the content is read through the target or  *)
(* is in the backup file.                                                  *)
LEMMA KeptAtEveryStep ==
  ASSUME TypeInv, KeptInv, [Next]_vars, run.cmd = "add"
  PROVE  Read(target)' = before \/ backup' = before
<1>1. CASE UNCHANGED <<run, before>>
  BY <1>1, KeptStep DEF KeptInv
<1>2. CASE UNCHANGED <<target, source, other, backup, before>>
  <2>1. Read(target)' = Read(target)
    BY <1>2, SameRead
  <2>. QED
    BY <1>2, <2>1 DEF KeptInv
<1>. QED
  BY <1>1, <1>2, RunStays

(* add takes nothing away, whatever the user had at the name, wherever it  *)
(* fails and wherever it is killed (AddKeepsContent).                      *)
THEOREM AddKeepsTheContent == Spec => AddKeepsContent
<1>. DEFINE I == TypeInv /\ KeptInv
<1>1. Init => I
  BY InitHolds DEF LinksInv
<1>2. I /\ [Next]_vars => I'
  BY TypeStep, KeptStep
<1>3. I /\ [Next]_vars => [run.cmd = "add" => Read(target)' = before \/ backup' = before]_vars
  BY KeptAtEveryStep
<1>. QED
  BY <1>1, <1>2, <1>3, PTL DEF Spec, AddKeepsContent

-----------------------------------------------------------------------------
(* pull makes the link the pointer file says                               *)

(* Every step keeps that the link leads there or is to be made.            *)
LEMMA LeadsStep ==
  ASSUME TypeInv, LeadsInv, [Next]_vars
  PROVE  LeadsInv'
<1>. LinksTypeOK /\ OpsInv
  BY DEF TypeInv
<1>. SUFFICES ASSUME run'.cmd = "pull", "check" \notin denied', source'["plain"] = Absent,
                     PointerExists'
              PROVE  LeadsInv'
  BY DEF LeadsInv
<1>was. /\ run.cmd = "pull" /\ "check" \notin denied /\ source["plain"] = Absent /\ PointerExists
        =>
          /\ OnePath
          /\ tasks # << >> => Head(tasks).op = "mklink" /\ Head(tasks).text = source["pointer"]
          /\ pc = "removed" => target = Absent
          /\ pc \in {"check", "exec", "commit"} /\ tasks = << >> /\ todo = {} => LeadsThere
  BY DEF LeadsInv
<1>ops. run.cmd = "pull" /\ pc # "idle" =>
          /\ tasks # << >> => Head(tasks).op \in {"pull", "mklink"}
          /\ pc \notin {"copied", "aside", "linked", "emptied"}
  <2>. SUFFICES ASSUME run.cmd = "pull", pc # "idle"
                PROVE  /\ tasks # << >> => Head(tasks).op \in {"pull", "mklink"}
                       /\ pc \notin {"copied", "aside", "linked", "emptied"}
    OBVIOUS
  <2>1. tasks # << >> => Head(tasks).op \in {"pull", "mklink"}
    BY HeadTask DEF OpsOf
  <2>. QED
    BY <2>1 DEF OpsInv, LinksTypeOK
<1>same. ASSUME UNCHANGED <<target, source, run, tasks, todo>>, "check" \notin denied,
                pc' = pc \/ /\ pc \in {"check", "exec"} /\ pc' \in {"exec", "commit", "failed"}
                            /\ pc = "check" => todo = {}
         PROVE  LeadsInv'
  <2>1. OneTask' = OneTask /\ Traversed(run)' = Traversed(run) /\ LeadsThere' = LeadsThere
        /\ PointerExists' = PointerExists
    BY <1>same DEF OneTask, Traversed, LeadsThere, IsLink, PointerExists
  <2>2. PointerExists /\ run.cmd = "pull" /\ source["plain"] = Absent
    BY <1>same, <2>1
  <2>3. OnePath'
    BY <1>same, <1>was, <2>1, <2>2 DEF OnePath
  <2>. QED
    BY <1>same, <1>was, <2>1, <2>2, <2>3 DEF LeadsInv
<1>1. ASSUME NEW r \in Runs, Start(r) PROVE LeadsInv'
  <2>1. /\ UNCHANGED <<target, source>> /\ run' = r /\ tasks' = << >> /\ pc' = "check"
        /\ todo' = Traversed(r)
    BY <1>1 DEF Start, files, Act, OpsInv
  <2>2. \A p, q \in Traversed(r) : p = q
    BY <2>1 DEF Traversed, Slots
  <2>3. Traversed(run)' = Traversed(r)
    BY <2>1 DEF Traversed
  <2>4. Traversed(r) # {}
    BY <2>1 DEF Traversed, Slots, PointerExists
  <2>. QED
    BY <2>1, <2>2, <2>3, <2>4 DEF LeadsInv, OnePath, OneTask
<1>2. ASSUME NEW p \in todo, Check(p) PROVE LeadsInv'
  <2>1. UNCHANGED <<target, source, run>> /\ pc = "check" /\ run \in RunType /\ PointerExists
        /\ "check" \notin denied
    BY <1>2, HeadTask DEF Check, Checked, files, PointerExists
  <2>2. tasks = << >> /\ todo = {p} /\ p \in {"target"} \cup Slots
    BY <1>2, <2>1, <1>was DEF OnePath, LinksTypeOK
  <2>3. Outcome(p).queue \in Seq(TasksOf(run.cmd))
    BY <2>1, <2>2, Outcomes
  <2>4. tasks' = Outcome(p).queue /\ todo' = {} /\ pc' \in {"check", "failed"}
    BY <1>2, <2>2, <2>3, TaskLists DEF Check, Checked
  <2>. DEFINE t == Task("mklink", "pointer", source["pointer"])
  <2>5. \/ tasks' = << >> /\ LeadsThere
        \/ tasks' = <<t>>
    BY <2>1, <2>2, <2>4, <1>was, PullOutcome DEF Outcome
  <2>6. t \in Tasks /\ t.op = "mklink" /\ t.text = source["pointer"]
    BY <2>1, Parts DEF Ops, Slots, LinksTypeOK, PointerExists
  <2>. HIDE DEF t
  <2>7. LeadsThere' = LeadsThere
    BY <2>1 DEF LeadsThere, IsLink
  <2>8. CASE tasks' = << >> /\ LeadsThere
    BY <2>4, <2>7, <2>8 DEF LeadsInv, OnePath, OneTask
  <2>9. CASE tasks' = <<t>>
    <3>1. Head(tasks') = t /\ tasks' # << >> /\ OneTask'
      BY <2>6, <2>9 DEF OneTask
    <3>. QED
      BY <2>1, <2>4, <2>6, <3>1 DEF LeadsInv, OnePath
  <2>. QED
    BY <2>5, <2>8, <2>9
<1>3. CASE Decide
  <2>1. UNCHANGED <<target, source, run, todo>> /\ pc = "check" /\ todo = {}
        /\ "check" \notin denied
        /\ pc' \in {"failed", "commit", "exec"}
    BY <1>3 DEF Decide, files
  <2>2. tasks' = tasks
    BY <1>3, <2>1, QueueTypes DEF Decide
  <2>. QED
    BY <2>1, <2>2, <1>same
<1>4. CASE Push
  BY <1>4, <1>was, <1>ops DEF Push, InTask, During, Steady
<1>5. CASE Pull
  <2>1. run.cmd = "pull" /\ UNCHANGED source /\ pc = "exec" /\ tasks # << >>
        /\ Head(tasks).op = "pull" /\ PointerExists /\ "check" \notin denied
    BY <1>5 DEF Pull, InPull, WriteOut, InTask, During, Steady, PointerExists
  <2>. QED
    BY <2>1, <1>was
<1>6. CASE RecordOnly
  BY <1>6, <1>was, <1>ops DEF RecordOnly, InTask, During, Steady
<1>7. CASE CopyFirst
  BY <1>7, <1>was, <1>ops DEF CopyFirst, InTask, During, Steady
<1>8. CASE MoveAside
  BY <1>8, <1>was, <1>ops DEF MoveAside, During, Steady
<1>9. CASE MakeLink
  BY <1>9, <1>was, <1>ops DEF MakeLink, During, Steady
<1>10. CASE DropBackup
  BY <1>10, <1>was, <1>ops DEF DropBackup, During, Steady
<1>11. CASE TruncatePointer
  BY <1>11, <1>was, <1>ops DEF TruncatePointer, InTask, During, Steady
<1>12. CASE WritePointer
  BY <1>12, <1>was, <1>ops DEF WritePointer, PointerWritten, During, Steady
<1>13. CASE RemoveOld
  <2>1. /\ run' = run /\ UNCHANGED <<source, tasks, todo>> /\ pc' = "removed" /\ target' = Absent
        /\ pc = "exec" /\ "check" \notin denied
    BY <1>13 DEF RemoveOld, InTask, Goes, During, Steady
  <2>2. run.cmd = "pull" /\ source["plain"] = Absent /\ PointerExists
    BY <2>1 DEF PointerExists
  <2>3. OneTask' /\ todo' = {}
    BY <2>1, <2>2, <1>was DEF OnePath, OneTask
  <2>. QED
    BY <2>1, <2>2, <2>3, <1>was DEF LeadsInv, OnePath
<1>14. CASE CreateLink
  <2>1. /\ run' = run /\ UNCHANGED <<source, todo>> /\ pc = "removed" /\ TaskDone /\ tasks # << >>
        /\ pc' = "exec" /\ "check" \notin denied
    BY <1>14 DEF CreateLink, TaskDone, During, Steady, files, LinksTypeOK
  <2>2. run.cmd = "pull" /\ source["plain"] = Absent /\ PointerExists
    BY <2>1 DEF PointerExists
  <2>3. OneTask /\ todo' = {}
    BY <2>1, <2>2, <1>was DEF OnePath
  <2>4. tasks' = << >>
    BY <2>1, <2>3, DoneTypes
  <2>5. LeadsThere'
    <3>. DEFINE p == Head(tasks).text
    <3>1. p = source["pointer"] /\ target' = Link(StripDot(p))
      BY <1>14, <2>1, <2>2, <1>was DEF CreateLink
    <3>. HIDE DEF p
    <3>2. Where(StripDot(p)) = Where(p)
      BY DEF Where, StripDot
    <3>3. target'.text = StripDot(p)
      BY <3>1 DEF Link
    <3>. QED
      BY <2>1, <3>1, <3>2, <3>3 DEF LeadsThere
  <2>. QED
    BY <2>1, <2>3, <2>4, <2>5 DEF LeadsInv, OnePath, OneTask
<1>15. CASE Delete
  BY <1>15, <1>was, <1>ops DEF Delete, During, Steady
<1>16. CASE LinkDenied
  <2>1. /\ run' = run /\ UNCHANGED <<source, todo>> /\ pc = "removed" /\ TaskDone /\ tasks # << >>
        /\ pc' = "exec" /\ "check" \notin denied
    BY <1>16 DEF LinkDenied, Refused, TaskDone, During, Steady, files, LinksTypeOK
  <2>2. run.cmd = "pull" /\ source["plain"] = Absent /\ PointerExists
    BY <2>1 DEF PointerExists
  <2>3. OneTask /\ todo' = {}
    BY <2>1, <2>2, <1>was DEF OnePath
  <2>4. tasks' = << >>
    BY <2>1, <2>3, DoneTypes
  <2>5. LeadsThere'
    <3>1. target' = Absent
      BY <1>16, <2>1, <2>2, <1>was DEF LinkDenied, Refused, files
    <3>. QED
      BY <3>1 DEF LeadsThere, IsLink
  <2>. QED
    BY <2>1, <2>3, <2>4, <2>5 DEF LeadsInv, OnePath, OneTask
<1>17. CASE FailTask
  <2>1. UNCHANGED <<source, run, tasks, todo>> /\ pc' = "failed" /\ pc # "check"
        /\ "check" \notin denied
    BY <1>17 DEF FailTask, During, Steady, LinksTypeOK
  <2>2. run.cmd = "pull" /\ source["plain"] = Absent /\ PointerExists
    BY <2>1 DEF PointerExists
  <2>3. OneTask' /\ (todo' # {} => pc = "check")
    BY <2>1, <2>2, <1>was DEF OnePath, OneTask
  <2>. QED
    BY <2>1, <2>2, <2>3, <1>was DEF LeadsInv, OnePath, OneTask
<1>18. CASE TasksDone
  <2>1. pc = "exec" /\ pc' = "commit" /\ UNCHANGED <<target, source, run, tasks, todo>>
        /\ "check" \notin denied
    BY <1>18 DEF TasksDone, During, Steady, files
  <2>. QED
    BY <2>1, <1>same
<1>19. CASE Commit
  <2>1. run' = NoRun /\ NoRun.cmd = "none"
    BY <1>19 DEF Commit, Quit, NoRun
  <2>. QED
    BY <2>1
<1>20. CASE Fail
  <2>1. run' = NoRun /\ NoRun.cmd = "none"
    BY <1>20 DEF Fail, Quit, NoRun
  <2>. QED
    BY <2>1
<1>21. CASE Crash
  <2>1. run' = NoRun /\ NoRun.cmd = "none"
    BY <1>21 DEF Crash, Quit, NoRun
  <2>. QED
    BY <2>1
<1>22. CASE UserTarget
  BY <1>22 DEF UserTarget, Act, Idle, LinksTypeOK, NoRun
<1>23. ASSUME NEW s \in Slots, UserSource(s) PROVE LeadsInv'
  BY <1>23 DEF UserSource, Act, Idle, LinksTypeOK, NoRun
<1>24. CASE UserOther
  BY <1>24 DEF UserOther, Act, Idle, LinksTypeOK, NoRun
<1>25. CASE Rest
  BY <1>25 DEF Rest, vars, LinksTypeOK, NoRun
<1>26. CASE UNCHANGED vars
  <2>1. UNCHANGED <<target, source, run, tasks, todo, pc, denied>>
    BY <1>26 DEF vars, files
  <2>. QED
    BY <2>1, <1>same
<1>27. ASSUME NEW p \in todo, CheckDenied(p) PROVE LeadsInv'
  BY <1>27 DEF CheckDenied
<1>28. CASE CopyInDenied
  BY <1>28, <1>was, <1>ops DEF CopyInDenied, InTask, Refused, Steady
<1>29. CASE PullDenied
  <2>1. run.cmd = "pull" /\ UNCHANGED source /\ pc = "exec" /\ tasks # << >>
        /\ Head(tasks).op = "pull" /\ PointerExists /\ "check" \notin denied
    BY <1>29 DEF PullDenied, InPull, WriteOut, InTask, Refused, Steady, files, PointerExists
  <2>. QED
    BY <1>29, <2>1, <1>was DEF PullDenied, Refused
<1>30. CASE PointDenied
  BY <1>30 DEF PointDenied, Refused, Steady
<1>. QED
  BY <1>1, <1>2, <1>3, <1>4, <1>5, <1>6, <1>7, <1>8, <1>9, <1>10, <1>11, <1>12, <1>13,
     <1>14, <1>15, <1>16, <1>17, <1>18, <1>19, <1>20, <1>21, <1>22, <1>23, <1>24, <1>25, <1>26,
     <1>27, <1>28, <1>29, <1>30
     DEF Next, Process, User, AddLinkSteps, PointerSteps, PullLinkSteps, Denials

(* When a pull of a name that has a pointer file alone succeeds, and could *)
(* look at the name, the link leads where the pointer says                 *)
(* (PulledLinkLeads).                                                      *)
THEOREM PullFollowsThePointer == Spec => []PulledLinkLeads
<1>. DEFINE I == TypeInv /\ LeadsInv
<1>1. Init => I
  BY InitHolds DEF LinksInv
<1>2. I /\ [Next]_vars => I'
  BY TypeStep, LeadsStep
<1>3. I => PulledLinkLeads
  <2>. SUFFICES ASSUME I, pc = "commit", run.cmd = "pull", IsLink, PointerExists,
                       source["plain"] = Absent, "check" \notin denied
                PROVE  Where(target.text) = Where(source["pointer"])
    BY DEF PulledLinkLeads
  <2>1. tasks = << >> /\ OnePath
    BY DEF TypeInv, OpsInv, LeadsInv
  <2>2. todo = {}
    BY <2>1 DEF OnePath
  <2>. QED
    BY <2>1, <2>2 DEF LeadsInv, LeadsThere
<1>. QED
  BY <1>1, <1>2, <1>3, PTL DEF Spec

-----------------------------------------------------------------------------
(* add and sync leave nothing to do                                        *)

(* What a task leaves: a file its source and its record agree with, a link *)
(* the pointer file says, or the link of add -s to the plain source.       *)
Done ==
  /\ run.cmd \in {"add", "sync"} /\ ~run.force
  /\ \/ \E s \in Slots : /\ s = IF run.cmd = "add" THEN "plain" ELSE Resolved
                         /\ IsFile /\ target.text \in Texts
                         /\ source[s] = target.text /\ mem[s] = target.text
     \/ IsLink /\ PointerExists /\ PointerMatches
     \/ /\ run.cmd = "add" /\ IsLink /\ target.text = "ownRel"
        /\ source["plain"] # Absent /\ ~PointerExists

(* Checked again, such a name queues nothing.                              *)
LEMMA DoneSettles == Done => Settled
<1>. SUFFICES ASSUME Done, NEW p \in Traversed(run) PROVE Outcome(p).queue = << >>
  BY DEF Settled
<1>0. Skip.queue = << >> /\ Abort.queue = << >> /\ ~run.force
  BY Parts DEF Done
<1>1. ASSUME NEW s \in Slots, IsFile, target.text \in Texts,
             s = IF run.cmd = "add" THEN "plain" ELSE Resolved,
             source[s] = target.text, mem[s] = target.text
      PROVE  Outcome(p).queue = << >>
  <2>1. ~IsLink
    BY <1>1 DEF IsFile, IsLink
  <2>2. source[s] # Absent /\ mem[s] # Absent
    BY <1>1, LinksAssumption
  <2>3. [sha256 |-> mem[s]] # Absent
    BY <1>1, LinksAssumption
  <2>4. Verdict(s) = "NonModified"
    BY <1>1, <2>2, <2>3 DEF Verdict, CompareByContent, Entry
  <2>5. run.cmd = "add" => AddFile = Skip
    BY <1>0, <1>1, <2>2, <2>4 DEF AddFile
  <2>6. run.cmd = "sync" => SyncFile = Skip
    BY <1>1, <2>2, <2>4 DEF SyncFile
  <2>. QED
    BY <1>0, <1>1, <2>1, <2>5, <2>6 DEF Done, Outcome, AddCheck, SyncCheck
<1>2. ASSUME IsLink, PointerExists, PointerMatches PROVE Outcome(p).queue = << >>
  <2>1. AddLink \in {Skip, Abort} /\ SyncLink = Skip
    BY <1>0, <1>2 DEF AddLink, SyncLink, PointerIsRight
  <2>. QED
    BY <1>0, <1>2, <2>1 DEF Done, Outcome, AddCheck, SyncCheck
<1>3. ASSUME run.cmd = "add", IsLink, target.text = "ownRel", ~PointerExists
      PROVE  Outcome(p).queue = << >>
  <2>1. InSource(Where(target.text))
    BY <1>3 DEF InSource, Where
  <2>2. AddLink \in {Skip, Abort}
    BY <1>0, <1>3, <2>1 DEF AddLink, PointerIsRight
  <2>. QED
    BY <1>0, <1>3, <2>2 DEF Outcome, AddCheck
<1>. QED
  BY <1>1, <1>2, <1>3 DEF Done

(* What the checks return depends on the files and the records.            *)
LEMMA SameSettled ==
  ASSUME UNCHANGED <<target, source, other, mem, run>>, run.cmd \in {"add", "sync"}
  PROVE  Settled' = Settled
<1>1. /\ Resolved' = Resolved /\ IsLink' = IsLink /\ IsFile' = IsFile
      /\ PointerExists' = PointerExists /\ PointerMatches' = PointerMatches
      /\ PointerIsRight' = PointerIsRight
  BY DEF Resolved, IsLink, IsFile, PointerExists, PointerMatches, PointerIsRight
<1>2. Verdict("plain")' = Verdict("plain") /\ Verdict(Resolved)' = Verdict(Resolved)
  BY <1>1 DEF Verdict, Resolved
<1>3. Dangling(target.text)' = Dangling(target.text)
  BY DEF Dangling, At
<1>4. AddLink' = AddLink
  BY <1>1, <1>3 DEF AddLink, Skip, Abort, QueueLink, QueueAll
<1>5. AddFile' = AddFile
  BY <1>2 DEF AddFile, Contested, Queue, QueueAll
<1>6. SyncLink' = SyncLink
  BY <1>1 DEF SyncLink
<1>7. SyncFile' = SyncFile
  BY <1>1, <1>2 DEF SyncFile
<1>8. \A p : AddCheck(p)' = AddCheck(p) /\ SyncCheck(p)' = SyncCheck(p)
  BY <1>1, <1>4, <1>5, <1>6, <1>7 DEF AddCheck, SyncCheck
<1>9. \A p : Outcome(p)' = Outcome(p)
  BY <1>8 DEF Outcome
<1>10. Traversed(run)' = Traversed(run)
  BY SameTraversed
<1>. QED
  BY <1>9, <1>10 DEF Settled

(* The link that add -s makes.                                             *)
LEMMA OwnLink ==
  Link("ownRel") \in Objects /\ Link("ownRel").kind = "link" /\ Link("ownRel").text = "ownRel"
<1>1. "ownRel" \in Texts \ {Empty}
  BY DEF Texts, Pointees, Empty
<1>. QED
  BY <1>1 DEF Objects, Link

(* The one task of add or sync, when it is done.                           *)
LEMMA OneTaskDone ==
  ASSUME TypeInv, pc # "idle", run.cmd \in {"add", "sync"}, tasks # << >>, TaskDone, run' = run
  PROVE  tasks' = << >> /\ pc' = "exec"
<1>1. OneTask
  BY DEF TypeInv, FileInv, OnePath
<1>. QED
  BY <1>1, DoneTypes

(* Every step keeps that the task does all there is to do.                 *)
LEMMA SettledStep ==
  ASSUME TypeInv, SettledInv, [Next]_vars
  PROVE  SettledInv'
<1>. LinksTypeOK /\ OpsInv /\ FileInv
  BY DEF TypeInv
<1>. SUFFICES ASSUME run'.cmd \in {"add", "sync"}, ~run'.force, denied' = {}
              PROVE  SettledInv'
  BY DEF SettledInv
<1>ops. run.cmd \in {"add", "sync"} /\ pc # "idle" =>
          /\ tasks # << >> => Head(tasks).op \in {"push", "pull", "record", "addlink", "point"}
          /\ pc # "removed"
  <2>. SUFFICES ASSUME run.cmd \in {"add", "sync"}, pc # "idle"
                PROVE  /\ tasks # << >> =>
                            Head(tasks).op \in {"push", "pull", "record", "addlink", "point"}
                       /\ pc # "removed"
    OBVIOUS
  <2>1. tasks # << >> => Head(tasks).op \in {"push", "pull", "record", "addlink", "point"}
    BY HeadTask DEF OpsOf
  <2>. QED
    BY <2>1 DEF OpsInv, LinksTypeOK
<1>same. ASSUME UNCHANGED <<target, source, other, mem, run, tasks, todo, blocked>>, todo = {},
                denied = {},
                pc \in {"check", "exec"}, pc' \in {"exec", "commit", "failed"},
                pc' # "failed" => ~blocked, pc' = "commit" => tasks = << >>
         PROVE  SettledInv'
  <2>1. Settled' = Settled /\ PointerExists' = PointerExists
    BY <1>same, SameSettled DEF PointerExists
  <2>2. Suits(Head(tasks))' = Suits(Head(tasks))
    BY <1>same DEF Suits, IsLink, IsFile, Resolved
  <2>. QED
    BY <1>same, <2>1, <2>2 DEF SettledInv
<1>done. ASSUME Done', tasks' = << >>, pc' = "exec", ~blocked' PROVE SettledInv'
  <2>1. (Done => Settled)'
    BY DoneSettles, PTL
  <2>. QED
    BY <1>done, <2>1 DEF SettledInv
<1>1. ASSUME NEW r \in Runs, Start(r) PROVE SettledInv'
  <2>1. run' = r /\ tasks' = << >> /\ pc' = "check" /\ todo' = Traversed(r)
        /\ UNCHANGED <<target, source>>
    BY <1>1 DEF Start, files, Act, OpsInv
  <2>2. Traversed(run)' = Traversed(r)
    BY <2>1 DEF Traversed
  <2>3. todo' = {} => Settled'
    BY <2>1, <2>2 DEF Settled
  <2>. QED
    BY <2>1, <2>3 DEF SettledInv
<1>2. ASSUME NEW p \in todo, Check(p) PROVE SettledInv'
  <2>1. /\ UNCHANGED <<target, source, other, mem, run>> /\ pc = "check" /\ run \in RunType
        /\ run.cmd \in {"add", "sync"} /\ ~run.force /\ denied = {}
    BY <1>2, HeadTask DEF Check, Checked, files, Unrecorded
  <2>2. tasks = << >> /\ todo = {p} /\ todo = Traversed(run) /\ p \in {"target"} \cup Slots
    BY <1>2, <2>1 DEF FileInv, OnePath, LinksTypeOK
  <2>3. OneGood(Outcome(p), run.cmd)
    BY <2>1, AddOutcome, SyncOutcome DEF Outcome
  <2>4. Outcome(p).queue \in Seq(TasksOf(run.cmd))
    BY <2>1, <2>2, Outcomes
  <2>5. tasks' = Outcome(p).queue /\ pc' \in {"check", "failed"}
    BY <1>2, <2>2, <2>4, TaskLists DEF Check, Checked
  <2>6. CASE tasks' = << >>
    <3>1. Settled
      BY <2>2, <2>5, <2>6 DEF Settled
    <3>2. Settled'
      BY <2>1, <3>1, SameSettled
    <3>. QED
      BY <2>5, <2>6, <3>2 DEF SettledInv
  <2>7. ASSUME NEW t \in TasksOf(run.cmd), tasks' = <<t>>, Suits(t) PROVE SettledInv'
    <3>1. tasks' # << >> /\ Head(tasks') = t
      BY <2>7
    <3>2. Suits(Head(tasks))'
      BY <2>1, <2>7, <3>1 DEF Suits, IsFile, IsLink, Resolved
    <3>. QED
      BY <2>5, <3>1, <3>2 DEF SettledInv
  <2>8. tasks' = << >> \/ \E t \in TasksOf(run.cmd) : tasks' = <<t>> /\ Suits(t)
    BY <2>1, <2>3, <2>5 DEF OneGood
  <2>. QED
    BY <2>6, <2>7, <2>8
<1>3. CASE Decide
  <2>1. /\ UNCHANGED <<target, source, other, mem, run, todo>> /\ pc = "check" /\ todo = {}
        /\ run.cmd \in {"add", "sync"} /\ ~run.force /\ denied = {}
    BY <1>3 DEF Decide, files, Unrecorded
  <2>2. tasks' = tasks
    BY <1>3, <2>1, QueueTypes DEF Decide
  <2>3. /\ blocked' = (blocked \/ \E s \in Orphans : Stale(s))
        /\ pc' = IF blocked' THEN "failed" ELSE IF tasks' = << >> THEN "commit" ELSE "exec"
    BY <1>3, <2>1 DEF Decide
  <2>4. Orphans = {}
    BY <2>1 DEF Orphans
  <2>5. blocked' = blocked
    BY <2>3, <2>4 DEF LinksTypeOK
  <2>. QED
    BY <2>1, <2>2, <2>3, <2>5, <1>same
<1>4. CASE Push
  <2>. run.cmd \in {"add", "sync"} /\ ~run.force /\ pc # "idle" /\ tasks # << >> /\ run' = run
       /\ blocked' = blocked /\ denied = {} /\ pc = "exec" /\ Head(tasks).op = "push" /\ TaskDone
    BY <1>4 DEF Push, InTask, During, Steady, LinksTypeOK
  <2>. ~blocked
    BY DEF SettledInv
  <2>t. tasks' = << >> /\ pc' = "exec"
    BY <1>4, OneTaskDone DEF Push
  <2>. DEFINE s == Head(tasks).slot
  <2>1. s \in Slots /\ IsFile /\ s = IF run.cmd = "add" THEN "plain" ELSE Resolved
    BY HeadTask DEF SettledInv, Suits
  <2>2. CopyIn(s)
    BY <1>4 DEF Push
  <2>. HIDE DEF s
  <2>3. /\ source' = [source EXCEPT ![s] = target.text] /\ source'[s] = target.text
        /\ mem'[s] = target.text /\ target' = target /\ target.text \in Texts
    BY <2>1, <2>2, CopyInTypes, ObjectParts DEF LinksTypeOK
  <2>4. s = IF run'.cmd = "add" THEN "plain" ELSE Resolved'
    BY <2>1, <2>3, LinksAssumption DEF Resolved, Slots, LinksTypeOK
  <2>5. Done'
    BY <2>1, <2>3, <2>4 DEF Done, IsFile
  <2>. QED
    BY <2>t, <2>5, <1>done
<1>5. CASE Pull
  <2>. run.cmd \in {"add", "sync"} /\ ~run.force /\ pc # "idle" /\ tasks # << >> /\ run' = run
       /\ blocked' = blocked /\ denied = {} /\ pc = "exec" /\ Head(tasks).op = "pull" /\ TaskDone
    BY <1>5 DEF Pull, InPull, WriteOut, InTask, During, Steady, LinksTypeOK
  <2>. ~blocked
    BY DEF SettledInv
  <2>t. tasks' = << >> /\ pc' = "exec"
    BY <1>5, OneTaskDone DEF Pull, InPull, WriteOut
  <2>. DEFINE s == Head(tasks).slot
  <2>1. s \in Slots /\ IsFile /\ s = IF run.cmd = "add" THEN "plain" ELSE Resolved
    BY HeadTask DEF SettledInv, Suits
  <2>2. source[s] # Absent /\ target' = File(source[s]) /\ source' = source /\ Recorded(s)
    BY <1>5, <2>1, ObjectParts DEF Pull, InPull, WriteOut
  <2>. HIDE DEF s
  <2>3. source[s] \in Texts /\ mem'[s] = source[s]
    BY <2>1, <2>2 DEF Recorded, LinksTypeOK
  <2>4. target' # Absent /\ target'.kind = "file" /\ target'.text = source[s]
    BY <2>2, <2>3, ObjectParts
  <2>5. s = IF run'.cmd = "add" THEN "plain" ELSE Resolved'
    BY <2>1, <2>2 DEF Resolved
  <2>6. Done'
    BY <2>1, <2>2, <2>3, <2>4, <2>5 DEF Done, IsFile
  <2>. QED
    BY <2>t, <2>6, <1>done
<1>6. CASE RecordOnly
  <2>. run.cmd \in {"add", "sync"} /\ ~run.force /\ pc # "idle" /\ tasks # << >> /\ run' = run
       /\ blocked' = blocked /\ denied = {} /\ pc = "exec" /\ Head(tasks).op = "record" /\ TaskDone
    BY <1>6 DEF RecordOnly, InTask, During, Steady, LinksTypeOK
  <2>. ~blocked
    BY DEF SettledInv
  <2>t. tasks' = << >> /\ pc' = "exec"
    BY <1>6, OneTaskDone DEF RecordOnly
  <2>. DEFINE s == Head(tasks).slot
  <2>1. /\ s \in Slots /\ IsFile /\ s = (IF run.cmd = "add" THEN "plain" ELSE Resolved)
        /\ target.text = source[s]
    BY HeadTask DEF SettledInv, Suits
  <2>2. target' = target /\ source' = source /\ Recorded(s)
    BY <1>6 DEF RecordOnly
  <2>. HIDE DEF s
  <2>3. mem'[s] = source[s] /\ target.text \in Texts
    BY <2>1, <2>2, ObjectParts DEF Recorded, LinksTypeOK
  <2>4. s = IF run'.cmd = "add" THEN "plain" ELSE Resolved'
    BY <2>1, <2>2 DEF Resolved
  <2>5. Done'
    BY <2>1, <2>2, <2>3, <2>4 DEF Done, IsFile
  <2>. QED
    BY <2>t, <2>5, <1>done
<1>7. CASE CopyFirst
  <2>. run.cmd \in {"add", "sync"} /\ ~run.force /\ pc # "idle" /\ tasks # << >> /\ run' = run
       /\ blocked' = blocked /\ denied = {} /\ pc = "exec" /\ Head(tasks).op = "addlink" /\ pc' = "copied"
    BY <1>7 DEF CopyFirst, InTask, During, Steady, Goes, LinksTypeOK
  <2>. ~blocked
    BY DEF SettledInv
  <2>1. run.symlink
    BY DEF SettledInv, Suits
  <2>2. IsFile /\ CopyIn("plain")
    BY <1>7, CopiedIsFile DEF CopyFirst
  <2>3. source'["plain"] # Absent
    BY <2>2, CopyInTypes, ObjectParts, LinksAssumption DEF Slots
  <2>. QED
    BY <2>1, <2>3 DEF SettledInv
<1>8. CASE MoveAside
  <2>. run.cmd \in {"add", "sync"} /\ ~run.force /\ pc # "idle" /\ tasks # << >> /\ run' = run
       /\ blocked' = blocked /\ denied = {} /\ pc = "copied" /\ pc' = "aside" /\ source' = source
    BY <1>8 DEF MoveAside, During, Steady, Goes, LinksTypeOK
  <2>. ~blocked
    BY DEF SettledInv
  <2>. QED
    BY DEF SettledInv
<1>9. CASE MakeLink
  <2>. run.cmd \in {"add", "sync"} /\ ~run.force /\ pc # "idle" /\ tasks # << >> /\ run' = run
       /\ blocked' = blocked /\ denied = {} /\ pc = "aside" /\ pc' = "linked" /\ source' = source
       /\ target' = Link("ownRel")
    BY <1>9 DEF MakeLink, During, Steady, Goes, LinksTypeOK
  <2>. ~blocked
    BY DEF SettledInv
  <2>. QED
    BY DEF SettledInv
<1>10. CASE DropBackup
  <2>. run.cmd \in {"add", "sync"} /\ ~run.force /\ pc # "idle" /\ tasks # << >> /\ run' = run
       /\ blocked' = blocked /\ denied = {} /\ pc = "linked" /\ TaskDone
       /\ UNCHANGED <<target, source>>
    BY <1>10 DEF DropBackup, During, Steady, LinksTypeOK
  <2>. ~blocked
    BY DEF SettledInv
  <2>t. tasks' = << >> /\ pc' = "exec"
    BY <1>10, OneTaskDone DEF DropBackup
  <2>1. run.symlink /\ source["plain"] # Absent /\ target = Link("ownRel")
    BY DEF SettledInv
  <2>2. run.cmd = "add"
    BY HeadTask DEF OpsInv, OpsOf
  <2>3. IsLink' /\ target'.text = "ownRel"
    BY <2>1, OwnLink, LinksAssumption DEF IsLink
  <2>4. CASE ~PointerExists
    <3>1. Done'
      BY <2>1, <2>2, <2>3, <2>4 DEF Done, PointerExists
    <3>. QED
      BY <2>t, <3>1, <1>done
  <2>5. CASE PointerExists
    <3>1. run'.symlink /\ PointerExists'
      BY <2>1, <2>5 DEF PointerExists
    <3>. QED
      BY <2>t, <3>1 DEF SettledInv
  <2>. QED
    BY <2>4, <2>5
<1>11. CASE TruncatePointer
  <2>. run.cmd \in {"add", "sync"} /\ ~run.force /\ pc # "idle" /\ tasks # << >> /\ run' = run
       /\ blocked' = blocked /\ denied = {} /\ pc = "exec" /\ Head(tasks).op = "point" /\ pc' = "emptied"
       /\ UNCHANGED <<target, tasks>>
    BY <1>11 DEF TruncatePointer, InTask, During, Steady, Goes, LinksTypeOK
  <2>. ~blocked
    BY DEF SettledInv
  <2>1. IsLink /\ Head(tasks).text = target.text
    BY DEF SettledInv, Suits
  <2>2. Suits(Head(tasks))'
    BY <2>1 DEF Suits, IsLink
  <2>. QED
    BY <2>2 DEF SettledInv
<1>12. CASE WritePointer
  <2>. run.cmd \in {"add", "sync"} /\ ~run.force /\ pc # "idle" /\ tasks # << >> /\ run' = run
       /\ blocked' = blocked /\ denied = {} /\ pc = "emptied" /\ Head(tasks).op = "point" /\ TaskDone
       /\ target' = target
    BY <1>12 DEF WritePointer, PointerWritten, During, Steady, OpsInv, LinksTypeOK
  <2>. ~blocked
    BY DEF SettledInv
  <2>t. tasks' = << >> /\ pc' = "exec"
    BY <1>12, OneTaskDone DEF WritePointer, PointerWritten
  <2>1. IsLink /\ Head(tasks).text = target.text /\ target.text \in Texts
    BY ObjectParts DEF SettledInv, Suits
  <2>2. source'["pointer"] = target.text
    BY <1>12, <2>1 DEF WritePointer, PointerWritten, PointerText, LinksTypeOK, Slots
  <2>3. IsLink' /\ PointerExists' /\ PointerMatches'
    BY <2>1, <2>2, LinksAssumption DEF IsLink, PointerExists, PointerMatches
  <2>4. Done'
    BY <2>3 DEF Done
  <2>. QED
    BY <2>t, <2>4, <1>done
<1>13. CASE RemoveOld
  BY <1>13, <1>ops DEF RemoveOld, InTask, During, Steady
<1>14. CASE CreateLink
  BY <1>14, <1>ops DEF CreateLink, During, Steady
<1>15. CASE Delete
  BY <1>15, <1>ops DEF Delete, During, Steady
<1>16. CASE LinkDenied
  BY <1>16, <1>ops DEF LinkDenied, Refused, During, Steady
<1>17. CASE FailTask
  <2>1. pc' = "failed"
    BY <1>17 DEF FailTask
  <2>. QED
    BY <2>1 DEF SettledInv
<1>18. CASE TasksDone
  <2>1. /\ UNCHANGED <<target, source, other, mem, run, todo, tasks, blocked>>
        /\ pc = "exec" /\ pc' = "commit" /\ tasks = << >> /\ denied = {}
    BY <1>18 DEF TasksDone, During, Steady, files, Unrecorded
  <2>2. ~blocked /\ todo = {}
    BY <2>1 DEF SettledInv, FileInv, OnePath
  <2>. QED
    BY <2>1, <2>2, <1>same
<1>19. CASE Commit
  <2>1. run' = NoRun /\ NoRun.cmd = "none"
    BY <1>19 DEF Commit, Quit, NoRun
  <2>. QED
    BY <2>1
<1>20. CASE Fail
  <2>1. run' = NoRun /\ NoRun.cmd = "none"
    BY <1>20 DEF Fail, Quit, NoRun
  <2>. QED
    BY <2>1
<1>21. CASE Crash
  <2>1. run' = NoRun /\ NoRun.cmd = "none"
    BY <1>21 DEF Crash, Quit, NoRun
  <2>. QED
    BY <2>1
<1>22. CASE UserTarget
  BY <1>22 DEF UserTarget, Act, Idle, LinksTypeOK, NoRun
<1>23. ASSUME NEW s \in Slots, UserSource(s) PROVE SettledInv'
  BY <1>23 DEF UserSource, Act, Idle, LinksTypeOK, NoRun
<1>24. CASE UserOther
  BY <1>24 DEF UserOther, Act, Idle, LinksTypeOK, NoRun
<1>25. CASE Rest
  BY <1>25 DEF Rest, vars, LinksTypeOK, NoRun
<1>26. CASE UNCHANGED vars
  <2>1. UNCHANGED <<target, source, other, mem, run, tasks, todo, blocked, pc, denied>>
    BY <1>26 DEF vars, files
  <2>2. Suits(Head(tasks))' = Suits(Head(tasks))
    BY <2>1 DEF Suits, IsLink, IsFile, Resolved
  <2>3. run.cmd \in {"add", "sync"} => Settled' = Settled
    BY <2>1, SameSettled
  <2>. QED
    BY <2>1, <2>2, <2>3 DEF SettledInv, PointerExists
<1>27. ASSUME NEW p \in todo, CheckDenied(p) PROVE SettledInv'
  BY <1>27 DEF CheckDenied
<1>28. CASE CopyInDenied
  BY <1>28 DEF CopyInDenied, Refused
<1>29. CASE PullDenied
  BY <1>29 DEF PullDenied, Refused
<1>30. CASE PointDenied
  BY <1>30 DEF PointDenied, Refused
<1>. QED
  BY <1>1, <1>2, <1>3, <1>4, <1>5, <1>6, <1>7, <1>8, <1>9, <1>10, <1>11, <1>12, <1>13,
     <1>14, <1>15, <1>16, <1>17, <1>18, <1>19, <1>20, <1>21, <1>22, <1>23, <1>24, <1>25, <1>26,
     <1>27, <1>28, <1>29, <1>30
     DEF Next, Process, User, AddLinkSteps, PointerSteps, PullLinkSteps, Denials

(* An add or a sync without --force that succeeds, and had to skip nothing *)
(* it was refused permission for, leaves a name that, checked again,       *)
(* queues no task (AddSettles).                                            *)
THEOREM AddAndSyncSettle == Spec => []AddSettles
<1>. DEFINE I == TypeInv /\ SettledInv
<1>1. Init => I
  BY InitHolds DEF LinksInv
<1>2. I /\ [Next]_vars => I'
  BY TypeStep, SettledStep
<1>3. I => AddSettles
  <2>. SUFFICES ASSUME I, pc = "commit", run.cmd \in {"add", "sync"}, ~run.force,
                       denied = {}, ~(run.symlink /\ PointerExists)
                PROVE  Settled
    BY DEF AddSettles, Settled
  <2>1. tasks = << >> /\ OnePath
    BY DEF TypeInv, OpsInv, FileInv
  <2>2. todo = {} /\ ~blocked
    BY <2>1 DEF OnePath, SettledInv
  <2>. QED
    BY <2>1, <2>2 DEF SettledInv
<1>. QED
  BY <1>1, <1>2, <1>3, PTL DEF Spec
=============================================================================
