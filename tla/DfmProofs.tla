----------------------------- MODULE DfmProofs -----------------------------
(***************************************************************************)
(* Theorems about the core for every set of files, contents, invocations   *)
(* and faults, and every history of runs: its types, that a refused run    *)
(* writes nothing, that no edit is lost, and that what compares as not     *)
(* modified is equal.                                                      *)
(***************************************************************************)
EXTENDS DfmProperties, TLAPS

(* What the check of a path may return: well-typed tasks, and a "record"   *)
(* task only for a source that exists.                                     *)
OutcomeType == [queue : SUBSET Tasks, blocks : BOOLEAN, aborts : BOOLEAN]
Recordable(o) == \A s \in Slots : [op |-> "record", slot |-> s] \in o.queue
                                    => Exists(s)

-----------------------------------------------------------------------------
(* The outcomes the checks are built from are outcomes.                    *)
LEMMA PlainOutcomes ==
  /\ Skip \in OutcomeType /\ Recordable(Skip)
  /\ Abort \in OutcomeType /\ Recordable(Abort)
  /\ Blocked \in OutcomeType /\ Recordable(Blocked)
BY DEF OutcomeType, Recordable, Skip, Abort, Blocked

(* Queue queues one task and does nothing else.                            *)
LEMMA QueueIs ==
  ASSUME NEW op, NEW s
  PROVE  /\ Queue(op, s).queue = {[op |-> op, slot |-> s]}
         /\ [op |-> op, slot |-> s] \in Tasks => Queue(op, s) \in OutcomeType
BY DEF Queue, Skip, OutcomeType

(* So is one queued task that is not a "record", in each of its three forms*)
LEMMA QueueOutcomes ==
  ASSUME NEW s \in Slots, NEW op \in {"push", "pull", "delete"},
         run.force \in BOOLEAN
  PROVE  /\ Queue(op, s) \in OutcomeType /\ Recordable(Queue(op, s))
         /\ Contested(op, s) \in OutcomeType /\ Recordable(Contested(op, s))
         /\ ForceOrAbort(op, s) \in OutcomeType
         /\ Recordable(ForceOrAbort(op, s))
<1>1. [op |-> op, slot |-> s] \in Tasks
  BY DEF Tasks
<1>2. Queue(op, s) \in OutcomeType /\ Recordable(Queue(op, s))
  BY <1>1 DEF OutcomeType, Recordable, Skip, Queue
<1>3. /\ [Queue(op, s) EXCEPT !.blocks = TRUE] \in OutcomeType
      /\ Recordable([Queue(op, s) EXCEPT !.blocks = TRUE])
  BY <1>1 DEF OutcomeType, Recordable, Skip, Queue
<1>. QED
  BY <1>2, <1>3, PlainOutcomes DEF Contested, ForceOrAbort

(* add's comparison of a target with one of its sources                    *)
LEMMA AddPairOutcome ==
  ASSUME NEW s \in Slots, run.force \in BOOLEAN
  PROVE  AddPair(s) \in OutcomeType /\ Recordable(AddPair(s))
<1>1. /\ Queue("push", s) \in OutcomeType /\ Recordable(Queue("push", s))
      /\ Contested("push", s) \in OutcomeType
      /\ Recordable(Contested("push", s))
  BY QueueOutcomes
<1>2. ASSUME Exists(s)
      PROVE  Queue("record", s) \in OutcomeType /\ Recordable(Queue("record", s))
  <2>1. [op |-> "record", slot |-> s] \in Tasks
    BY DEF Tasks
  <2>2. Queue("record", s) \in OutcomeType
    BY <2>1, QueueIs
  <2>3. ASSUME NEW u \in Slots,
               [op |-> "record", slot |-> u] \in Queue("record", s).queue
        PROVE  u = s
    <3>1. [op |-> "record", slot |-> u] = [op |-> "record", slot |-> s]
      BY <2>3, QueueIs
    <3>2. [op |-> "record", slot |-> u].slot = [op |-> "record", slot |-> s].slot
      BY <3>1
    <3>. QED
      BY <3>2
  <2>. QED
    BY <1>2, <2>2, <2>3 DEF Recordable
<1>. QED
  BY <1>1, <1>2, PlainOutcomes DEF AddPair

(* the whole of add's check                                                *)
LEMMA AddOutcome ==
  ASSUME NEW p \in Paths, run.force \in BOOLEAN
  PROVE  AddCheck(p) \in OutcomeType /\ Recordable(AddCheck(p))
<1>1. CASE p[2] # "target" \/ ~Exists(p)
  BY <1>1, PlainOutcomes DEF AddCheck
<1>2. CASE p[2] = "target" /\ Exists(p)
  <2>. DEFINE f == p[1]
  <2>1. Plain(f) \in Slots /\ Enc(f) \in Slots
    BY DEF Paths, Targets, Slots, Plain, Enc
  <2>2. \A s \in {Plain(f), Enc(f)} :
          AddPair(s) \in OutcomeType /\ Recordable(AddPair(s))
    BY <2>1, AddPairOutcome
  <2>3. /\ [AddPair(Enc(f)) EXCEPT !.blocks = TRUE] \in OutcomeType
        /\ Recordable([AddPair(Enc(f)) EXCEPT !.blocks = TRUE])
    BY <2>2 DEF OutcomeType, Recordable
  <2>4. AddTarget(f) \in OutcomeType /\ Recordable(AddTarget(f))
    BY <2>2, <2>3, PlainOutcomes DEF AddTarget
  <2>. QED
    BY <1>2, <2>4 DEF AddCheck
<1>. QED
  BY <1>1, <1>2

(* pull's check, from either side                                          *)
LEMMA PullOutcome ==
  ASSUME NEW p \in Paths, run.force \in BOOLEAN
  PROVE  PullCheck(p) \in OutcomeType /\ Recordable(PullCheck(p))
<1>. DEFINE f == p[1]
            Good(o) == o \in OutcomeType /\ Recordable(o)
<1>1. Plain(f) \in Slots /\ Enc(f) \in Slots
  BY DEF Paths, Targets, Slots, Plain, Enc
<1>2. \A s \in Slots : /\ Good(Queue("pull", s))
                       /\ Good(Contested("pull", s))
                       /\ Good(ForceOrAbort("pull", s))
  BY QueueOutcomes
<1>3. Good(Skip) /\ Good(Abort)
  BY PlainOutcomes
<1>. HIDE DEF Good
<1>4. Good(PullEncrypted(f))
  BY <1>1, <1>2, <1>3 DEF PullEncrypted
<1>5. Good(PullExisting(f))
  BY <1>1, <1>2, <1>3, <1>4 DEF PullExisting
<1>6. Good(PullTarget(f))
  BY <1>1, <1>2, <1>3, <1>5 DEF PullTarget, PullMissing
<1>7. ASSUME p[2] # "target" PROVE Good(PullSource(p))
  <2>1. p \in Slots
    BY <1>7 DEF Paths, Targets, Slots
  <2>. QED
    BY <2>1, <1>2, <1>3, <1>4, <1>6 DEF PullSource
<1>8. Good(PullCheck(p))
  BY <1>6, <1>7 DEF PullCheck
<1>. QED
  BY <1>8 DEF Good

(* sync's and forget's checks                                              *)
LEMMA SyncForgetOutcome ==
  ASSUME NEW p \in Paths, run.force \in BOOLEAN
  PROVE  /\ SyncCheck(p) \in OutcomeType /\ Recordable(SyncCheck(p))
         /\ ForgetCheck(p) \in OutcomeType /\ Recordable(ForgetCheck(p))
<1>. DEFINE f == p[1]
            Good(o) == o \in OutcomeType /\ Recordable(o)
<1>1. Resolved(f) \in Slots
  BY DEF Paths, Targets, Slots, Plain, Enc, Resolved
<1>2. p[2] # "target" => p \in Slots
  BY DEF Paths, Targets, Slots
<1>3. \A s \in Slots : /\ Good(Queue("pull", s))
                       /\ Good(Queue("push", s))
                       /\ Good(Queue("delete", s))
                       /\ Good(Contested("delete", s))
  BY QueueOutcomes
<1>4. Good(Skip) /\ Good(Abort) /\ Good(Blocked)
  BY PlainOutcomes
<1>. HIDE DEF Good
<1>5. Good(SyncTarget(f))
  BY <1>1, <1>3, <1>4 DEF SyncTarget
<1>6. Good(SyncCheck(p))
  BY <1>4, <1>5 DEF SyncCheck
<1>7. Good(ForgetTarget(f))
  BY <1>1, <1>3, <1>4 DEF ForgetTarget
<1>8. Good(ForgetCheck(p))
  BY <1>1, <1>2, <1>3, <1>4, <1>7 DEF ForgetCheck, MissingTarget
<1>. QED
  BY <1>6, <1>8 DEF Good

(* Whatever the command, and when a path is left out as unreadable         *)
LEMMA OutcomesTyped ==
  ASSUME NEW p \in Paths, run.force \in BOOLEAN, NEW o \in Outcomes(p)
  PROVE  o \in OutcomeType /\ Recordable(o)
BY AddOutcome, PullOutcome, SyncForgetOutcome, PlainOutcomes
   DEF Outcomes, Outcome

-----------------------------------------------------------------------------
(* The types alone are not inductive: Stamp reads the record that Record   *)
(* has just made.                                                          *)
RecordMade == pc = "stamp" => mem[task.slot] \in Records
TypeInv == TypeOK /\ RecordMade

(* The components of a path, a slot, a task and a run                      *)
LEMMA Shapes ==
  /\ \A s \in Slots : /\ TargetOf(s) \in Paths /\ s \in Paths
                      /\ TargetOf(s) # s /\ Plain(s[1]) \in Slots
  /\ \A t \in Tasks : /\ t.slot \in Slots /\ t # NoTask
                      /\ From(t) \in Paths /\ To(t) \in Paths
  /\ NoRun \notin Runs
  /\ \A r \in Runs \cup {NoRun} : r.force \in BOOLEAN /\ r.dryRun \in BOOLEAN
<1>1. \A s \in Slots : /\ TargetOf(s) \in Paths /\ s \in Paths
                       /\ TargetOf(s) # s /\ Plain(s[1]) \in Slots
  BY DEF Paths, Targets, Slots, TargetOf, Plain
<1>2. \A t \in Tasks : /\ t.slot \in Slots /\ t # NoTask
                       /\ From(t) \in Paths /\ To(t) \in Paths
  BY <1>1 DEF Tasks, NoTask, From, To
<1>3. NoRun \notin Runs
  BY CoreAssumption DEF RunType, NoRun
<1>4. \A r \in Runs \cup {NoRun} : r.force \in BOOLEAN /\ r.dryRun \in BOOLEAN
  <2>1. \A r \in RunType : r.force \in BOOLEAN /\ r.dryRun \in BOOLEAN
    BY DEF RunType
  <2>2. NoRun.force = FALSE /\ NoRun.dryRun = FALSE
    BY DEF NoRun
  <2>. QED
    BY <2>1, <2>2, CoreAssumption
<1>. QED
  BY <1>1, <1>2, <1>3, <1>4

(* A new installation, or one in sync, is well typed.                      *)
LEMMA InitTyped == Init => TypeInv
<1>. SUFFICES ASSUME Init PROVE TypeInv
  OBVIOUS
<1>1. PICK content \in [Files -> Contents] :
        /\ file = [p \in Paths |-> InitialFile(content, p)]
        /\ disk = [s \in Slots |-> IF s \in Managed
                                  THEN [mtime |-> 0, sha256 |-> content[s[1]]]
                                  ELSE Absent]
        /\ synced = [s \in Slots |-> IF s \in Managed THEN content[s[1]]
                                                     ELSE Absent]
  BY DEF Init
<1>2. \A p \in Paths : content[p[1]] \in AllContents
  BY DEF Paths, Targets, Slots, AllContents
<1>3. file \in [Paths -> Entries \cup {Absent}]
  BY <1>1, <1>2 DEF InitialFile, Entries
<1>4. disk \in [Slots -> Records \cup {Absent}]
  BY <1>1, <1>2 DEF Records, Paths
<1>5. synced \in [Slots -> AllContents \cup {Absent}]
  BY <1>1, <1>2 DEF Paths
<1>. QED
  BY <1>3, <1>4, <1>5 DEF Init, TypeInv, TypeOK, RecordMade, NoRecords, Phases

(* Every way to write a file keeps the file system well typed.             *)
LEMMA WriteTyped ==
  ASSUME TypeOK, NEW p \in Paths, NEW c \in AllContents, clock' \in Nat,
         Write(p, c)
  PROVE  file' \in [Paths -> Entries \cup {Absent}]
BY DEF TypeOK, Write, Entries

(* The user's steps keep the types.                                        *)
LEMMA UserTyped == TypeInv /\ User => TypeInv'
<1>1. ASSUME TypeInv, NEW p \in Paths, NEW c \in Contents, Edit(p, c)
      PROVE  TypeInv'
  <2>1. clock' \in Nat /\ clock' = clock + 1
    BY <1>1 DEF TypeInv, TypeOK, Edit
  <2>2. [content |-> c, mtime |-> clock + 1] \in Entries
    BY <2>1 DEF Entries, AllContents
  <2>3. file' \in [Paths -> Entries \cup {Absent}]
    BY <1>1, <2>2 DEF TypeInv, TypeOK, Edit
  <2>. QED
    BY <1>1, <2>1, <2>3 DEF TypeInv, TypeOK, RecordMade, Edit, Touch
<1>2. ASSUME TypeInv, NEW p \in Paths, Remove(p)
      PROVE  TypeInv'
  BY <1>2 DEF TypeInv, TypeOK, RecordMade, Remove, Touch
<1>. QED
  BY <1>1, <1>2 DEF User

(* A run starts, and walks its paths.                                      *)
LEMMA StartTyped ==
  ASSUME TypeInv, NEW r \in Runs, Start(r)
  PROVE  TypeInv'
<1>1. r \in RunType
  BY CoreAssumption
<1>2. Traversed(r) \subseteq Paths
  BY <1>1 DEF Traversed, RunType
<1>3. run' \in Runs \cup {NoRun} /\ run' # NoRun
  BY Shapes DEF Start
<1>. QED
  BY <1>2, <1>3 DEF TypeInv, TypeOK, RecordMade, Start, Phases

(* A round of the loop over the paths queues tasks of existing slots.      *)
LEMMA CheckTyped ==
  ASSUME TypeInv, NEW p \in todo, Check(p)
  PROVE  TypeInv'
<1>1. p \in Paths /\ run.force \in BOOLEAN
  BY Shapes DEF TypeInv, TypeOK
<1>2. PICK o \in Outcomes(p) :
        /\ tasks' = tasks \cup o.queue
        /\ blocked' = (blocked \/ o.blocks)
        /\ pc' = IF o.aborts THEN "failed" ELSE "check"
        /\ synced' = [s \in Slots |->
                        IF [op |-> "record", slot |-> s] \in o.queue
                        THEN file[s].content ELSE synced[s]]
  BY DEF Check
<1>3. o \in OutcomeType /\ Recordable(o)
  BY <1>1, OutcomesTyped
<1>4. tasks' \subseteq Tasks /\ blocked' \in BOOLEAN
  BY <1>2, <1>3 DEF TypeInv, TypeOK, OutcomeType
<1>5. \A s \in Slots : Exists(s) => file[s].content \in AllContents
  BY Shapes DEF TypeInv, TypeOK, Entries, Exists
<1>6. synced' \in [Slots -> AllContents \cup {Absent}]
  BY <1>2, <1>3, <1>5 DEF TypeInv, TypeOK, Recordable
<1>. QED
  BY <1>2, <1>4, <1>6 DEF TypeInv, TypeOK, RecordMade, Check, Phases

(* The decision adds forget's orphans and picks the next phase.            *)
LEMMA DecideTyped == TypeInv /\ Decide => TypeInv'
<1>. SUFFICES ASSUME TypeInv, Decide PROVE TypeInv'
  OBVIOUS
<1>1. OrphanTasks \subseteq Tasks
  <2>1. Orphans \subseteq Slots
    BY DEF Orphans
  <2>2. \A s \in Slots : [op |-> IF Exists(s) THEN "delete" ELSE "unlist",
                         slot |-> s] \in Tasks
    BY DEF Tasks
  <2>. QED
    BY <2>1, <2>2 DEF OrphanTasks
<1>2. blocked' \in BOOLEAN
  BY DEF Decide, TypeInv, TypeOK
<1>3. pc' \in {"failed", "commit", "exec"}
  BY DEF Decide
<1>. QED
  BY <1>1, <1>2, <1>3 DEF TypeInv, TypeOK, RecordMade, Decide, Phases

(* The steps that write a file's content                                   *)
LEMMA CopyTyped ==
  ASSUME TypeInv,
         (\E t \in tasks : BeginCopy(t) \/ Encrypt(t)) \/ FinishCopy
  PROVE  TypeInv'
<1>1. \A p \in Paths : Exists(p) => file[p].content \in AllContents
  BY DEF TypeInv, TypeOK, Entries, Exists
<1>2. ASSUME NEW t \in tasks, BeginCopy(t) PROVE TypeInv'
  <2>1. t \in Tasks /\ To(t) \in Paths /\ t # NoTask /\ clock' \in Nat
    BY <1>2, Shapes DEF TypeInv, TypeOK, BeginCopy
  <2>2. file' \in [Paths -> Entries \cup {Absent}]
    BY <1>2, <2>1, WriteTyped DEF TypeInv, BeginCopy, AllContents
  <2>. QED
    BY <1>2, <2>1, <2>2 DEF TypeInv, TypeOK, RecordMade, BeginCopy, Phases
<1>3. ASSUME NEW t \in tasks, Encrypt(t) PROVE TypeInv'
  <2>1. /\ t \in Tasks /\ t.slot \in Paths /\ t.slot \in Slots
        /\ From(t) \in Paths /\ t # NoTask /\ clock' \in Nat
    BY <1>3, Shapes DEF TypeInv, TypeOK, Encrypt
  <2>2. file[From(t)].content \in AllContents
    BY <1>1, <1>3, <2>1 DEF Encrypt
  <2>3. file' \in [Paths -> Entries \cup {Absent}]
    BY <1>3, <2>1, <2>2, WriteTyped DEF TypeInv, Encrypt
  <2>4. synced' \in [Slots -> AllContents \cup {Absent}]
    BY <1>3, <2>2 DEF TypeInv, TypeOK, Encrypt
  <2>. QED
    BY <1>3, <2>1, <2>3, <2>4 DEF TypeInv, TypeOK, RecordMade, Encrypt, Phases
<1>4. ASSUME FinishCopy PROVE TypeInv'
  <2>1. /\ task \in Tasks /\ From(task) \in Paths /\ To(task) \in Paths
        /\ clock' \in Nat
    BY <1>4, Shapes DEF TypeInv, TypeOK, FinishCopy
  <2>2. file[From(task)].content \in AllContents
    BY <1>1, <1>4, <2>1 DEF FinishCopy
  <2>3. file' \in [Paths -> Entries \cup {Absent}]
    BY <1>4, <2>1, <2>2, WriteTyped DEF TypeInv, FinishCopy
  <2>4. synced' \in [Slots -> AllContents \cup {Absent}]
    BY <1>4, <2>2 DEF TypeInv, TypeOK, FinishCopy
  <2>. QED
    BY <1>4, <2>1, <2>3, <2>4 DEF TypeInv, TypeOK, RecordMade, FinishCopy, Phases
<1>. QED
  BY <1>2, <1>3, <1>4

(* update_sync_state and the steps after it                                *)
LEMMA RecordTyped == TypeInv /\ Record => TypeInv'
<1>. SUFFICES ASSUME TypeInv, Record PROVE TypeInv'
  OBVIOUS
<1>1. task \in Tasks /\ task.slot \in Slots /\ task.slot \in Paths
  BY Shapes DEF TypeInv, TypeOK, Record
<1>2. file[task.slot] \in Entries
  BY <1>1 DEF TypeInv, TypeOK, Record, Exists
<1>3. Recorded(task.slot) \in Records
  BY <1>2 DEF TypeInv, TypeOK, Recorded, Records, Entries
<1>4. /\ mem' \in [Slots -> Records \cup {Absent}]
      /\ mem'[task.slot] = Recorded(task.slot)
  BY <1>1, <1>3 DEF TypeInv, TypeOK, Record
<1>. QED
  BY <1>1, <1>3, <1>4 DEF TypeInv, TypeOK, RecordMade, Record, Phases

(* The half-stamped file system of a failing stamp, and the stamped one    *)
LEMMA StampFiles ==
  ASSUME TypeInv, pc = "stamp"
  PROVE  /\ HalfStamped \subseteq [Paths -> Entries \cup {Absent}]
         /\ Exists(task.slot) /\ Exists(TargetOf(task.slot))
              => Stamped(task.slot) \in [Paths -> Entries \cup {Absent}]
<1>. DEFINE s == task.slot
            m == mem[s].mtime
<1>1. /\ s \in Slots /\ s \in Paths /\ TargetOf(s) \in Paths /\ TargetOf(s) # s
      /\ m \in Nat
  <2>1. task \in Tasks
    BY DEF TypeInv, TypeOK
  <2>2. mem[s] \in Records
    BY DEF TypeInv, RecordMade
  <2>. QED
    BY <2>1, <2>2, Shapes DEF Records
<1>2. \A p \in Paths : Exists(p) =>
        /\ file[p] \in Entries
        /\ [file[p] EXCEPT !.mtime = m] \in Entries
  BY <1>1 DEF TypeInv, TypeOK, Entries, Exists
<1>3. HalfStamped \subseteq [Paths -> Entries \cup {Absent}]
  <2>1. file \in [Paths -> Entries \cup {Absent}]
    BY DEF TypeInv, TypeOK
  <2>2. Exists(TargetOf(s)) =>
          [file EXCEPT ![TargetOf(s)].mtime = m]
            \in [Paths -> Entries \cup {Absent}]
    BY <1>1, <1>2, <2>1
  <2>. QED
    BY <2>1, <2>2 DEF HalfStamped
<1>4. ASSUME Exists(s), Exists(TargetOf(s))
      PROVE  Stamped(s) \in [Paths -> Entries \cup {Absent}]
  <2>. DEFINE g == [file EXCEPT ![s].mtime = m]
  <2>1. /\ g \in [Paths -> Entries \cup {Absent}]
        /\ g[TargetOf(s)] = file[TargetOf(s)]
    BY <1>1, <1>2, <1>4 DEF TypeInv, TypeOK
  <2>2. [g[TargetOf(s)] EXCEPT !.mtime = m] \in Entries
    BY <1>1, <1>2, <1>4, <2>1
  <2>3. Stamped(s) = [g EXCEPT ![TargetOf(s)].mtime = m]
    BY DEF Stamped
  <2>. HIDE DEF g
  <2>. QED
    BY <1>1, <2>1, <2>2, <2>3
<1>. QED
  BY <1>3, <1>4

(* update_sync_state's second half, whole or cut short                     *)
LEMMA StampTyped == TypeInv /\ (Stamp \/ StampDenied) => TypeInv'
<1>1. ASSUME TypeInv, Stamp PROVE TypeInv'
  <2>1. task \in Tasks /\ task # NoTask
    BY <1>1, Shapes DEF TypeInv, TypeOK, Stamp
  <2>2. file' \in [Paths -> Entries \cup {Absent}]
    BY <1>1, StampFiles DEF Stamp
  <2>3. CASE pc' = "drop" /\ UNCHANGED <<task, done>>
    BY <1>1, <2>1, <2>2, <2>3 DEF TypeInv, TypeOK, RecordMade, Stamp, Phases
  <2>4. CASE TaskDone
    BY <1>1, <2>1, <2>2, <2>4
       DEF TypeInv, TypeOK, RecordMade, Stamp, TaskDone, Phases
  <2>. QED
    BY <1>1, <2>3, <2>4 DEF Stamp
<1>2. ASSUME TypeInv, StampDenied PROVE TypeInv'
  <2>1. file' \in [Paths -> Entries \cup {Absent}]
    BY <1>2, StampFiles DEF StampDenied
  <2>2. pc' \in {"exec", "failed"}
    BY <1>2 DEF StampDenied
  <2>. QED
    BY <1>2, <2>1, <2>2 DEF TypeInv, TypeOK, RecordMade, StampDenied, Phases
<1>. QED
  BY <1>1, <1>2

(* Steps that remove a file                                                *)
LEMMA RemovalTyped ==
  ASSUME TypeInv, DropPlain \/ FailTask \/ \E t \in tasks : Delete(t)
  PROVE  TypeInv'
<1>1. ASSUME DropPlain PROVE TypeInv'
  <2>1. task \in Tasks /\ Plain(task.slot[1]) \in Slots
    BY <1>1, Shapes DEF TypeInv, TypeOK, DropPlain
  <2>2. /\ file' \in [Paths -> Entries \cup {Absent}]
        /\ mem' \in [Slots -> Records \cup {Absent}]
    BY <1>1, <2>1, Shapes DEF TypeInv, TypeOK, DropPlain
  <2>. QED
    BY <1>1, <2>1, <2>2 DEF TypeInv, TypeOK, RecordMade, DropPlain, TaskDone, Phases
<1>2. ASSUME FailTask PROVE TypeInv'
  <2>1. file' \in [Paths -> Entries \cup {Absent}]
    <3>1. CASE pc = "copy" /\ task.slot[2] = "enc"
      BY <1>2, <3>1 DEF TypeInv, TypeOK, FailTask
    <3>2. CASE ~(pc = "copy" /\ task.slot[2] = "enc")
      BY <1>2, <3>2, StampFiles DEF TypeInv, TypeOK, FailTask
    <3>. QED
      BY <3>1, <3>2
  <2>2. pc # "idle"
    BY <1>2 DEF FailTask
  <2>. QED
    BY <1>2, <2>1, <2>2 DEF TypeInv, TypeOK, RecordMade, FailTask, Phases
<1>3. ASSUME NEW t \in tasks, Delete(t) PROVE TypeInv'
  <2>1. t \in Tasks
    BY DEF TypeInv, TypeOK
  <2>2. file' \in [Paths -> Entries \cup {Absent}]
    BY <1>3 DEF TypeInv, TypeOK, Delete
  <2>3. mem' \in [Slots -> Records \cup {Absent}]
    BY <1>3 DEF TypeInv, TypeOK, Delete
  <2>. QED
    BY <1>3, <2>1, <2>2, <2>3 DEF TypeInv, TypeOK, RecordMade, Delete, Phases
<1>. QED
  BY <1>1, <1>2, <1>3

(* Steps that touch no file                                                *)
LEMMA QuietTyped ==
  ASSUME TypeInv,
         TasksDone \/ \E t \in tasks : RecordOnly(t) \/ SkipTask(t)
  PROVE  TypeInv'
<1>1. CASE TasksDone
  BY <1>1 DEF TypeInv, TypeOK, RecordMade, TasksDone, Phases
<1>2. ASSUME NEW t \in tasks, RecordOnly(t) PROVE TypeInv'
  <2>1. t \in Tasks /\ t # NoTask
    BY Shapes DEF TypeInv, TypeOK
  <2>. QED
    BY <1>2, <2>1 DEF TypeInv, TypeOK, RecordMade, RecordOnly, Phases
<1>3. ASSUME NEW t \in tasks, SkipTask(t) PROVE TypeInv'
  BY <1>3 DEF TypeInv, TypeOK, RecordMade, SkipTask, Phases
<1>. QED
  BY <1>1, <1>2, <1>3

(* The ways a run ends                                                     *)
LEMMA EndTyped == TypeInv /\ (Commit \/ Fail \/ Crash) => TypeInv'
<1>. SUFFICES ASSUME TypeInv, Commit \/ Fail \/ Crash PROVE TypeInv'
  OBVIOUS
<1>1. Quit
  BY DEF Commit, Fail, Crash
<1>2. disk' \in [Slots -> Records \cup {Absent}] /\ UNCHANGED <<file, clock, synced>>
  BY DEF Commit, Fail, Crash, Quit, TypeInv, TypeOK
<1>3. mem' \in [Slots -> Records \cup {Absent}]
  BY <1>1 DEF Quit, NoRecords
<1>. QED
  BY <1>1, <1>2, <1>3 DEF TypeInv, TypeOK, RecordMade, Quit, Phases

(* No step breaks the types.                                               *)
LEMMA TypeInvKept == TypeInv /\ [Next]_vars => TypeInv'
<1>. SUFFICES ASSUME TypeInv, [Next]_vars PROVE TypeInv'
  OBVIOUS
<1>1. CASE \E r \in Runs : Start(r)
  BY <1>1, StartTyped
<1>2. CASE \E p \in todo : Check(p)
  BY <1>2, CheckTyped
<1>3. CASE Decide
  BY <1>3, DecideTyped
<1>4. CASE Execute
  BY <1>4, CopyTyped, RecordTyped, StampTyped, RemovalTyped, QuietTyped
     DEF Execute
<1>5. CASE Commit \/ Fail \/ Crash
  BY <1>5, EndTyped
<1>6. CASE User
  BY <1>6, UserTyped
<1>7. CASE Rest \/ UNCHANGED vars
  BY <1>7 DEF TypeInv, TypeOK, RecordMade, Rest, vars
<1>. QED
  BY <1>1, <1>2, <1>3, <1>4, <1>5, <1>6, <1>7 DEF Next, Process

(* Type correctness: in every reachable state of the core, whatever the    *)
(* files, the invocations and the faults, every variable has its type, a   *)
(* run is under way unless the program is idle, and a task is in hand in   *)
(* exactly the phases that work on one.                                    *)
THEOREM TypeCorrect == Spec => []TypeOK
<1>1. Init => TypeInv
  BY InitTyped
<1>2. TypeInv /\ [Next]_vars => TypeInv'
  BY TypeInvKept
<1>3. TypeInv => TypeOK
  BY DEF TypeInv
<1>. QED
  BY <1>1, <1>2, <1>3, PTL DEF Spec

-----------------------------------------------------------------------------
(* A refused run never gets to the tasks, and until it ends its records    *)
(* are the stored ones.                                                    *)
Refused == run.dryRun \/ (blocked /\ ~run.force)
Executing == {"exec", "copy", "record", "stamp", "drop"}
Refusal == /\ pc = "check" => mem = disk
           /\ pc \in Executing => ~Refused
           /\ pc \in {"commit", "failed"} /\ Refused => mem = disk

(* Decide is the one step from the checks to the tasks.                    *)
LEMMA DecideRefuses == Refusal /\ Decide => Refusal'
<1>. SUFFICES ASSUME Refusal, Decide PROVE Refusal'
  OBVIOUS
<1>1. mem' = disk' /\ run' = run
  BY DEF Refusal, Decide
<1>2. pc' \in {"failed", "commit"} \/ (pc' = "exec" /\ ~Refused')
  BY DEF Decide, Refused, NothingToDo
<1>. QED
  BY <1>1, <1>2 DEF Refusal, Executing

(* No step breaks the invariant.                                           *)
LEMMA RefusalKept == Refusal /\ [Next]_vars => Refusal'
<1>. SUFFICES ASSUME Refusal, [Next]_vars PROVE Refusal'
  OBVIOUS
<1>1. CASE \E r \in Runs : Start(r)
  BY <1>1 DEF Start, Refusal, Executing
<1>2. CASE \E p \in todo : Check(p)
  BY <1>2 DEF Check, Refusal, Executing
<1>3. CASE Decide
  BY <1>3, DecideRefuses
<1>4. CASE Execute
  <2>1. pc \in Executing /\ UNCHANGED <<run, blocked>>
    BY <1>4 DEF Execute, Executing, BeginCopy, Encrypt, RecordOnly, Delete,
                SkipTask, FinishCopy, Record, Stamp, StampDenied, DropPlain,
                FailTask, TasksDone
  <2>2. ~Refused'
    BY <2>1 DEF Refusal, Refused
  <2>3. pc' # "check"
    BY <1>4 DEF Execute, BeginCopy, Encrypt, RecordOnly, Delete, SkipTask,
                FinishCopy, Record, Stamp, StampDenied, DropPlain, TaskDone,
                FailTask, TasksDone
  <2>. QED
    BY <2>2, <2>3 DEF Refusal
<1>5. CASE Commit \/ Fail \/ Crash
  BY <1>5 DEF Commit, Fail, Crash, Quit, Refusal, Executing
<1>6. CASE User \/ Rest \/ UNCHANGED vars
  BY <1>6 DEF User, Edit, Remove, Touch, Rest, vars, Refusal, Refused
<1>. QED
  BY <1>1, <1>2, <1>3, <1>4, <1>5, <1>6 DEF Next, Process

(* All or nothing: a dry run, and a run that met a conflict or an error    *)
(* while it checked its paths and is not forced, changes neither a file    *)
(* nor the stored records, up to and including its last step - whatever    *)
(* was queued before and after the conflict, and whatever fails.           *)
THEOREM RefusedRunWritesNothing == Spec => RefusalWritesNothing
<1>1. Init => Refusal
  BY DEF Init, Refusal, Executing
<1>2. Refusal /\ [Next]_vars => Refusal'
  BY RefusalKept
<1>3. Refusal /\ [Next]_vars
        => [ByDfm /\ (run.dryRun \/ (blocked /\ ~run.force))
              => UNCHANGED <<file, disk>>]_vars
  <2>. SUFFICES ASSUME Refusal, Next, ByDfm, Refused
                PROVE  UNCHANGED <<file, disk>>
    BY DEF Refused
  <2>1. CASE \E r \in Runs : Start(r)
    BY <2>1 DEF Start
  <2>2. CASE Decide \/ \E p \in todo : Check(p)
    BY <2>2 DEF Check, Decide
  <2>3. CASE Execute
    BY <2>3 DEF Execute, Refusal, Executing, BeginCopy, Encrypt, RecordOnly,
                Delete, SkipTask, FinishCopy, Record, Stamp, StampDenied,
                DropPlain, FailTask, TasksDone
  <2>4. CASE Commit \/ Fail \/ Crash
    BY <2>4 DEF Commit, Fail, Crash, Quit, Refusal
  <2>5. ~(User \/ Rest)
    BY DEF User, Edit, Remove, Touch, Rest, vars, ByDfm
  <2>. QED
    BY <2>1, <2>2, <2>3, <2>4, <2>5 DEF Next, Process
<1>. QED
  BY <1>1, <1>2, <1>3, PTL DEF Spec, RefusalWritesNothing

-----------------------------------------------------------------------------
(* Edits                                                                   *)

(* What the user is assumed to do.  Each of these can lose an edit: while  *)
(* a pair is being recorded an edit of it is taken for what was copied; a  *)
(* plain source add has found identical is not looked at again; content    *)
(* restored from a record passes for content that was never edited.        *)
NoEditWhileRecording == EditPhases \cap {"record", "stamp"} = {}
IdenticalSourceKept ==
  "plain" \in EditSides => EditPhases \cap {"check", "exec", "copy", "drop"} = {}
(* A pair without an encrypted source has a record that is of its source   *)
(* alone, and its times decide nothing: while it is being recorded the     *)
(* target may be edited.                                                   *)
PlainOnly == /\ \A s \in Managed : s[2] = "plain"
             /\ \A p \in UserPaths : p[2] # "enc"
             /\ ForceEncrypted = {} /\ \A r \in Runs : ~r.encrypt
SourcesLeft == PlainOnly /\ "plain" \notin EditSides
Undisturbed == NoEditWhileRecording \/ SourcesLeft
(* ... or the user waits until a run is over, and nothing fails.           *)
Quiet == EditPhases \subseteq {"idle"} /\ Faults = {}
Attentive == Undisturbed /\ IdenticalSourceKept
Considerate == (Attentive /\ ~Reverts) \/ Quiet
(* A source whose record can be trusted: none is edited at the wrong       *)
(* moment, or this one has not been edited since the run began.            *)
Calm(s) == Attentive \/ s \notin raced

Name(t) == t.slot[1]
TargetFile(f) == <<f, "target">>
Working == {"check", "exec", "copy", "record", "stamp", "drop"}
(* tasks the run has still to begin, or has begun *)
AtHand == tasks \cup ({task} \ {NoTask})
(* ... of which no record has been made *)
Unrecorded == tasks \cup (IF pc \in {"copy", "record"} THEN {task} ELSE {})

-----------------------------------------------------------------------------
(* The inductive invariant, in parts *)

(* Nothing is newer than the clock; a copy that has begun is newer than    *)
(* every record.                                                           *)
TimeInv ==
  /\ \A p \in Paths : Exists(p) => file[p].mtime <= clock
  /\ \A s \in Slots : /\ disk[s] # Absent => disk[s].mtime <= clock
                      /\ mem[s] # Absent => mem[s].mtime <= clock
                      /\ pc = "copy" /\ disk[s] # Absent => disk[s].mtime < clock
                      /\ pc = "copy" /\ mem[s] # Absent => mem[s].mtime < clock
  /\ pc = "stamp" => /\ mem[task.slot] # Absent
                     /\ NoEditWhileRecording => mem[task.slot].mtime = clock

(* Which tasks a command queues: of add and sync one for a name, of the    *)
(* others one for a slot.                                                  *)
OpsOf(cmd) == CASE cmd = "add" -> {"push", "record"}
                [] cmd = "pull" -> {"pull"}
                [] cmd = "sync" -> {"push", "pull"}
                [] cmd = "forget" -> {"delete", "unlist"}
                [] OTHER -> {}
OnePerName(cmd) == cmd \in {"add", "sync"}
QueueInv ==
  /\ task \notin tasks
  /\ pc = "idle" => tasks = {}
  /\ \A t \in AtHand : /\ t.op \in OpsOf(run.cmd)
                       /\ t.op = "record" => t.slot[2] = "plain"
  /\ \A t, u \in AtHand : OnePerName(run.cmd) /\ Name(t) = Name(u) => t = u
  /\ pc = "check" /\ OnePerName(run.cmd) =>
       \A t \in tasks : TargetFile(Name(t)) \notin todo

(* A record in memory is the stored one, or that of what was copied.       *)
MemInv ==
  /\ pc = "idle" => mem = NoRecords
  /\ pc = "check" => mem = disk
  /\ \A s \in Slots : Calm(s) /\ mem[s] # Absent
                       => mem[s] = disk[s] \/ mem[s].sha256 = synced[s]
  /\ run.cmd # "forget" => \A t \in Unrecorded : mem[t.slot] \in {disk[t.slot], Absent}

(* The task in hand: its destination is torn until the copy is complete,   *)
(* then both files hold what was copied.                                   *)
Settled(p, s) == Exists(p) /\ file[p].content = synced[s]
HandInv ==
  /\ pc = "copy" => /\ Copies(task) /\ ~Encrypts(task)
                    /\ Raced(Name(task)) \/ file[To(task)].content = Torn
  /\ pc \in {"record", "stamp"} =>
       /\ task.op \in {"push", "pull", "record"}
       /\ (Undisturbed /\ Copies(task)) \/ Calm(task.slot) => Settled(task.slot, task.slot)
       /\ NoEditWhileRecording /\ Copies(task) => Settled(TargetOf(task.slot), task.slot)
  /\ pc = "drop" => Encrypts(task) /\ run.cmd = "add"
  /\ pc \in Working =>
       \A t \in AtHand : t.op = "record" /\ Calm(t.slot) => Settled(t.slot, t.slot)

(* What still has a recorded content is what the pair last had in common.  *)
KnownSource(s) == file[s].content \in {Torn, synced[s]}
KnownTarget(f) ==
  LET c == file[TargetFile(f)].content IN
  c = Torn \/ \E s \in Slots : s[1] = f /\ c = synced[s]
SyncedInv ==
  Considerate => \A s \in Slots : \A r \in {disk[s], mem[s]} : r # Absent =>
    /\ Exists(s) /\ file[s].content = r.sha256 => KnownSource(s)
    /\ Exists(TargetOf(s)) /\ file[TargetOf(s)].content = r.sha256
         => KnownTarget(s[1])

(* What is not newer than a record of an encrypted pair has its content.   *)
StampInv == Undisturbed =>
  \A s \in Slots : \A r \in {disk[s], mem[s]} : s[2] = "enc" /\ r # Absent =>
    \A p \in {s, TargetOf(s)} :
      Exists(p) /\ file[p].mtime <= r.mtime => file[p].content = r.sha256

(* In quiet a record has the content last in common, and a run that fails  *)
(* has recorded nothing; what a task copies is there.                      *)
RecordsInv == Quiet =>
  /\ pc = "idle" => \A s \in Slots : disk[s] # Absent => disk[s].sha256 = synced[s]
  /\ pc # "idle" => \A s \in Slots : mem[s] # Absent =>
                      mem[s].sha256 = synced[s] \/ (pc = "record" /\ s = task.slot)
  /\ pc = "failed" => mem = disk \/ run.cmd = "forget"
PresentInv == Quiet /\ pc \in Working => \A t \in AtHand :
  /\ t.op \in {"push", "record"} => Exists(TargetFile(Name(t)))
  /\ t.op = "pull" => Exists(t.slot)

(* Why a queued task may overwrite what it overwrites *)
Careful == /\ Considerate
           /\ run.cmd = "sync" \/ (run.cmd \in {"add", "pull"} /\ ~run.force)
SourceSpared(s) == Exists(s) => KnownSource(s)
TargetSpared(s) ==
  Exists(TargetOf(s)) =>
    \/ /\ KnownTarget(s[1])
       /\ Quiet => file[TargetOf(s)].content \in {Torn, synced[s]}
    \/ \E u \in Slots : u[1] = s[1] /\ Exists(u) /\ Same(u, TargetOf(s))
PlainSpared(f) ==
  Exists(Plain(f)) => \/ KnownSource(Plain(f))
                      \/ Exists(TargetFile(f)) /\ Same(Plain(f), TargetFile(f))
SparedInv ==
  Careful /\ pc \in Working => \A t \in AtHand : ~Raced(Name(t)) =>
    /\ t.op = "push" /\ t \in tasks => SourceSpared(t.slot)
    /\ t.op = "pull" => TargetSpared(t.slot)
    /\ Encrypts(t) /\ run.cmd = "add" => PlainSpared(Name(t))

(* Nothing is ever encrypted where nothing is to begin with.               *)
PlainInv == PlainOnly =>
  /\ \A f \in Files : ~Exists(Enc(f)) /\ disk[Enc(f)] = Absent /\ mem[Enc(f)] = Absent
  /\ \A t \in AtHand : t.slot[2] = "plain"

SafetyInv == /\ PlainInv /\ TypeInv /\ TimeInv /\ QueueInv /\ MemInv /\ HandInv
             /\ SyncedInv /\ StampInv /\ RecordsInv /\ PresentInv /\ SparedInv

-----------------------------------------------------------------------------
(* Paths, steps and the ways a step writes files *)

(* A path is a source or the target of a name.                             *)
LEMMA PathFacts ==
  /\ \A s \in Slots : /\ s \in Paths /\ s[1] \in Files /\ s[2] \in {"plain", "enc"}
                      /\ s = <<s[1], s[2]>> /\ TargetOf(s) = TargetFile(s[1])
                      /\ TargetOf(s) \in Paths /\ TargetOf(s) \notin Slots
                      /\ TargetOf(s)[1] = s[1]
  /\ \A f \in Files : /\ Plain(f) \in Slots /\ Plain(f)[1] = f /\ Plain(f)[2] = "plain"
                      /\ Enc(f) \in Slots /\ Enc(f)[1] = f /\ Enc(f)[2] = "enc"
                      /\ TargetFile(f) \in Paths /\ TargetFile(f) \notin Slots
                      /\ TargetFile(f)[1] = f /\ TargetFile(f)[2] = "target"
                      /\ TargetOf(Plain(f)) = TargetFile(f) /\ TargetOf(Enc(f)) = TargetFile(f)
  /\ \A p \in Paths : /\ p[1] \in Files
                      /\ p \in Slots \/ p = TargetFile(p[1])
                      /\ p[2] = "target" => p = TargetFile(p[1])
                      /\ p[2] # "target" => p \in Slots
BY DEF Paths, Targets, Slots, TargetOf, TargetFile, Plain, Enc

(* A task copies between the two files of its slot.                        *)
LEMMA TaskFacts ==
  ASSUME NEW t \in Tasks
  PROVE  /\ t.slot \in Slots /\ t # NoTask /\ Name(t) \in Files
         /\ t.op = "push" => From(t) = TargetOf(t.slot) /\ To(t) = t.slot
         /\ t.op # "push" => From(t) = t.slot /\ To(t) = TargetOf(t.slot)
         /\ From(t) \in Paths /\ To(t) \in Paths /\ From(t) # To(t)
         /\ From(t)[1] = Name(t) /\ To(t)[1] = Name(t)
         /\ Encrypts(t) => t.op = "push" /\ t.slot[2] = "enc"
         /\ Copies(t) <=> t.op \in {"push", "pull"}
<1>1. t.slot \in Slots /\ t # NoTask
  BY Shapes
<1>. QED
  BY <1>1, PathFacts DEF From, To, Encrypts, Copies, Name

(* the steps, without the disjuncts they are grouped in                    *)
Acts == \/ \E r \in Runs : Start(r)
        \/ \E p \in todo : Check(p)
        \/ \E t \in tasks : BeginCopy(t) \/ Encrypt(t) \/ RecordOnly(t) \/ Delete(t) \/ SkipTask(t)
        \/ Decide \/ FinishCopy \/ Record \/ Stamp \/ StampDenied \/ DropPlain \/ FailTask
        \/ TasksDone \/ Commit \/ Fail \/ Crash
        \/ \E p \in Paths, c \in Contents : Edit(p, c)
        \/ \E p \in Paths : Remove(p)
        \/ UNCHANGED vars

(* Every step is one of them.                                              *)
LEMMA StepsAre == [Next]_vars => Acts
BY DEF Next, Process, Execute, User, Rest, Acts

(* What a write does to the file system                                    *)
LEMMA WriteIs ==
  ASSUME TypeOK, NEW p \in Paths, NEW c, Write(p, c)
  PROVE  /\ file'[p] = [content |-> c, mtime |-> clock']
         /\ file'[p].content = c /\ file'[p].mtime = clock'
         /\ \A q \in Paths \ {p} : file'[q] = file[q]
         /\ \A q \in Paths : file'[q] = file[q] \/ file'[q].mtime = clock'
<1>1. file' = [file EXCEPT ![p] = [content |-> c, mtime |-> clock']] /\ p \in DOMAIN file
      /\ DOMAIN file = Paths
  BY DEF TypeOK, Write
<1>2. file'[p] = [content |-> c, mtime |-> clock']
  BY <1>1
<1>3. \A q \in Paths \ {p} : file'[q] = file[q]
  BY <1>1
<1>4. file'[p].content = c /\ file'[p].mtime = clock'
  BY <1>2
<1>. QED
  BY <1>2, <1>3, <1>4

(* An entry is not Absent.                                                 *)
LEMMA EntryExists ==
  ASSUME NEW c \in AllContents, NEW m \in Nat
  PROVE  [content |-> c, mtime |-> m] # Absent
BY CoreAssumption DEF Entries

-----------------------------------------------------------------------------
(* What the checks queue, and why it may be done *)

(* Nobody edits while a pair is recorded if the user is considerate, as he *)
(* is in quiet.                                                            *)
LEMMA Manners ==
  /\ NoEditWhileRecording => Undisturbed
  /\ Considerate => Undisturbed
  /\ Considerate => Attentive
  /\ Attentive => \A s : Calm(s)
  /\ Quiet => Considerate /\ NoEditWhileRecording
BY DEF Considerate, Attentive, Calm, Quiet, NoEditWhileRecording, Undisturbed, IdenticalSourceKept

(* An edited source stays edited until the run is over.                    *)
LEMMA CalmBefore ==
  ASSUME [Next]_vars, pc # "idle", pc' # "idle"
  PROVE  raced \subseteq raced' /\ \A s : Calm(s)' => Calm(s)
<1>1. raced \subseteq raced'
  <2>1. CASE \E r \in Runs : Start(r)
    BY <2>1 DEF Start
  <2>2. CASE Decide \/ \E p \in todo : Check(p)
    BY <2>2 DEF Check, Decide
  <2>3. CASE Execute
    BY <2>3 DEF Execute, BeginCopy, Encrypt, RecordOnly, Delete, SkipTask, FinishCopy, Record,
                Stamp, StampDenied, DropPlain, FailTask, TasksDone
  <2>4. CASE Commit \/ Fail \/ Crash
    BY <2>4 DEF Commit, Fail, Crash, Quit
  <2>5. CASE User
    BY <2>5 DEF User, Edit, Remove, Touch
  <2>6. CASE Rest \/ UNCHANGED vars
    BY <2>6 DEF Rest, vars
  <2>. QED
    BY <2>1, <2>2, <2>3, <2>4, <2>5, <2>6 DEF Next, Process
<1>. QED
  BY <1>1 DEF Calm

(* An unmodified side has, by the record, the content last in common.      *)
LEMMA VerdictFacts ==
  ASSUME TypeOK, SyncedInv, StampInv, RecordsInv, pc = "check", NEW s \in Slots, mem[s] # Absent,
         Exists(s), Exists(TargetOf(s))
  PROVE  /\ Considerate =>
              /\ Verdict(s, mem) \in {"TargetModified", "NonModified"} => KnownSource(s)
              /\ Verdict(s, mem) = "SourceModified" => KnownTarget(s[1])
         /\ Quiet /\ Verdict(s, mem) = "SourceModified"
              => file[TargetOf(s)].content = synced[s]
         /\ Verdict(s, mem) # "NeverSynchronized"
<1>. DEFINE r == mem[s]
            t == file[TargetOf(s)]
            e == file[s]
<1>1. r \in Records /\ e \in Entries /\ t \in Entries
  BY PathFacts DEF TypeOK, Exists
<1>2. /\ Considerate /\ e.content = r.sha256 => KnownSource(s)
      /\ Considerate /\ t.content = r.sha256 => KnownTarget(s[1])
      /\ Quiet /\ t.content = r.sha256 => t.content = synced[s]
  BY DEF SyncedInv, RecordsInv
<1>3. CASE s[2] = "enc"
  <2>1. Undisturbed => /\ e.mtime <= r.mtime => e.content = r.sha256
                       /\ t.mtime <= r.mtime => t.content = r.sha256
    BY <1>3 DEF StampInv
  <2>2. Verdict(s, mem) = CompareByTimestamps(t, e, r)
    BY <1>3 DEF Verdict, CompareFiles
  <2>3. e.mtime \in Nat /\ t.mtime \in Nat /\ r.mtime \in Nat /\ r # Absent
    BY <1>1 DEF Entries, Records
  <2>. HIDE DEF r, t, e
  <2>4. /\ CompareByTimestamps(t, e, r) \in {"TargetModified", "NonModified"} => e.mtime <= r.mtime
        /\ CompareByTimestamps(t, e, r) = "SourceModified" => t.mtime <= r.mtime
        /\ CompareByTimestamps(t, e, r) # "NeverSynchronized"
    BY <2>3 DEF CompareByTimestamps, BothNewer
  <2>. QED
    BY <1>2, <2>1, <2>2, <2>4, Manners DEF t
<1>4. CASE s[2] # "enc"
  <2>1. Verdict(s, mem) = CompareByContent(t, e, r) /\ r # Absent
    BY <1>4 DEF Verdict, CompareFiles
  <2>. HIDE DEF r, t, e
  <2>2. /\ CompareByContent(t, e, r) \in {"TargetModified", "NonModified"} => e.content = r.sha256
        /\ CompareByContent(t, e, r) = "SourceModified" => t.content = r.sha256
        /\ CompareByContent(t, e, r) # "NeverSynchronized"
    BY <2>1 DEF CompareByContent
  <2>. QED
    BY <1>2, <2>1, <2>2 DEF t
<1>. QED
  BY <1>3, <1>4

(* Without a record the pair was never synchronized.                       *)
LEMMA NoRecordVerdict ==
  ASSUME NEW s \in Slots, mem[s] = Absent
  PROVE  Verdict(s, mem) = "NeverSynchronized"
BY DEF Verdict, CompareFiles, CompareByTimestamps, CompareByContent

(* A task that may be done: it is one the command queues for that path, an *)
(* agreement is one of identical files, and nothing unknown is overwritten.*)
Spared(t) == /\ t.op = "push" => SourceSpared(t.slot)
             /\ t.op = "pull" => TargetSpared(t.slot)
             /\ Encrypts(t) /\ run.cmd = "add" => PlainSpared(Name(t))
Agreement(s) == /\ s[2] = "plain" /\ mem[s] = Absent
                /\ Exists(s) /\ Exists(TargetOf(s)) /\ Same(s, TargetOf(s))
GoodTask(p, t) == /\ t \in Tasks /\ t.op \in OpsOf(run.cmd) /\ Name(t) = p[1]
                  /\ t.op = "record" => Agreement(t.slot)
                  /\ t.op = "push" => Exists(TargetFile(Name(t)))
                  /\ t.op = "pull" => Exists(t.slot)
                  /\ OnePerName(run.cmd) => p = TargetFile(p[1])
                  /\ Careful => Spared(t)
(* a check queues at most one task, and a good one                         *)
Good(p, o) == \/ o.queue = {}
              \/ \E t : o.queue = {t} /\ GoodTask(p, t)

(* What the outcomes are built from, as far as the queue goes              *)
LEMMA Queues ==
  /\ Skip.queue = {} /\ Abort.queue = {} /\ Blocked.queue = {}
  /\ \A op, s : /\ Queue(op, s).queue = {[op |-> op, slot |-> s]}
                /\ Contested(op, s).queue = IF run.force THEN {[op |-> op, slot |-> s]} ELSE {}
                /\ ForceOrAbort(op, s).queue = IF run.force THEN {[op |-> op, slot |-> s]} ELSE {}
BY DEF Skip, Abort, Blocked, Queue, Contested, ForceOrAbort

(* add's comparison with one source queues a push over a known source, or  *)
(* an agreement.                                                           *)
LEMMA AddPairGood ==
  ASSUME TypeOK, SyncedInv, StampInv, RecordsInv, pc = "check", run.cmd = "add",
         NEW f \in Files, NEW s \in {Plain(f), Enc(f)}, Exists(TargetFile(f)),
         Careful /\ s = Enc(f) => PlainSpared(f)
  PROVE  Good(TargetFile(f), AddPair(s))
<1>. DEFINE push == [op |-> "push", slot |-> s]
            record == [op |-> "record", slot |-> s]
            p == TargetFile(f)
<1>1. /\ s \in Slots /\ TargetOf(s) = p /\ p[1] = f /\ s[1] = f
      /\ s = Enc(f) <=> s[2] = "enc"
  BY PathFacts
<1>2. /\ push \in Tasks /\ push.op = "push" /\ push.slot = s /\ Name(push) = f
      /\ record \in Tasks /\ record.op = "record" /\ record.slot = s /\ Name(record) = f
      /\ Encrypts(push) <=> s = Enc(f)
      /\ ~Encrypts(record)
  BY <1>1 DEF Tasks, Name, Encrypts
<1>. HIDE DEF push, record
<1>3. {"push", "record"} = OpsOf(run.cmd)
  BY DEF OpsOf
<1>4. ASSUME Careful => SourceSpared(s) PROVE GoodTask(p, push)
  BY <1>1, <1>2, <1>3, <1>4 DEF GoodTask, Spared
<1>5. ASSUME Exists(s), Identical(s), mem[s] = Absent PROVE GoodTask(p, record)
  BY <1>1, <1>2, <1>3, <1>5 DEF GoodTask, Spared, Agreement, Identical
<1>6. /\ Queue("push", s).queue = {push} /\ Queue("record", s).queue = {record}
      /\ Contested("push", s).queue = IF run.force THEN {push} ELSE {}
      /\ Skip.queue = {} /\ Abort.queue = {}
  BY Queues DEF push, record
<1>7. run.force => ~Careful
  BY DEF Careful
<1>8. CASE ~Exists(s)
  BY <1>4, <1>6, <1>8 DEF AddPair, Good, SourceSpared
<1>9. CASE Exists(s) /\ mem[s] = Absent
  BY <1>4, <1>5, <1>6, <1>7, <1>9, NoRecordVerdict, <1>1 DEF AddPair, Good
<1>10. CASE Exists(s) /\ mem[s] # Absent
  <2>1. /\ Considerate /\ Verdict(s, mem) = "TargetModified" => SourceSpared(s)
        /\ Verdict(s, mem) # "NeverSynchronized" /\ (Careful => Considerate)
    BY <1>1, <1>10, VerdictFacts DEF SourceSpared, Careful
  <2>. QED
    BY <1>4, <1>6, <1>7, <1>10, <2>1 DEF AddPair, Good
<1>. QED
  BY <1>8, <1>9, <1>10

(* A plain pair always has a verdict.                                      *)
LEMMA PlainVerdict ==
  ASSUME NEW f \in Files
  PROVE  Verdict(Plain(f), mem) \in {"NeverSynchronized", "BothModified", "TargetModified",
                                     "SourceModified", "NonModified"}
BY PathFacts DEF Verdict, CompareFiles, CompareByContent

(* add looks at a plain source before it is replaced by an encrypted one.  *)
LEMMA AddGood ==
  ASSUME TypeOK, SyncedInv, StampInv, RecordsInv, pc = "check", run.cmd = "add", run.force \in BOOLEAN,
         NEW p \in Paths
  PROVE  Good(p, AddCheck(p))
<1>. DEFINE f == p[1]
            plain == Plain(f)
            enc == Enc(f)
            v == Verdict(plain, mem)
<1>0. Good(p, Skip) /\ Good(p, Abort) /\ Good(p, Blocked)
  BY Queues DEF Good
<1>1. CASE ~Exists(p) \/ p[2] # "target"
  BY <1>0, <1>1 DEF AddCheck
<1>2. CASE Exists(p) /\ p[2] = "target"
  <2>1. /\ f \in Files /\ p = TargetFile(f) /\ Exists(TargetFile(f))
        /\ plain \in Slots /\ TargetOf(plain) = TargetFile(f) /\ plain # enc /\ enc \in Slots
    BY <1>2, PathFacts
  <2>2. Good(p, AddPair(plain))
    BY <2>1, AddPairGood
  <2>3. ASSUME Careful => PlainSpared(f)
        PROVE  /\ Good(p, AddPair(enc))
               /\ Good(p, [AddPair(enc) EXCEPT !.blocks = TRUE])
    <3>1. Good(p, AddPair(enc))
      BY <2>1, <2>3, AddPairGood
    <3>2. [AddPair(enc) EXCEPT !.blocks = TRUE].queue = AddPair(enc).queue
      BY <2>1, AddPairOutcome DEF OutcomeType
    <3>. QED
      BY <3>1, <3>2 DEF Good
  <2>4. CASE ~Exists(plain)
    BY <1>2, <2>2, <2>3, <2>4 DEF AddTarget, AddCheck, PlainSpared
  <2>5. CASE Exists(plain)
    <3>1. Careful /\ v \in {"TargetModified", "NonModified"} => PlainSpared(f)
      <4>1. v # "NeverSynchronized" => mem[plain] # Absent
        BY <2>1, NoRecordVerdict
      <4>. QED
        BY <2>1, <2>5, <4>1, VerdictFacts DEF PlainSpared, Careful
    <3>2. v = "NeverSynchronized" /\ Identical(plain) => PlainSpared(f)
      BY <2>1 DEF Identical, PlainSpared
    <3>3. run.force => ~Careful
      BY DEF Careful
    <3>4. v \in {"NeverSynchronized", "BothModified", "TargetModified", "SourceModified", "NonModified"}
      BY <2>1, PlainVerdict
    <3>. HIDE DEF v, plain, enc
    <3>5. /\ run.force => Good(p, AddPair(enc)) /\ Good(p, [AddPair(enc) EXCEPT !.blocks = TRUE])
          /\ v \in {"TargetModified", "NonModified"} => Good(p, AddPair(enc))
          /\ v = "NeverSynchronized" /\ Identical(plain) => Good(p, AddPair(enc))
      BY <2>3, <3>1, <3>2, <3>3
    <3>6. Good(p, AddTarget(f))
      BY <1>0, <2>2, <2>5, <3>4, <3>5 DEF AddTarget, v, plain, enc
    <3>. QED
      BY <1>2, <3>6 DEF AddCheck
  <2>. QED
    BY <2>4, <2>5
<1>. QED
  BY <1>1, <1>2

(* pull's check                                                            *)
LEMMA PullGood ==
  ASSUME TypeOK, SyncedInv, StampInv, RecordsInv, pc = "check", run.cmd = "pull", NEW p \in Paths
  PROVE  Good(p, PullCheck(p))
<1>. DEFINE f == p[1]
            T == TargetFile(f)
            pull(s) == [op |-> "pull", slot |-> s]
<1>0. Good(p, Skip) /\ Good(p, Abort)
  BY Queues DEF Good
<1>1. f \in Files /\ Plain(f) \in Slots /\ Enc(f) \in Slots /\ T \notin Slots
  BY PathFacts
<1>2. ASSUME NEW s \in Slots, s[1] = f, Exists(s), Careful => TargetSpared(s)
      PROVE  Good(p, Queue("pull", s))
  <2>1. pull(s) \in Tasks /\ Name(pull(s)) = f /\ pull(s).op = "pull" /\ pull(s).slot = s
    BY <1>2 DEF Tasks, Name
  <2>2. GoodTask(p, pull(s))
    BY <1>2, <2>1, TaskFacts DEF GoodTask, Spared, OpsOf, OnePerName
  <2>. QED
    BY <2>2, Queues DEF Good
<1>3. ASSUME NEW s \in Slots, s[1] = f, Exists(s)
      PROVE  Good(p, Contested("pull", s)) /\ Good(p, ForceOrAbort("pull", s))
             /\ (run.force => Good(p, Queue("pull", s)))
  <2>1. run.force => ~Careful
    BY DEF Careful
  <2>2. run.force => Good(p, Queue("pull", s))
    BY <1>2, <1>3, <2>1
  <2>3. Queue("pull", s).queue = {pull(s)}
    BY Queues
  <2>4. /\ Contested("pull", s).queue = IF run.force THEN {pull(s)} ELSE {}
        /\ ForceOrAbort("pull", s).queue = IF run.force THEN {pull(s)} ELSE {}
    BY Queues
  <2>. QED
    BY <2>2, <2>3, <2>4 DEF Good
<1>4. ASSUME NEW s \in {Plain(f), Enc(f)}, Exists(s), Exists(T), Verdict(s, mem) = "SourceModified"
      PROVE  Good(p, Queue("pull", s))
  <2>1. s \in Slots /\ s[1] = f /\ TargetOf(s) = T
    BY <1>1, PathFacts
  <2>2. mem[s] # Absent
    BY <1>4, <2>1, NoRecordVerdict
  <2>3. /\ Careful => KnownTarget(f)
        /\ Quiet => file[T].content = synced[s]
    BY <1>4, <2>1, <2>2, VerdictFacts DEF Careful
  <2>. QED
    BY <1>2, <1>4, <2>1, <2>3 DEF TargetSpared
<1>5. Plain(f)[1] = f /\ Enc(f)[1] = f
  BY <1>1, PathFacts
<1>6. ASSUME Exists(T), Exists(Enc(f)) PROVE Good(p, PullEncrypted(f))
  BY <1>0, <1>1, <1>3, <1>4, <1>5, <1>6 DEF PullEncrypted
<1>7. ASSUME Exists(T) PROVE Good(p, PullExisting(f))
  BY <1>0, <1>1, <1>3, <1>4, <1>5, <1>6, <1>7 DEF PullExisting
<1>8. ASSUME ~Exists(T), NEW s \in Slots, s[1] = f, Exists(s) PROVE Good(p, Queue("pull", s))
  BY <1>2, <1>8, PathFacts DEF TargetSpared
<1>9. Good(p, PullTarget(f))
  BY <1>0, <1>1, <1>5, <1>7, <1>8 DEF PullTarget, PullMissing, TargetFile
<1>10. ASSUME p \in Slots PROVE Good(p, PullSource(p))
  <2>1. TargetOf(p) = T /\ (p[2] = "enc" => p = Enc(f))
    BY <1>10, PathFacts DEF Enc
  <2>. QED
    BY <1>0, <1>6, <1>8, <1>9, <1>10, <2>1 DEF PullSource
<1>. QED
  BY <1>9, <1>10, PathFacts DEF PullCheck

(* sync's check, and forget's                                              *)
LEMMA SyncForgetGood ==
  ASSUME TypeOK, SyncedInv, StampInv, RecordsInv, pc = "check", NEW p \in Paths
  PROVE  /\ run.cmd = "sync" => Good(p, SyncCheck(p))
         /\ run.cmd = "forget" => Good(p, ForgetCheck(p))
<1>. DEFINE f == p[1]
            T == TargetFile(f)
            s == Resolved(f)
            do(op, u) == [op |-> op, slot |-> u]
<1>0. Good(p, Skip) /\ Good(p, Abort) /\ Good(p, Blocked)
  BY Queues DEF Good
<1>1. f \in Files /\ s \in Slots /\ s[1] = f /\ TargetOf(s) = T /\ (p[2] = "target" => p = T)
      /\ (p[2] # "target" => p \in Slots)
  BY PathFacts DEF Resolved
<1>2. ASSUME run.cmd = "sync", p[2] = "target", Exists(p) PROVE Good(p, SyncTarget(f))
  <2>. DEFINE v == Verdict(s, mem)
  <2>1. ASSUME Exists(s), mem[s] # Absent
        PROVE  /\ v = "SourceModified" => Good(p, Queue("pull", s))
               /\ v = "TargetModified" => Good(p, Queue("push", s))
    <3>1. Careful => /\ v = "TargetModified" => SourceSpared(s)
                     /\ v = "SourceModified" => TargetSpared(s)
      BY <1>1, <1>2, <2>1, VerdictFacts DEF SourceSpared, TargetSpared, Careful
    <3>2. /\ do("pull", s) \in Tasks /\ do("push", s) \in Tasks
          /\ Name(do("pull", s)) = f /\ Name(do("push", s)) = f
      BY <1>1 DEF Tasks, Name
    <3>3. v = "SourceModified" => GoodTask(p, do("pull", s))
      BY <1>1, <1>2, <2>1, <3>1, <3>2, TaskFacts DEF GoodTask, Spared, OpsOf
    <3>4. v = "TargetModified" => GoodTask(p, do("push", s))
      BY <1>1, <1>2, <3>1, <3>2 DEF GoodTask, Spared, OpsOf
    <3>. QED
      BY <3>3, <3>4, Queues DEF Good
  <2>. QED
    BY <1>0, <2>1 DEF SyncTarget
<1>3. run.cmd = "sync" => Good(p, SyncCheck(p))
  BY <1>0, <1>2 DEF SyncCheck
<1>4. ASSUME run.cmd = "forget", NEW u \in Slots, u[1] = f
      PROVE  Good(p, Queue("delete", u)) /\ Good(p, Contested("delete", u))
  <2>1. GoodTask(p, do("delete", u))
    BY <1>4, TaskFacts DEF GoodTask, Spared, OpsOf, OnePerName, Careful, Tasks, Name
  <2>. QED
    BY <2>1, Queues DEF Good
<1>5. run.cmd = "forget" => Good(p, ForgetTarget(f)) /\ Good(p, MissingTarget(f))
  BY <1>0, <1>1, <1>4 DEF ForgetTarget, MissingTarget
<1>6. run.cmd = "forget" => Good(p, ForgetCheck(p))
  BY <1>0, <1>1, <1>4, <1>5 DEF ForgetCheck
<1>. QED
  BY <1>3, <1>6

(* So every check queues at most one task, and a good one.                 *)
LEMMA OutcomesGood ==
  ASSUME TypeOK, SyncedInv, StampInv, RecordsInv, pc = "check", run \in Runs, NEW p \in Paths, NEW o \in Outcomes(p)
  PROVE  Good(p, o)
<1>1. run.cmd \in {"add", "pull", "sync", "forget"} /\ run.force \in BOOLEAN
  BY CoreAssumption DEF RunType
<1>2. Good(p, Outcome(p))
  BY <1>1, AddGood, PullGood, SyncForgetGood DEF Outcome
<1>3. Good(p, Skip)
  BY Queues DEF Good
<1>. QED
  BY <1>2, <1>3 DEF Outcomes

-----------------------------------------------------------------------------
(* What the steps do, put the way the proofs need it *)

(* A task is in hand in the phases that work on one.                       *)
LEMMA InHand ==
  ASSUME TypeOK
  PROVE  /\ pc \in {"copy", "record", "stamp", "drop"} => task \in Tasks /\ run \in Runs
         /\ pc \notin {"copy", "record", "stamp", "drop"} => task = NoTask
         /\ pc # "idle" => run \in Runs
         /\ pc = "idle" => run = NoRun
BY Shapes DEF TypeOK

(* A round of the loop queues one good task or none; an agreement is noted.*)
LEMMA CheckIs ==
  ASSUME TypeInv, SyncedInv, StampInv, RecordsInv, NEW p \in todo, Check(p)
  PROVE  /\ p \in Paths /\ pc = "check" /\ pc' \in {"check", "failed"} /\ todo' = todo \ {p}
         /\ UNCHANGED <<file, disk, mem, clock, run, task, raced>>
         /\ \/ tasks' = tasks /\ synced' = synced
            \/ \E t : /\ GoodTask(p, t) /\ tasks' = tasks \cup {t}
                      /\ synced' = [s \in Slots |-> IF t.op = "record" /\ s = t.slot
                                                    THEN file[s].content ELSE synced[s]]
<1>1. p \in Paths /\ run \in Runs /\ TypeOK /\ pc = "check" /\ synced \in [Slots -> AllContents \cup {Absent}]
  BY InHand DEF TypeInv, TypeOK, Check
<1>2. PICK o \in Outcomes(p) :
        /\ tasks' = tasks \cup o.queue
        /\ pc' = IF o.aborts THEN "failed" ELSE "check"
        /\ synced' = [s \in Slots |-> IF [op |-> "record", slot |-> s] \in o.queue
                                      THEN file[s].content ELSE synced[s]]
  BY DEF Check
<1>3. Good(p, o)
  BY <1>1, OutcomesGood
<1>4. CASE o.queue = {}
  BY <1>1, <1>2, <1>4 DEF Check
<1>5. ASSUME NEW t, o.queue = {t}, GoodTask(p, t)
      PROVE  synced' = [s \in Slots |-> IF t.op = "record" /\ s = t.slot
                                       THEN file[s].content ELSE synced[s]]
  <2>1. \A s \in Slots : [op |-> "record", slot |-> s] = t <=> t.op = "record" /\ s = t.slot
    BY <1>5 DEF GoodTask, Tasks
  <2>. QED
    BY <1>2, <1>5, <2>1
<1>. QED
  BY <1>1, <1>2, <1>3, <1>4, <1>5 DEF Good, Check

(* The steps that set mtimes                                               *)
Restamp == Stamp \/ StampDenied \/ (FailTask /\ pc = "stamp")

(* Setting mtimes changes no content, and the mtimes it sets are now.      *)
LEMMA RestampIs ==
  ASSUME TypeInv, TimeInv, Restamp
  PROVE  /\ pc = "stamp" /\ UNCHANGED <<disk, mem, clock, run, tasks, synced, raced>>
         /\ \A p \in Paths : /\ file'[p] # Absent <=> file[p] # Absent
                             /\ Exists(p) => /\ file'[p].content = file[p].content
                                              /\ file'[p].mtime \in {file[p].mtime, mem[task.slot].mtime}
         /\ mem[task.slot].mtime \in Nat /\ mem[task.slot].mtime <= clock
         /\ NoEditWhileRecording => mem[task.slot].mtime = clock
<1>. DEFINE s == task.slot
            m == mem[s].mtime
            Stamps(g) == [g EXCEPT ![TargetOf(s)].mtime = mem[s].mtime]
            Like(g) == \A p \in Paths : /\ g[p] # Absent <=> file[p] # Absent
                                        /\ Exists(p) => /\ g[p].content = file[p].content
                                                         /\ g[p].mtime \in {file[p].mtime, m}
<1>1. pc = "stamp" /\ UNCHANGED <<disk, mem, clock, run, tasks, synced, raced>>
  BY DEF Restamp, Stamp, StampDenied, FailTask, TaskDone
<1>2. /\ s \in Slots /\ s \in Paths /\ TargetOf(s) \in Paths /\ TargetOf(s) # s
      /\ mem[s] \in Records /\ m \in Nat /\ m <= clock
      /\ NoEditWhileRecording => m = clock
  <2>1. /\ s \in Slots /\ s \in Paths /\ TargetOf(s) \in Paths /\ TargetOf(s) # s
    BY <1>1, InHand, TaskFacts, PathFacts DEF TypeInv
  <2>2. mem[s] \in Records /\ mem[s] # Absent
    BY <1>1, CoreAssumption DEF TypeInv, RecordMade
  <2>. QED
    BY <1>1, <2>1, <2>2 DEF TimeInv, Records
<1>3. file \in [Paths -> Entries \cup {Absent}] /\ Absent \notin Entries
  BY CoreAssumption DEF TypeInv, TypeOK
<1>4. \A p \in Paths : Exists(p) =>
        /\ file[p] \in Entries /\ [file[p] EXCEPT !.mtime = m] \in Entries
        /\ [file[p] EXCEPT !.mtime = m].content = file[p].content
        /\ [file[p] EXCEPT !.mtime = m].mtime = m
  BY <1>2, <1>3 DEF Entries, Exists
<1>5. Like(file)
  OBVIOUS
<1>6. ASSUME NEW q \in Paths, Exists(q) PROVE Like([file EXCEPT ![q].mtime = m])
  BY <1>3, <1>4, <1>6
<1>7. ASSUME file' \in HalfStamped PROVE Like(file')
  <2>1. file' = file \/ (Exists(TargetOf(s)) /\ file' = [file EXCEPT ![TargetOf(s)].mtime = m])
    BY <1>2, <1>7 DEF HalfStamped
  <2>. HIDE DEF Like
  <2>. QED
    BY <1>2, <1>5, <1>6, <2>1
<1>8. ASSUME Stamp PROVE Like(file')
  <2>. DEFINE g == [file EXCEPT ![s].mtime = m]
  <2>1. Exists(s) /\ Exists(TargetOf(s)) /\ file' = [g EXCEPT ![TargetOf(s)].mtime = m]
    BY <1>2, <1>8 DEF Stamp, Stamped
  <2>2. /\ g[TargetOf(s)] = file[TargetOf(s)] /\ g \in [Paths -> Entries \cup {Absent}] /\ Like(g)
    BY <1>2, <1>3, <1>4, <1>6, <2>1
  <2>. HIDE DEF g
  <2>3. \A p \in Paths : file'[p] = IF p = TargetOf(s) THEN [file[p] EXCEPT !.mtime = m] ELSE g[p]
    BY <1>2, <2>1, <2>2
  <2>. QED
    BY <1>2, <1>3, <1>4, <2>1, <2>2, <2>3
<1>9. StampDenied \/ (FailTask /\ pc = "stamp") => file' \in HalfStamped
  BY DEF StampDenied, FailTask
<1>. QED
  BY <1>1, <1>2, <1>7, <1>8, <1>9 DEF Restamp

(* Every step keeps the times in order. *)
LEMMA TimeStep ==
  ASSUME SafetyInv, [Next]_vars
  PROVE  TimeInv'
<1>0. /\ TypeInv /\ TypeOK /\ TimeInv /\ clock \in Nat
      /\ file \in [Paths -> Entries \cup {Absent}] /\ Absent \notin Entries
      /\ disk \in [Slots -> Records \cup {Absent}] /\ mem \in [Slots -> Records \cup {Absent}]
      /\ tasks \subseteq Tasks
      /\ \A p \in Paths : file[p] # Absent => file[p].mtime \in Nat
      /\ \A s \in Slots : /\ disk[s] # Absent => disk[s].mtime \in Nat
                          /\ mem[s] # Absent => mem[s].mtime \in Nat
  BY CoreAssumption DEF SafetyInv, TypeInv, TypeOK, Entries, Records
<1>. USE <1>0 DEF TimeInv, Exists
<1>1. ASSUME NEW r \in Runs, Start(r) PROVE TimeInv'
  BY <1>1 DEF Start
<1>2. ASSUME NEW p \in todo, Check(p) PROVE TimeInv'
  BY <1>2, CheckIs DEF SafetyInv
<1>3. ASSUME Decide PROVE TimeInv'
  <2>1. UNCHANGED <<file, disk, mem, clock>> /\ pc' \notin {"copy", "stamp"}
    BY <1>3 DEF Decide
  <2>. QED
    BY <2>1
<1>4. ASSUME NEW t \in tasks, BeginCopy(t) PROVE TimeInv'
  <2>1. /\ clock' = clock + 1 /\ pc' = "copy" /\ UNCHANGED <<disk, mem>>
        /\ To(t) \in Paths /\ Write(To(t), Torn)
    BY <1>4, TaskFacts DEF BeginCopy
  <2>2. \A q \in Paths : file'[q] = file[q] \/ file'[q].mtime = clock'
    BY <2>1, WriteIs
  <2>. QED
    BY <2>1, <2>2
<1>5. ASSUME NEW t \in tasks, Encrypt(t) PROVE TimeInv'
  <2>1. /\ clock' = clock + 1 /\ pc' = "record" /\ UNCHANGED <<disk, mem>>
        /\ t.slot \in Paths /\ Write(t.slot, file[From(t)].content)
    BY <1>5, TaskFacts, PathFacts DEF Encrypt
  <2>2. \A q \in Paths : file'[q] = file[q] \/ file'[q].mtime = clock'
    BY <2>1, WriteIs
  <2>. QED
    BY <2>1, <2>2
<1>6. ASSUME NEW t \in tasks, RecordOnly(t) PROVE TimeInv'
  BY <1>6 DEF RecordOnly
<1>7. ASSUME NEW t \in tasks, Delete(t) PROVE TimeInv'
  BY <1>7 DEF Delete
<1>8. ASSUME NEW t \in tasks, SkipTask(t) PROVE TimeInv'
  BY <1>8 DEF SkipTask
<1>9. ASSUME FinishCopy PROVE TimeInv'
  <2>1. /\ clock' = clock /\ pc' = "record" /\ UNCHANGED <<disk, mem>>
        /\ To(task) \in Paths /\ Write(To(task), file[From(task)].content)
    BY <1>9, TaskFacts, InHand DEF FinishCopy
  <2>2. \A q \in Paths : file'[q] = file[q] \/ file'[q].mtime = clock'
    BY <2>1, WriteIs
  <2>. QED
    BY <2>1, <2>2
<1>10. ASSUME Record PROVE TimeInv'
  <2>1. /\ task.slot \in Slots /\ task' = task /\ pc' = "stamp" /\ UNCHANGED <<file, disk, clock>>
        /\ mem' = [mem EXCEPT ![task.slot] = Recorded(task.slot)]
    BY <1>10, TaskFacts, InHand DEF Record
  <2>2. /\ mem'[task.slot] = Recorded(task.slot) /\ Recorded(task.slot).mtime = clock
        /\ \A u \in Slots \ {task.slot} : mem'[u] = mem[u]
    BY <2>1 DEF Recorded
  <2>3. mem'[task.slot] # Absent
    BY <1>10, RecordTyped, <2>1, CoreAssumption DEF TypeInv, RecordMade
  <2>. QED
    BY <2>1, <2>2, <2>3
<1>11. ASSUME Stamp PROVE TimeInv'
  BY <1>11, RestampIs DEF Restamp, Stamp, TaskDone
<1>12. ASSUME StampDenied PROVE TimeInv'
  BY <1>12, RestampIs DEF Restamp, StampDenied
<1>13. ASSUME DropPlain PROVE TimeInv'
  <2>1. Plain(Name(task)) \in Slots /\ Plain(Name(task)) \in Paths
    BY <1>13, InHand, TaskFacts, PathFacts DEF DropPlain
  <2>. QED
    BY <1>13, <2>1 DEF DropPlain, TaskDone, Name
<1>14. ASSUME FailTask PROVE TimeInv'
  <2>1. CASE pc = "stamp"
    BY <1>14, <2>1, RestampIs DEF Restamp, FailTask
  <2>2. CASE pc # "stamp"
    <3>1. pc' = "failed" /\ UNCHANGED <<disk, mem, clock>> /\ \A q \in Paths : file'[q] \in {file[q], Absent}
      BY <1>14, <2>2, InHand, TaskFacts DEF FailTask
    <3>. QED
      BY <3>1
  <2>. QED
    BY <2>1, <2>2
<1>15. ASSUME TasksDone PROVE TimeInv'
  BY <1>15 DEF TasksDone
<1>16. ASSUME Commit \/ Fail \/ Crash PROVE TimeInv'
  BY <1>16 DEF Commit, Fail, Crash, Quit, NoRecords
<1>17. ASSUME NEW p \in Paths, NEW c \in Contents, Edit(p, c) PROVE TimeInv'
  <2>1. /\ clock' = clock + 1 /\ UNCHANGED <<pc, task, disk, mem>>
        /\ NoEditWhileRecording => pc # "stamp"
        /\ \A q \in Paths : file'[q] = file[q] \/ file'[q].mtime = clock + 1
    BY <1>17 DEF Edit, Touch, NoEditWhileRecording
  <2>. QED
    BY <2>1
<1>18. ASSUME NEW p \in Paths, Remove(p) PROVE TimeInv'
  BY <1>18 DEF Remove, Touch
<1>19. ASSUME UNCHANGED vars PROVE TimeInv'
  BY <1>19 DEF vars
<1>. QED
  BY StepsAre, <1>1, <1>2, <1>3, <1>4, <1>5, <1>6, <1>7, <1>8, <1>9, <1>10, <1>11,
     <1>12, <1>13, <1>14, <1>15, <1>16, <1>17, <1>18, <1>19 DEF Acts

-----------------------------------------------------------------------------
(* The queue *)

(* What every proof about a step starts from                               *)
LEMMA Basics ==
  ASSUME SafetyInv
  PROVE  /\ PlainInv /\ TypeInv /\ TypeOK /\ TimeInv /\ QueueInv /\ MemInv /\ HandInv
         /\ SyncedInv /\ StampInv /\ RecordsInv /\ PresentInv /\ SparedInv
         /\ clock \in Nat /\ Absent \notin Entries /\ Absent \notin Records
         /\ file \in [Paths -> Entries \cup {Absent}]
         /\ disk \in [Slots -> Records \cup {Absent}] /\ mem \in [Slots -> Records \cup {Absent}]
         /\ synced \in [Slots -> AllContents \cup {Absent}]
         /\ tasks \subseteq Tasks /\ todo \subseteq Paths /\ NoTask \notin tasks
BY CoreAssumption, Shapes DEF SafetyInv, TypeInv, TypeOK

(* Every task at hand is a task of the command; two of add or sync are of  *)
(* different names, two of pull of different slots.                        *)
LEMMA TasksAtHand ==
  ASSUME SafetyInv
  PROVE  /\ \A t \in AtHand :
              /\ t \in Tasks /\ t.op \in OpsOf(run.cmd)
              /\ t.op = "record" => t.slot[2] = "plain" /\ run.cmd = "add"
              /\ t.op \in {"delete", "unlist"} <=> run.cmd = "forget"
              /\ t.op = "push" => OnePerName(run.cmd)
              /\ t.op = "pull" => run.cmd \in {"pull", "sync"}
         /\ \A t, u \in AtHand : OnePerName(run.cmd) /\ t # u => Name(t) # Name(u)
         /\ \A t, u \in AtHand : run.cmd # "forget" /\ t # u => t.slot # u.slot
         /\ task \notin tasks /\ (task # NoTask => task \in AtHand)
         /\ tasks \subseteq AtHand
<1>1. QueueInv /\ TypeOK /\ AtHand \subseteq Tasks
  BY Basics DEF AtHand, TypeOK
<1>2. \A t \in AtHand :
              /\ t \in Tasks /\ t.op \in OpsOf(run.cmd)
              /\ t.op = "record" => t.slot[2] = "plain" /\ run.cmd = "add"
              /\ t.op \in {"delete", "unlist"} <=> run.cmd = "forget"
              /\ t.op = "push" => OnePerName(run.cmd)
              /\ t.op = "pull" => run.cmd \in {"pull", "sync"}
  BY <1>1 DEF QueueInv, OpsOf, OnePerName
<1>3. \A t, u \in AtHand : OnePerName(run.cmd) /\ t # u => Name(t) # Name(u)
  BY <1>1 DEF QueueInv
<1>4. ASSUME NEW t \in AtHand, NEW u \in AtHand, run.cmd # "forget", t.slot = u.slot PROVE t = u
  <2>1. CASE OnePerName(run.cmd)
    BY <1>3, <1>4, <2>1 DEF Name
  <2>2. CASE ~OnePerName(run.cmd)
    <3>1. t.op = "pull" /\ u.op = "pull"
      BY <1>2, <1>4, <2>2 DEF OpsOf, OnePerName
    <3>. QED
      BY <1>2, <1>4, <3>1 DEF Tasks
  <2>. QED
    BY <2>1, <2>2
<1>5. task \notin tasks /\ (task # NoTask => task \in AtHand) /\ tasks \subseteq AtHand
  BY <1>1 DEF QueueInv, AtHand
<1>. QED
  BY <1>2, <1>3, <1>4, <1>5

(* A step that begins no new task keeps the queue good.                    *)
LEMMA QueueShrinks ==
  ASSUME QueueInv, tasks' \subseteq tasks, task' \notin tasks', AtHand' \subseteq AtHand,
         run' = run, pc' \notin {"idle", "check"}
  PROVE  QueueInv'
BY DEF QueueInv

(* Beginning a task takes it off the queue.                                *)
LEMMA Begun ==
  ASSUME SafetyInv, NEW t \in tasks, pc = "exec", task' = t, tasks' = tasks \ {t}
  PROVE  AtHand = tasks /\ AtHand' = tasks /\ task' \notin tasks'
BY Basics, InHand DEF AtHand

(* Ending one leaves the rest.                                             *)
LEMMA Ended ==
  ASSUME SafetyInv, tasks' = tasks, task' \in {task, NoTask}
  PROVE  AtHand' \subseteq AtHand /\ task' \notin tasks'
BY Basics, TasksAtHand DEF AtHand

(* Only forget has orphans.                                                *)
LEMMA OrphansAre ==
  ASSUME TypeOK
  PROVE  /\ OrphanTasks \subseteq Tasks
         /\ OrphanTasks # {} => run.cmd = "forget"
         /\ \A t \in OrphanTasks : t.op \in {"delete", "unlist"}
<1>1. Orphans \subseteq Slots /\ (Orphans # {} => run.cmd = "forget")
  BY DEF Orphans
<1>2. ASSUME NEW t \in OrphanTasks
      PROVE  t \in Tasks /\ run.cmd = "forget" /\ t.op \in {"delete", "unlist"}
  <2>1. PICK s \in Orphans : t = [op |-> IF Exists(s) THEN "delete" ELSE "unlist", slot |-> s]
    BY DEF OrphanTasks
  <2>. QED
    BY <1>1, <2>1 DEF Tasks
<1>. QED
  BY <1>2

(* Every step keeps the queue good. *)
LEMMA QueueStep ==
  ASSUME SafetyInv, [Next]_vars
  PROVE  QueueInv'
<1>0. TypeOK /\ TypeInv /\ QueueInv /\ SyncedInv /\ StampInv /\ RecordsInv /\ NoTask \notin tasks /\ tasks \subseteq Tasks
  BY Basics
<1>1. ASSUME NEW r \in Runs, Start(r) PROVE QueueInv'
  <2>1. tasks' = {} /\ task' = NoTask /\ AtHand' = {} /\ pc' = "check"
    BY <1>1, <1>0, InHand DEF Start, QueueInv, AtHand
  <2>. QED
    BY <2>1 DEF QueueInv
<1>2. ASSUME NEW p \in todo, Check(p) PROVE QueueInv'
  <2>1. /\ p \in Paths /\ p \in todo /\ pc = "check" /\ pc' \in {"check", "failed"}
        /\ todo' = todo \ {p} /\ run' = run /\ task' = task /\ task = NoTask
    BY <1>2, <1>0, CheckIs, InHand
  <2>2. CASE tasks' = tasks
    BY <1>0, <2>1, <2>2 DEF QueueInv, AtHand
  <2>3. ASSUME NEW t, GoodTask(p, t), tasks' = tasks \cup {t} PROVE QueueInv'
    <3>1. /\ AtHand = tasks /\ AtHand' = tasks \cup {t} /\ t \in Tasks /\ t # NoTask
          /\ t.op \in OpsOf(run.cmd) /\ Name(t) = p[1]
      BY <1>0, <2>1, <2>3, Shapes DEF AtHand, GoodTask
    <3>2. t.op = "record" => t.slot[2] = "plain"
      BY <2>3 DEF GoodTask, Agreement
    <3>3. OnePerName(run.cmd) => p = TargetFile(Name(t)) /\ \A u \in tasks : Name(u) # Name(t)
      BY <2>1, <2>3, <3>1, <1>0 DEF GoodTask, QueueInv
    <3>. QED
      BY <1>0, <2>1, <2>3, <3>1, <3>2, <3>3 DEF QueueInv
  <2>. QED
    BY <1>2, <1>0, <2>2, <2>3, CheckIs
<1>3. ASSUME Decide PROVE QueueInv'
  <2>1. /\ pc' \in {"failed", "commit", "exec"} /\ tasks' = tasks \cup OrphanTasks
        /\ UNCHANGED <<run, task>> /\ task = NoTask
    BY <1>3, <1>0, InHand DEF Decide
  <2>2. AtHand = tasks /\ AtHand' = tasks \cup OrphanTasks /\ task' \notin tasks'
    BY <1>0, <2>1, OrphansAre, Shapes DEF AtHand
  <2>3. \A t \in OrphanTasks : t.op \in OpsOf(run.cmd) /\ ~OnePerName(run.cmd) /\ t.op # "record"
    BY <1>0, OrphansAre DEF OpsOf, OnePerName
  <2>. QED
    BY <1>0, <2>1, <2>2, <2>3 DEF QueueInv
<1>4. ASSUME NEW t \in tasks, BeginCopy(t) PROVE QueueInv'
  <2>1. AtHand' = AtHand /\ task' \notin tasks'
    BY <1>4, Begun DEF BeginCopy
  <2>. QED
    BY <1>4, <2>1, <1>0, QueueShrinks DEF BeginCopy
<1>5. ASSUME NEW t \in tasks, Encrypt(t) PROVE QueueInv'
  <2>1. AtHand' = AtHand /\ task' \notin tasks'
    BY <1>5, Begun DEF Encrypt
  <2>. QED
    BY <1>5, <2>1, <1>0, QueueShrinks DEF Encrypt
<1>6. ASSUME NEW t \in tasks, RecordOnly(t) PROVE QueueInv'
  <2>1. AtHand' = AtHand /\ task' \notin tasks'
    BY <1>6, Begun DEF RecordOnly
  <2>. QED
    BY <1>6, <2>1, <1>0, QueueShrinks DEF RecordOnly
<1>7. ASSUME NEW t \in tasks, Delete(t) PROVE QueueInv'
  <2>1. AtHand' \subseteq AtHand /\ task' \notin tasks'
    BY <1>7, <1>0, TasksAtHand DEF AtHand, Delete
  <2>. QED
    BY <1>7, <2>1, <1>0, QueueShrinks DEF Delete
<1>8. ASSUME NEW t \in tasks, SkipTask(t) PROVE QueueInv'
  <2>1. AtHand' \subseteq AtHand /\ task' \notin tasks'
    BY <1>8, <1>0, TasksAtHand DEF AtHand, SkipTask
  <2>. QED
    BY <1>8, <2>1, <1>0, QueueShrinks DEF SkipTask
<1>9. ASSUME FinishCopy PROVE QueueInv'
  <2>1. AtHand' \subseteq AtHand /\ task' \notin tasks'
    BY <1>9, Ended DEF FinishCopy
  <2>. QED
    BY <1>9, <2>1, <1>0, QueueShrinks DEF FinishCopy
<1>10. ASSUME Record PROVE QueueInv'
  <2>1. AtHand' \subseteq AtHand /\ task' \notin tasks'
    BY <1>10, Ended DEF Record
  <2>. QED
    BY <1>10, <2>1, <1>0, QueueShrinks DEF Record
<1>11. ASSUME Stamp PROVE QueueInv'
  <2>1. AtHand' \subseteq AtHand /\ task' \notin tasks'
    BY <1>11, Ended DEF Stamp, TaskDone
  <2>. QED
    BY <1>11, <2>1, <1>0, QueueShrinks DEF Stamp, TaskDone
<1>12. ASSUME StampDenied PROVE QueueInv'
  <2>1. AtHand' \subseteq AtHand /\ task' \notin tasks'
    BY <1>12, Ended DEF StampDenied
  <2>. QED
    BY <1>12, <2>1, <1>0, QueueShrinks DEF StampDenied
<1>13. ASSUME DropPlain PROVE QueueInv'
  <2>1. AtHand' \subseteq AtHand /\ task' \notin tasks'
    BY <1>13, Ended DEF DropPlain, TaskDone
  <2>. QED
    BY <1>13, <2>1, <1>0, QueueShrinks DEF DropPlain, TaskDone
<1>14. ASSUME FailTask PROVE QueueInv'
  <2>1. AtHand' \subseteq AtHand /\ task' \notin tasks'
    BY <1>14, Ended DEF FailTask
  <2>. QED
    BY <1>14, <2>1, <1>0, QueueShrinks DEF FailTask
<1>15. ASSUME TasksDone PROVE QueueInv'
  <2>1. AtHand' \subseteq AtHand /\ task' \notin tasks'
    BY <1>15, Ended DEF TasksDone
  <2>. QED
    BY <1>15, <2>1, <1>0, QueueShrinks DEF TasksDone
<1>16. ASSUME Commit \/ Fail \/ Crash PROVE QueueInv'
  <2>1. tasks' = {} /\ task' = NoTask /\ pc' = "idle"
    BY <1>16 DEF Commit, Fail, Crash, Quit
  <2>. QED
    BY <2>1 DEF QueueInv, AtHand
<1>17. ASSUME NEW p \in Paths, NEW c \in Contents, Edit(p, c) PROVE QueueInv'
  BY <1>17, <1>0 DEF QueueInv, AtHand, Edit, Touch
<1>18. ASSUME NEW p \in Paths, Remove(p) PROVE QueueInv'
  BY <1>18, <1>0 DEF QueueInv, AtHand, Remove, Touch
<1>19. ASSUME UNCHANGED vars PROVE QueueInv'
  BY <1>19, <1>0 DEF QueueInv, AtHand, vars
<1>. QED
  BY StepsAre, <1>1, <1>2, <1>3, <1>4, <1>5, <1>6, <1>7, <1>8, <1>9, <1>10, <1>11,
     <1>12, <1>13, <1>14, <1>15, <1>16, <1>17, <1>18, <1>19 DEF Acts

-----------------------------------------------------------------------------
(* The records in memory *)

(* Every step keeps the records in memory explained. *)
LEMMA MemStep ==
  ASSUME SafetyInv, [Next]_vars
  PROVE  MemInv'
<1>0. /\ TypeOK /\ TypeInv /\ QueueInv /\ MemInv /\ SyncedInv /\ StampInv /\ RecordsInv /\ tasks \subseteq Tasks
      /\ mem \in [Slots -> Records \cup {Absent}] /\ Absent \notin Records
  BY Basics
<1>c. pc # "idle" /\ pc' # "idle" => \A s : Calm(s)' => Calm(s)
  BY CalmBefore
<1>. USE DEF MemInv
<1>1. ASSUME NEW r \in Runs, Start(r) PROVE MemInv'
  <2>1. mem' = disk' /\ pc' = "check" /\ Unrecorded' = {}
    BY <1>1, <1>0 DEF Start, QueueInv, Unrecorded
  <2>. QED
    BY <2>1
<1>2. ASSUME NEW p \in todo, Check(p) PROVE MemInv'
  <2>1. /\ UNCHANGED <<disk, mem, run>> /\ mem = disk /\ pc' \in {"check", "failed"}
        /\ \A t \in Unrecorded' : t.slot \in Slots
    <3>1. TypeInv'
      BY <1>0, <1>2, CheckTyped
    <3>2. pc' \in {"check", "failed"}
      BY <1>2 DEF Check
    <3>. QED
      BY <1>2, <1>0, <3>1, <3>2, Shapes DEF Check, Unrecorded, TypeInv, TypeOK
  <2>. QED
    BY <2>1
<1>3. ASSUME Decide PROVE MemInv'
  <2>1. UNCHANGED <<disk, mem, synced, run>> /\ mem = disk /\ pc' \in {"failed", "exec", "commit"}
    BY <1>3, <1>0 DEF Decide
  <2>. QED
    BY <2>1
<1>4. ASSUME NEW t \in tasks, BeginCopy(t) PROVE MemInv'
  <2>1. UNCHANGED <<disk, mem, synced, run>> /\ pc' \notin {"idle", "check"} /\ pc # "idle"
    BY <1>4 DEF BeginCopy
  <2>2. Unrecorded' \subseteq Unrecorded
    BY <1>4, <1>0, InHand DEF BeginCopy, Unrecorded
  <2>. QED
    BY <1>0, <1>c, <2>1, <2>2
<1>5. ASSUME NEW t \in tasks, Encrypt(t) PROVE MemInv'
  <2>1. /\ t \in AtHand /\ t.op = "push" /\ t \in Unrecorded /\ t.slot \in Slots /\ run.cmd # "forget"
    BY <1>5, <1>0, TasksAtHand, TaskFacts DEF Encrypt, Encrypts, Unrecorded
  <2>2. /\ UNCHANGED <<disk, mem, run>> /\ pc' = "record" /\ pc # "idle" /\ Unrecorded' \subseteq Unrecorded
        /\ \A s \in Slots \ {t.slot} : synced'[s] = synced[s]
    BY <1>5, <1>0 DEF Encrypt, Unrecorded, TypeOK
  <2>. QED
    BY <1>0, <1>c, <2>1, <2>2
<1>6. ASSUME NEW t \in tasks, RecordOnly(t) PROVE MemInv'
  <2>1. UNCHANGED <<disk, mem, synced, run>> /\ pc' \notin {"idle", "check"} /\ pc # "idle"
    BY <1>6 DEF RecordOnly
  <2>2. Unrecorded' \subseteq Unrecorded
    BY <1>6, <1>0, InHand DEF RecordOnly, Unrecorded
  <2>. QED
    BY <1>0, <1>c, <2>1, <2>2
<1>7. ASSUME NEW t \in tasks, Delete(t) PROVE MemInv'
  <2>1. /\ t.slot \in Slots /\ run.cmd = "forget" /\ UNCHANGED <<disk, synced, run>>
        /\ mem' = [mem EXCEPT ![t.slot] = Absent] /\ pc' = "exec" /\ pc = "exec"
    BY <1>7, <1>0, TasksAtHand, TaskFacts DEF Delete
  <2>. QED
    BY <1>0, <1>c, <2>1
<1>8. ASSUME NEW t \in tasks, SkipTask(t) PROVE MemInv'
  <2>1. UNCHANGED <<disk, mem, synced, run>> /\ pc' \notin {"idle", "check"} /\ pc # "idle"
    BY <1>8 DEF SkipTask
  <2>2. Unrecorded' \subseteq Unrecorded
    BY <1>8, <1>0, InHand DEF SkipTask, Unrecorded
  <2>. QED
    BY <1>0, <1>c, <2>1, <2>2
<1>9. ASSUME FinishCopy PROVE MemInv'
  <2>1. /\ task \in Tasks /\ task \in Unrecorded /\ task.slot \in Slots
        /\ task.op \in {"push", "pull"} /\ task \in AtHand /\ run.cmd # "forget"
    BY <1>9, Basics, TasksAtHand, TaskFacts, InHand DEF FinishCopy, HandInv, Unrecorded, Copies
  <2>2. /\ UNCHANGED <<disk, mem, run>> /\ pc' = "record" /\ pc # "idle" /\ Unrecorded' \subseteq Unrecorded
        /\ \A s \in Slots \ {task.slot} : synced'[s] = synced[s]
    BY <1>9, <1>0 DEF FinishCopy, Unrecorded, TypeOK
  <2>. QED
    BY <1>0, <1>c, <2>1, <2>2
<1>10. ASSUME Record PROVE MemInv'
  <2>. DEFINE s == task.slot
  <2>1. /\ task \in AtHand /\ task \in Tasks /\ s \in Slots /\ task \notin tasks
        /\ Unrecorded' = tasks /\ tasks \subseteq AtHand
    BY <1>10, <1>0, InHand, TasksAtHand, TaskFacts DEF Record, Unrecorded
  <2>2. /\ UNCHANGED <<disk, synced, run>> /\ pc' = "stamp" /\ pc = "record"
        /\ mem'[s] = Recorded(s) /\ \A u \in Slots \ {s} : mem'[u] = mem[u]
    BY <1>10, <1>0, <2>1 DEF Record
  <2>3. Calm(s) => mem'[s].sha256 = synced[s]
    BY <2>2, Basics, Manners DEF HandInv, Settled, Recorded
  <2>4. run.cmd # "forget" => \A t \in tasks : t.slot # s /\ t \in Unrecorded /\ t.slot \in Slots
    BY <1>0, <1>c, <2>1, TasksAtHand, TaskFacts DEF Unrecorded
  <2>. HIDE DEF s
  <2>. QED
    BY <1>0, <1>c, <2>1, <2>2, <2>3, <2>4
<1>11. ASSUME Stamp PROVE MemInv'
  <2>1. UNCHANGED <<disk, mem, synced, run>> /\ pc' \notin {"idle", "check"} /\ pc # "idle"
    BY <1>11 DEF Stamp, TaskDone
  <2>2. Unrecorded' \subseteq Unrecorded
    BY <1>11, <1>0, InHand DEF Stamp, TaskDone, Unrecorded
  <2>. QED
    BY <1>0, <1>c, <2>1, <2>2
<1>12. ASSUME StampDenied PROVE MemInv'
  <2>1. UNCHANGED <<disk, mem, synced, run>> /\ pc' \notin {"idle", "check"} /\ pc # "idle"
    BY <1>12 DEF StampDenied
  <2>2. Unrecorded' \subseteq Unrecorded
    BY <1>12, <1>0, InHand DEF StampDenied, Unrecorded
  <2>. QED
    BY <1>0, <1>c, <2>1, <2>2
<1>13. ASSUME DropPlain PROVE MemInv'
  <2>1. task \in Tasks /\ Plain(task.slot[1]) \in Slots
    BY <1>13, <1>0, InHand, Shapes DEF DropPlain
  <2>2. /\ UNCHANGED <<disk, synced, run>> /\ pc' = "exec" /\ pc # "idle" /\ Unrecorded' \subseteq Unrecorded
        /\ \A s \in Slots : mem'[s] \in {mem[s], Absent}
    BY <1>13, <1>0, <2>1 DEF DropPlain, TaskDone, Unrecorded
  <2>3. \A t \in Unrecorded : t.slot \in Slots
    BY <1>13, <1>0, Shapes DEF Unrecorded, DropPlain
  <2>. QED
    BY <1>0, <1>c, <2>2, <2>3
<1>14. ASSUME FailTask PROVE MemInv'
  <2>1. UNCHANGED <<disk, mem, synced, run>> /\ pc' \notin {"idle", "check"} /\ pc # "idle"
    BY <1>14 DEF FailTask
  <2>2. Unrecorded' \subseteq Unrecorded
    BY <1>14, <1>0, InHand DEF FailTask, Unrecorded
  <2>. QED
    BY <1>0, <1>c, <2>1, <2>2
<1>15. ASSUME TasksDone PROVE MemInv'
  <2>1. UNCHANGED <<disk, mem, synced, run>> /\ pc' \notin {"idle", "check"} /\ pc # "idle"
    BY <1>15 DEF TasksDone
  <2>2. Unrecorded' \subseteq Unrecorded
    BY <1>15, <1>0, InHand DEF TasksDone, Unrecorded
  <2>. QED
    BY <1>0, <1>c, <2>1, <2>2
<1>16. ASSUME Commit \/ Fail \/ Crash PROVE MemInv'
  <2>1. tasks' = {} /\ pc' = "idle" /\ mem' = NoRecords /\ run' = NoRun
    BY <1>16 DEF Commit, Fail, Crash, Quit
  <2>. QED
    BY <2>1 DEF Unrecorded, NoRecords
<1>17. ASSUME NEW p \in Paths, NEW c \in Contents, Edit(p, c) PROVE MemInv'
  BY <1>17, <1>0, <1>c DEF Edit, Touch, Unrecorded, NoRecords
<1>18. ASSUME NEW p \in Paths, Remove(p) PROVE MemInv'
  BY <1>18, <1>0, <1>c DEF Remove, Touch, Unrecorded, NoRecords
<1>19. ASSUME UNCHANGED vars PROVE MemInv'
  BY <1>19, <1>0 DEF vars, Unrecorded, Calm
<1>. QED
  BY StepsAre, <1>1, <1>2, <1>3, <1>4, <1>5, <1>6, <1>7, <1>8, <1>9, <1>10, <1>11,
     <1>12, <1>13, <1>14, <1>15, <1>16, <1>17, <1>18, <1>19 DEF Acts

-----------------------------------------------------------------------------
(* The task in hand *)

(* A copy that begins tears its destination.                               *)
LEMMA CopyBegins ==
  ASSUME SafetyInv, NEW t \in tasks, BeginCopy(t)
  PROVE  /\ t \in AtHand /\ t \in Tasks /\ t.slot \in Slots /\ Copies(t) /\ ~Encrypts(t)
         /\ run.cmd # "forget" /\ To(t) \in Paths /\ To(t)[1] = Name(t)
         /\ t.op = "push" => To(t) = t.slot
         /\ t.op # "push" => To(t) = TargetFile(Name(t))
         /\ file'[To(t)] # Absent /\ file'[To(t)].content = Torn /\ file'[To(t)].mtime = clock + 1
         /\ \A q \in Paths \ {To(t)} : file'[q] = file[q]
         /\ pc = "exec" /\ pc' = "copy" /\ task' = t /\ AtHand' = AtHand /\ tasks' \subseteq tasks
         /\ t \notin tasks' /\ UNCHANGED <<disk, mem, synced, run, raced>>
<1>1. t \in Tasks /\ t \in AtHand /\ t.op \in {"push", "pull"} /\ TypeOK /\ clock \in Nat
  BY Basics, TasksAtHand, TaskFacts DEF BeginCopy
<1>2. /\ t.slot \in Slots /\ To(t) \in Paths /\ To(t)[1] = Name(t) /\ t.slot[1] = Name(t)
      /\ t.op = "push" => To(t) = t.slot
      /\ t.op # "push" => To(t) = TargetOf(t.slot)
  BY <1>1, TaskFacts DEF Name
<1>3. TargetOf(t.slot) = TargetFile(Name(t))
  BY <1>2, PathFacts
<1>4. run.cmd # "forget"
  BY <1>1, TasksAtHand
<1>5. Write(To(t), Torn) /\ clock' = clock + 1
  BY DEF BeginCopy
<1>6. /\ file'[To(t)].content = Torn /\ file'[To(t)].mtime = clock + 1
      /\ file'[To(t)] = [content |-> Torn, mtime |-> clock']
      /\ \A q \in Paths \ {To(t)} : file'[q] = file[q]
  BY <1>1, <1>2, <1>5, WriteIs
<1>7. file'[To(t)] # Absent
  BY <1>1, <1>5, <1>6, EntryExists DEF AllContents
<1>8. AtHand' = AtHand
  BY Begun DEF BeginCopy
<1>. QED
  BY <1>1, <1>2, <1>3, <1>4, <1>6, <1>7, <1>8 DEF BeginCopy

(* The step that completes a copy                                          *)
Completes(t) == (t = task /\ FinishCopy) \/ (t \in tasks /\ Encrypt(t))

(* A copy that is complete settles both files.                             *)
LEMMA CopyCompletes ==
  ASSUME SafetyInv, NEW t, Completes(t)
  PROVE  /\ t \in AtHand /\ t \in Tasks /\ t.slot \in Slots /\ Copies(t)
         /\ run.cmd # "forget" /\ To(t) \in Paths /\ To(t)[1] = Name(t)
         /\ t.op = "push" => To(t) = t.slot
         /\ t.op # "push" => To(t) = TargetFile(Name(t))
         /\ file'[To(t)] # Absent /\ file'[To(t)].mtime = clock'
         /\ file'[To(t)].content = synced'[t.slot]
         /\ \A q \in Paths \ {To(t)} : file'[q] = file[q]
         /\ \A s \in Slots \ {t.slot} : synced'[s] = synced[s]
         /\ Settled(t.slot, t.slot)' /\ Settled(TargetFile(Name(t)), t.slot)'
         /\ pc \in {"exec", "copy"} /\ pc' = "record" /\ task' = t /\ AtHand' = AtHand
         /\ tasks' = tasks \ {t} /\ t \notin tasks'
         /\ UNCHANGED <<disk, mem, run, raced>>
<1>0. TypeOK /\ clock \in Nat /\ HandInv /\ TypeInv
  BY Basics
<1>1. t \in Tasks /\ t \in AtHand /\ t.op \in {"push", "pull"} /\ pc \in {"exec", "copy"}
  <2>1. CASE t = task /\ FinishCopy
    BY <1>0, <2>1, TasksAtHand, InHand, TaskFacts DEF FinishCopy, HandInv
  <2>2. CASE t \in tasks /\ Encrypt(t)
    BY <2>2, Basics, TasksAtHand, TaskFacts DEF Encrypt
  <2>. QED
    BY <2>1, <2>2 DEF Completes
<1>2. /\ t.slot \in Slots /\ To(t) \in Paths /\ From(t) \in Paths /\ From(t) # To(t)
      /\ To(t)[1] = Name(t) /\ t.slot[1] = Name(t)
      /\ t.op = "push" => To(t) = t.slot /\ From(t) = TargetOf(t.slot)
      /\ t.op # "push" => To(t) = TargetOf(t.slot) /\ From(t) = t.slot
      /\ Encrypts(t) => t.op = "push"
  BY <1>1, TaskFacts DEF Name
<1>3. TargetOf(t.slot) = TargetFile(Name(t))
  BY <1>2, PathFacts
<1>4. run.cmd # "forget"
  BY <1>1, TasksAtHand
<1>5. /\ Write(To(t), file[From(t)].content) /\ Exists(From(t))
      /\ synced' = [synced EXCEPT ![t.slot] = file[From(t)].content]
      /\ clock' \in {clock, clock + 1} /\ pc' = "record" /\ task' = t
      /\ UNCHANGED <<disk, mem, run, raced>>
  BY <1>2 DEF Completes, Encrypt, FinishCopy
<1>6. /\ tasks' = tasks \ {t} /\ t \notin tasks' /\ AtHand' = AtHand
  <2>1. CASE t = task /\ FinishCopy
    BY <1>1, <2>1, TasksAtHand DEF FinishCopy, AtHand
  <2>2. CASE t \in tasks /\ Encrypt(t)
    BY <2>2, Begun DEF Encrypt
  <2>. QED
    BY <2>1, <2>2 DEF Completes
<1>7. file[From(t)].content \in AllContents /\ clock' \in Nat
  BY <1>0, <1>2, <1>5 DEF TypeOK, Exists, Entries
<1>8. synced'[t.slot] = file[From(t)].content /\ \A s \in Slots \ {t.slot} : synced'[s] = synced[s]
  BY <1>0, <1>2, <1>5 DEF TypeOK
<1>9. /\ file'[To(t)] = [content |-> file[From(t)].content, mtime |-> clock']
      /\ file'[To(t)].content = synced'[t.slot] /\ file'[To(t)].mtime = clock'
      /\ \A q \in Paths \ {To(t)} : file'[q] = file[q]
  BY <1>0, <1>2, <1>5, <1>8, WriteIs
<1>10. file'[To(t)] # Absent
  BY <1>7, <1>9, EntryExists
<1>11. file'[From(t)] # Absent /\ file'[From(t)].content = synced'[t.slot]
  BY <1>2, <1>5, <1>8, <1>9 DEF Exists
<1>12. Settled(t.slot, t.slot)' /\ Settled(TargetFile(Name(t)), t.slot)'
  BY <1>2, <1>3, <1>9, <1>10, <1>11 DEF Settled, Exists
<1>. QED
  BY <1>1, <1>2, <1>3, <1>4, <1>5, <1>6, <1>8, <1>9, <1>10, <1>12 DEF Copies

(* An agreement stays settled as long as its source is left alone.         *)
LEMMA AgreementsKept ==
  ASSUME SafetyInv, [Next]_vars, pc \in Working, pc' # "idle", AtHand' \subseteq AtHand,
         \A t \in AtHand' : t.op = "record" /\ Calm(t.slot)' =>
            /\ file'[t.slot] = file[t.slot] \/ (file'[t.slot] # Absent /\ file'[t.slot].content = file[t.slot].content)
            /\ synced'[t.slot] = synced[t.slot]
  PROVE  \A t \in AtHand' : t.op = "record" /\ Calm(t.slot)' => Settled(t.slot, t.slot)'
BY Basics, CalmBefore DEF HandInv, Settled, Exists, Working

(* Every step keeps the task in hand as it should be. *)
LEMMA HandStep ==
  ASSUME SafetyInv, [Next]_vars
  PROVE  HandInv'
<1>0. /\ TypeOK /\ TypeInv /\ TimeInv /\ QueueInv /\ HandInv /\ SyncedInv /\ StampInv /\ RecordsInv
      /\ tasks \subseteq Tasks /\ tasks \subseteq AtHand /\ NoTask \notin tasks
      /\ \A t \in AtHand : t \in Tasks /\ t.slot \in Slots /\ t.slot \in Paths
      /\ synced \in [Slots -> AllContents \cup {Absent}]
  BY Basics, TasksAtHand, Shapes
<1>w. pc \in {"check", "exec", "copy", "record", "stamp", "drop"} => pc \in Working
  BY DEF Working
<1>c. pc # "idle" /\ pc' # "idle" => \A s : Calm(s)' => Calm(s)
  BY CalmBefore
<1>s. SourcesLeft /\ pc \in {"record", "stamp"} =>
        task.slot \in Paths /\ \A p \in Paths : p[2] \in EditSides => p # task.slot
  <2>1. pc \in {"record", "stamp"} => task \in AtHand
    BY <1>0, InHand, Shapes DEF AtHand
  <2>. QED
    BY <1>0, <2>1, Basics DEF SourcesLeft, PlainInv
<1>20. ASSUME NEW t, Completes(t) PROVE HandInv'
  <2>1. /\ t \in AtHand /\ t \in Tasks /\ Copies(t) /\ To(t)[1] = Name(t) /\ AtHand' = AtHand
        /\ \A q \in Paths \ {To(t)} : file'[q] = file[q]
        /\ \A s \in Slots \ {t.slot} : synced'[s] = synced[s]
        /\ pc \in Working /\ pc' = "record" /\ task' = t
    BY <1>w, <1>20, CopyCompletes
  <2>2. \A u \in AtHand : u.op = "record" => u.slot # To(t) /\ u.slot # t.slot
    BY <2>1, TasksAtHand DEF Name, OnePerName, Copies
  <2>3. \A u \in AtHand' : u.op = "record" /\ Calm(u.slot)' => Settled(u.slot, u.slot)'
    BY <1>0, <2>1, <2>2, AgreementsKept
  <2>4. Settled(t.slot, t.slot)' /\ Settled(TargetFile(Name(t)), t.slot)'
    BY <1>20, CopyCompletes
  <2>5. TargetFile(Name(t)) = TargetOf(t.slot)
    BY <2>1, TaskFacts, PathFacts DEF Name
  <2>6. Settled(task.slot, task.slot)' /\ Settled(TargetOf(task.slot), task.slot)' /\ task'.op \in {"push", "pull"}
    BY <2>1, <2>4, <2>5 DEF Settled, Exists, TargetOf, Copies
  <2>. QED
    BY <2>1, <2>3, <2>6 DEF HandInv
<1>1. ASSUME NEW r \in Runs, Start(r) PROVE HandInv'
  <2>1. AtHand' = {} /\ pc' = "check"
    BY <1>1, <1>0, InHand DEF Start, QueueInv, AtHand
  <2>. QED
    BY <2>1 DEF HandInv
<1>2. ASSUME NEW p \in todo, Check(p) PROVE HandInv'
  <2>1. /\ pc = "check" /\ pc \in Working /\ pc' \in {"check", "failed"} /\ UNCHANGED <<file, run, task>>
        /\ task = NoTask /\ AtHand = tasks /\ AtHand' = tasks'
    BY <1>2, <1>0, <1>w, CheckIs, InHand DEF AtHand
  <2>2. CASE tasks' = tasks /\ synced' = synced
    <3>1. \A t \in AtHand' : t.op = "record" /\ Calm(t.slot)' => Settled(t.slot, t.slot)'
      BY <2>1, <2>2, AgreementsKept
    <3>. QED
      BY <2>1, <3>1 DEF HandInv
  <2>3. ASSUME NEW t, GoodTask(p, t), tasks' = tasks \cup {t},
               synced' = [s \in Slots |-> IF t.op = "record" /\ s = t.slot
                                          THEN file[s].content ELSE synced[s]]
        PROVE  HandInv'
    <3>1. t.slot \in Slots /\ (t.op = "record" => Exists(t.slot))
      BY <2>3, Shapes DEF GoodTask, Agreement
    <3>2. t.op = "record" => Settled(t.slot, t.slot)'
      BY <2>1, <2>3, <3>1 DEF Settled, Exists
    <3>3. \A u \in tasks : u.op = "record" /\ Calm(u.slot)' => Settled(u.slot, u.slot)'
      BY <1>0, <1>c, <2>1, <2>3, <3>1, <3>2 DEF HandInv, Settled, Exists
    <3>. QED
      BY <2>1, <2>3, <3>2, <3>3 DEF HandInv
  <2>. QED
    BY <1>2, <1>0, <2>2, <2>3, CheckIs
<1>3. ASSUME Decide PROVE HandInv'
  <2>1. /\ pc' \in {"failed", "commit", "exec"} /\ tasks' = tasks \cup OrphanTasks /\ pc \in Working
        /\ UNCHANGED <<file, synced, task>> /\ task = NoTask
    BY <1>3, <1>0, <1>w, InHand DEF Decide
  <2>2. AtHand = tasks /\ AtHand' = tasks \cup OrphanTasks
    BY <2>1 DEF AtHand
  <2>3. \A t \in AtHand' : t.op = "record" /\ Calm(t.slot)' => Settled(t.slot, t.slot)'
    BY <1>0, <1>c, <2>1, <2>2, OrphansAre DEF HandInv, Settled, Exists, Working
  <2>. QED
    BY <2>1, <2>3 DEF HandInv
<1>4. ASSUME NEW t \in tasks, BeginCopy(t) PROVE HandInv'
  <2>1. /\ Copies(t) /\ ~Encrypts(t) /\ file'[To(t)].content = Torn /\ task' = t /\ pc' = "copy"
        /\ AtHand' = AtHand /\ pc \in Working /\ UNCHANGED synced /\ t \in AtHand /\ To(t)[1] = Name(t)
        /\ \A q \in Paths \ {To(t)} : file'[q] = file[q]
    BY <1>4, <1>w, CopyBegins
  <2>2. \A u \in AtHand : u.op = "record" => u.slot # To(t)
    BY <2>1, TasksAtHand DEF Name, OnePerName, Copies
  <2>3. \A u \in AtHand' : u.op = "record" /\ Calm(u.slot)' => Settled(u.slot, u.slot)'
    BY <1>0, <2>1, <2>2, AgreementsKept
  <2>4. Copies(task)' /\ ~Encrypts(task)' /\ To(task)' = To(t)
    BY <2>1 DEF Copies, Encrypts, To, TargetOf
  <2>5. file'[To(task)'].content = Torn
    BY <2>1, <2>4
  <2>. QED
    BY <2>1, <2>3, <2>4, <2>5 DEF HandInv
<1>5. ASSUME NEW t \in tasks, Encrypt(t) PROVE HandInv'
  BY <1>5, <1>20 DEF Completes
<1>6. ASSUME NEW t \in tasks, RecordOnly(t) PROVE HandInv'
  <2>1. /\ t \in AtHand /\ pc = "exec" /\ pc' = "record" /\ task' = t /\ AtHand' = AtHand
        /\ UNCHANGED <<file, synced>> /\ t.op = "record"
    BY <1>6, <1>0, Begun DEF RecordOnly
  <2>2. \A u \in AtHand' : u.op = "record" /\ Calm(u.slot)' => Settled(u.slot, u.slot)'
    BY <1>w, <2>1, AgreementsKept
  <2>. QED
    BY <2>1, <2>2 DEF HandInv, Copies
<1>7. ASSUME NEW t \in tasks, Delete(t) PROVE HandInv'
  <2>1. /\ pc' = "exec" /\ AtHand' \subseteq AtHand /\ t \in AtHand
    BY <1>7, <1>0 DEF Delete, AtHand
  <2>2. \A u \in AtHand : u.op # "record"
    BY <1>7, <2>1, TasksAtHand DEF Delete
  <2>. QED
    BY <2>1, <2>2 DEF HandInv
<1>8. ASSUME NEW t \in tasks, SkipTask(t) PROVE HandInv'
  <2>1. UNCHANGED <<file, synced>> /\ pc' \in {"exec", "commit"} /\ pc \in Working
    BY <1>8, <1>w DEF SkipTask
  <2>2. AtHand' \subseteq AtHand
    BY <1>8, <1>0 DEF SkipTask, AtHand
  <2>3. \A u \in AtHand' : u.op = "record" /\ Calm(u.slot)' => Settled(u.slot, u.slot)'
    BY <2>1, <2>2, AgreementsKept
  <2>. QED
    BY <2>1, <2>3 DEF HandInv
<1>9. ASSUME FinishCopy PROVE HandInv'
  BY <1>9, <1>20 DEF Completes
<1>10. ASSUME Record PROVE HandInv'
  <2>1. /\ pc = "record" /\ pc' = "stamp" /\ AtHand' = AtHand /\ UNCHANGED <<file, synced, task>>
    BY <1>10 DEF Record, AtHand
  <2>2. \A u \in AtHand' : u.op = "record" /\ Calm(u.slot)' => Settled(u.slot, u.slot)'
    BY <1>w, <2>1, AgreementsKept
  <2>. QED
    BY <1>0, <1>c, <2>1, <2>2 DEF HandInv, Copies, Settled, Exists, TargetOf
<1>11. ASSUME Stamp PROVE HandInv'
  <2>1. /\ pc = "stamp" /\ pc' \in {"exec", "drop", "failed"} /\ UNCHANGED <<synced, tasks, run>>
        /\ task' \in {task, NoTask}
        /\ pc' = "drop" => Encrypts(task) /\ run.cmd = "add" /\ task' = task
    BY <1>11 DEF Stamp, TaskDone
  <2>2. \A q \in Paths : Exists(q) => file'[q] # Absent /\ file'[q].content = file[q].content
    BY <1>0, <1>11, RestampIs DEF Restamp, Exists
  <2>3. AtHand' \subseteq AtHand
    BY <2>1, Ended
  <2>4. \A t \in AtHand' : t.op = "record" /\ Calm(t.slot)' => Settled(t.slot, t.slot)'
    BY <1>0, <1>c, <1>w, <2>1, <2>2, <2>3 DEF HandInv, Settled, Exists
  <2>. QED
    BY <2>1, <2>4 DEF HandInv, Encrypts
<1>12. ASSUME StampDenied PROVE HandInv'
  <2>1. /\ pc = "stamp" /\ pc' \in {"exec", "drop", "failed"} /\ UNCHANGED <<synced, tasks, run>>
        /\ task' \in {task, NoTask}
        /\ pc' = "drop" => Encrypts(task) /\ run.cmd = "add" /\ task' = task
    BY <1>12 DEF StampDenied
  <2>2. \A q \in Paths : Exists(q) => file'[q] # Absent /\ file'[q].content = file[q].content
    BY <1>0, <1>12, RestampIs DEF Restamp, Exists
  <2>3. AtHand' \subseteq AtHand
    BY <2>1, Ended
  <2>4. \A t \in AtHand' : t.op = "record" /\ Calm(t.slot)' => Settled(t.slot, t.slot)'
    BY <1>0, <1>c, <1>w, <2>1, <2>2, <2>3 DEF HandInv, Settled, Exists
  <2>. QED
    BY <2>1, <2>4 DEF HandInv, Encrypts
<1>13. ASSUME DropPlain PROVE HandInv'
  <2>1. /\ task \in Tasks /\ task \in AtHand /\ task.op = "push" /\ run.cmd = "add"
        /\ Plain(Name(task)) \in Paths /\ Plain(Name(task))[1] = Name(task)
    <3>1. task \in Tasks /\ task \in AtHand /\ task.op = "push" /\ run.cmd = "add"
      BY <1>13, <1>0, InHand, TasksAtHand, TaskFacts DEF DropPlain, HandInv, Encrypts
    <3>. QED
      BY <3>1, TaskFacts, PathFacts
  <2>2. /\ pc = "drop" /\ pc' = "exec" /\ AtHand' \subseteq AtHand /\ UNCHANGED synced
        /\ \A q \in Paths \ {Plain(Name(task))} : file'[q] = file[q]
    BY <1>13, <1>0, <2>1 DEF DropPlain, TaskDone, AtHand, TypeOK, Name
  <2>3. \A u \in AtHand : u.op = "record" => u.slot # Plain(Name(task))
    BY <2>1, TasksAtHand DEF Name, OnePerName
  <2>4. \A u \in AtHand' : u.op = "record" /\ Calm(u.slot)' => Settled(u.slot, u.slot)'
    BY <1>0, <1>w, <2>2, <2>3, AgreementsKept
  <2>. QED
    BY <2>2, <2>4 DEF HandInv
<1>14. ASSUME FailTask PROVE HandInv'
  <2>1. pc' \notin {"copy", "record", "stamp", "drop"} /\ pc' \notin Working
    BY <1>14 DEF FailTask, Working
  <2>. QED
    BY <2>1 DEF HandInv
<1>15. ASSUME TasksDone PROVE HandInv'
  <2>1. pc' \notin {"copy", "record", "stamp", "drop"} /\ pc' \notin Working
    BY <1>15 DEF TasksDone, Working
  <2>. QED
    BY <2>1 DEF HandInv
<1>16. ASSUME Commit \/ Fail \/ Crash PROVE HandInv'
  <2>1. pc' \notin {"copy", "record", "stamp", "drop"} /\ pc' \notin Working
    BY <1>16 DEF Commit, Fail, Crash, Quit, Working
  <2>. QED
    BY <2>1 DEF HandInv
<1>17. ASSUME NEW p \in Paths, NEW c \in Contents, Edit(p, c) PROVE HandInv'
  <2>1. /\ UNCHANGED <<pc, tasks, task, synced, run>> /\ AtHand' = AtHand
        /\ \A q \in Paths \ {p} : file'[q] = file[q]
        /\ pc # "idle" => raced' = raced \cup {p} /\ p[2] \in EditSides
        /\ pc \in EditPhases
    BY <1>17, <1>0 DEF Edit, Touch, AtHand, TypeOK
  <2>2. pc = "copy" => /\ Copies(task) /\ ~Encrypts(task)
                       /\ Raced(Name(task)) \/ file[To(task)].content = Torn
    BY <1>0 DEF HandInv
  <2>3. pc = "copy" => Raced(Name(task))' \/ file'[To(task)].content = Torn
    <3>1. CASE pc = "copy" /\ To(task) = p
      <4>1. p[1] = Name(task)
        BY <1>0, <3>1, InHand, TaskFacts
      <4>. QED
        BY <2>1, <3>1, <4>1 DEF Raced, Name
    <3>2. CASE pc = "copy" /\ To(task) # p
      <4>1. To(task) \in Paths
        BY <1>0, <3>2, InHand, TaskFacts
      <4>2. Raced(Name(task)) => Raced(Name(task))'
        BY <2>1, <3>2 DEF Raced, Name
      <4>. QED
        BY <2>1, <2>2, <3>2, <4>1, <4>2
    <3>. QED
      BY <3>1, <3>2
  <2>4. pc \in Working => \A t \in AtHand : t.op = "record" /\ Calm(t.slot)' => t.slot # p
    <3>. SUFFICES ASSUME pc \in Working, NEW t \in AtHand, t.op = "record", Calm(p)', t.slot = p
                  PROVE  FALSE
      OBVIOUS
    <3>1. p[2] = "plain"
      BY TasksAtHand
    <3>. QED
      BY <2>1, <3>1 DEF Calm, Working, Attentive, Undisturbed, SourcesLeft,
         NoEditWhileRecording, IdenticalSourceKept
  <2>5. pc \in Working =>
          \A t \in AtHand' : t.op = "record" /\ Calm(t.slot)' => Settled(t.slot, t.slot)'
    BY <1>0, <2>1, <2>4, AgreementsKept DEF Working
  <2>6. pc = "drop" => Encrypts(task) /\ run.cmd = "add"
    BY <1>0 DEF HandInv
  <2>7. To(task)' = To(task) /\ Encrypts(task)' = Encrypts(task) /\ Copies(task)' = Copies(task)
    BY <2>1 DEF To, Encrypts, Copies, TargetOf
  <2>8. pc \in {"record", "stamp"} =>
          /\ task.op \in {"push", "pull", "record"} /\ ~NoEditWhileRecording
          /\ Undisturbed => file'[task.slot] = file[task.slot]
          /\ task.slot \notin raced' => file'[task.slot] = file[task.slot]
    BY <1>0, <1>s, <2>1, InHand, Shapes DEF HandInv, NoEditWhileRecording, Undisturbed
  <2>. QED
    BY <1>0, <1>c, <2>1, <2>2, <2>3, <2>5, <2>6, <2>7, <2>8, Manners
       DEF HandInv, Settled, Exists, Calm, Attentive
<1>18. ASSUME NEW p \in Paths, Remove(p) PROVE HandInv'
  <2>1. /\ UNCHANGED <<pc, tasks, task, synced, run>> /\ AtHand' = AtHand
        /\ \A q \in Paths \ {p} : file'[q] = file[q]
        /\ pc # "idle" => raced' = raced \cup {p} /\ p[2] \in EditSides
        /\ pc \in EditPhases
    BY <1>18, <1>0 DEF Remove, Touch, AtHand, TypeOK
  <2>2. pc = "copy" => /\ Copies(task) /\ ~Encrypts(task)
                       /\ Raced(Name(task)) \/ file[To(task)].content = Torn
    BY <1>0 DEF HandInv
  <2>3. pc = "copy" => Raced(Name(task))' \/ file'[To(task)].content = Torn
    <3>1. CASE pc = "copy" /\ To(task) = p
      <4>1. p[1] = Name(task)
        BY <1>0, <3>1, InHand, TaskFacts
      <4>. QED
        BY <2>1, <3>1, <4>1 DEF Raced, Name
    <3>2. CASE pc = "copy" /\ To(task) # p
      <4>1. To(task) \in Paths
        BY <1>0, <3>2, InHand, TaskFacts
      <4>2. Raced(Name(task)) => Raced(Name(task))'
        BY <2>1, <3>2 DEF Raced, Name
      <4>. QED
        BY <2>1, <2>2, <3>2, <4>1, <4>2
    <3>. QED
      BY <3>1, <3>2
  <2>4. pc \in Working => \A t \in AtHand : t.op = "record" /\ Calm(t.slot)' => t.slot # p
    <3>. SUFFICES ASSUME pc \in Working, NEW t \in AtHand, t.op = "record", Calm(p)', t.slot = p
                  PROVE  FALSE
      OBVIOUS
    <3>1. p[2] = "plain"
      BY TasksAtHand
    <3>. QED
      BY <2>1, <3>1 DEF Calm, Working, Attentive, Undisturbed, SourcesLeft,
         NoEditWhileRecording, IdenticalSourceKept
  <2>5. pc \in Working =>
          \A t \in AtHand' : t.op = "record" /\ Calm(t.slot)' => Settled(t.slot, t.slot)'
    BY <1>0, <2>1, <2>4, AgreementsKept DEF Working
  <2>6. pc = "drop" => Encrypts(task) /\ run.cmd = "add"
    BY <1>0 DEF HandInv
  <2>7. To(task)' = To(task) /\ Encrypts(task)' = Encrypts(task) /\ Copies(task)' = Copies(task)
    BY <2>1 DEF To, Encrypts, Copies, TargetOf
  <2>8. pc \in {"record", "stamp"} =>
          /\ task.op \in {"push", "pull", "record"} /\ ~NoEditWhileRecording
          /\ Undisturbed => file'[task.slot] = file[task.slot]
          /\ task.slot \notin raced' => file'[task.slot] = file[task.slot]
    BY <1>0, <1>s, <2>1, InHand, Shapes DEF HandInv, NoEditWhileRecording, Undisturbed
  <2>. QED
    BY <1>0, <1>c, <2>1, <2>2, <2>3, <2>5, <2>6, <2>7, <2>8, Manners
       DEF HandInv, Settled, Exists, Calm, Attentive
<1>19. ASSUME UNCHANGED vars PROVE HandInv'
  BY <1>19, <1>0 DEF vars, HandInv, AtHand, Calm, Copies, Encrypts, Raced, Name, Settled, Exists, To,
     TargetOf
<1>. QED
  BY StepsAre, <1>1, <1>2, <1>3, <1>4, <1>5, <1>6, <1>7, <1>8, <1>9, <1>10, <1>11,
     <1>12, <1>13, <1>14, <1>15, <1>16, <1>17, <1>18, <1>19 DEF Acts

-----------------------------------------------------------------------------
(* Recorded contents *)

(* A file that a step leaves with its content                              *)
SameContent(p) == file'[p] = file[p] \/ (/\ file'[p] # Absent /\ file[p] # Absent
                                        /\ file'[p].content = file[p].content)

(* What is known stays known where neither content nor agreement changes.  *)
LEMMA SyncedKept ==
  ASSUME SyncedInv, UNCHANGED synced,
         \A s \in Slots : \A r \in {disk'[s], mem'[s]} :
            r \in {disk[s], mem[s], Absent} \/ (Considerate => r.sha256 = synced[s]),
         \A p \in Paths : SameContent(p) \/ file'[p] = Absent \/ file'[p].content = Torn
  PROVE  SyncedInv'
<1>. SUFFICES ASSUME Considerate, NEW s \in Slots, NEW r \in {disk'[s], mem'[s]}, r # Absent
              PROVE  /\ Exists(s)' /\ file'[s].content = r.sha256 => KnownSource(s)'
                     /\ Exists(TargetOf(s))' /\ file'[TargetOf(s)].content = r.sha256
                          => KnownTarget(s[1])'
  BY DEF SyncedInv, Exists, TargetOf
<1>1. s \in Paths /\ TargetOf(s) \in Paths /\ TargetOf(s) = TargetFile(s[1])
  BY PathFacts
<1>2. r \in {disk[s], mem[s]} \/ r.sha256 = synced[s]
  OBVIOUS
<1>3. ASSUME Exists(s)', file'[s].content = r.sha256 PROVE KnownSource(s)'
  <2>1. SameContent(s) \/ file'[s].content = Torn
    BY <1>1, <1>3 DEF Exists
  <2>2. r \in {disk[s], mem[s]} => (Exists(s) /\ file[s].content = r.sha256 => KnownSource(s))
    BY DEF SyncedInv
  <2>. QED
    BY <1>2, <1>3, <2>1, <2>2 DEF KnownSource, SameContent, Exists
<1>4. ASSUME Exists(TargetOf(s))', file'[TargetOf(s)].content = r.sha256 PROVE KnownTarget(s[1])'
  <2>1. SameContent(TargetOf(s)) \/ file'[TargetOf(s)].content = Torn
    BY <1>1, <1>4 DEF Exists
  <2>2. r \in {disk[s], mem[s]} =>
          (Exists(TargetOf(s)) /\ file[TargetOf(s)].content = r.sha256 => KnownTarget(s[1]))
    BY DEF SyncedInv
  <2>. QED
    BY <1>1, <1>2, <1>4, <2>1, <2>2 DEF KnownTarget, SameContent, Exists
<1>. QED
  BY <1>3, <1>4

(* Every step keeps what has a recorded content known. *)
LEMMA SyncedStep ==
  ASSUME SafetyInv, [Next]_vars
  PROVE  SyncedInv'
<1>0. /\ TypeOK /\ TypeInv /\ TimeInv /\ MemInv /\ HandInv /\ SyncedInv /\ StampInv /\ RecordsInv
      /\ tasks \subseteq Tasks
      /\ file \in [Paths -> Entries \cup {Absent}]
      /\ disk \in [Slots -> Records \cup {Absent}] /\ mem \in [Slots -> Records \cup {Absent}]
      /\ synced \in [Slots -> AllContents \cup {Absent}]
  BY Basics
<1>20. ASSUME NEW t, Completes(t) PROVE SyncedInv'
  <2>. DEFINE a == t.slot
  <2>1. /\ a \in Slots /\ To(t) \in Paths /\ To(t) \in {a, TargetFile(a[1])}
        /\ Settled(a, a)' /\ Settled(TargetFile(a[1]), a)'
        /\ \A q \in Paths \ {To(t)} : file'[q] = file[q]
        /\ \A s \in Slots \ {a} : synced'[s] = synced[s]
        /\ UNCHANGED <<disk, mem>>
    BY <1>20, CopyCompletes DEF Name
  <2>. HIDE DEF a
  <2>2. KnownSource(a)' /\ KnownTarget(a[1])'
    BY <2>1 DEF KnownSource, KnownTarget, Settled
  <2>3. ASSUME NEW s \in Slots \ {a}
        PROVE  /\ Exists(s)' = Exists(s) /\ file'[s] = file[s]
               /\ KnownSource(s) => KnownSource(s)'
    BY <2>1, PathFacts DEF KnownSource, Exists
  <2>4. ASSUME NEW f \in Files \ {a[1]}
        PROVE  file'[TargetFile(f)] = file[TargetFile(f)] /\ (KnownTarget(f) => KnownTarget(f)')
    <3>1. TargetFile(f) \in Paths /\ TargetFile(f) # To(t)
      BY <2>1, PathFacts DEF TargetFile
    <3>. QED
      BY <2>1, <3>1 DEF KnownTarget
  <2>. SUFFICES ASSUME Considerate, NEW s \in Slots, NEW r \in {disk[s], mem[s]}, r # Absent
                PROVE  /\ Exists(s)' /\ file'[s].content = r.sha256 => KnownSource(s)'
                       /\ Exists(TargetOf(s))' /\ file'[TargetOf(s)].content = r.sha256
                            => KnownTarget(s[1])'
    BY <2>1 DEF SyncedInv, Exists, TargetOf
  <2>5. TargetOf(s) = TargetFile(s[1]) /\ s[1] \in Files
    BY PathFacts
  <2>6. /\ Exists(s) /\ file[s].content = r.sha256 => KnownSource(s)
        /\ Exists(TargetOf(s)) /\ file[TargetOf(s)].content = r.sha256 => KnownTarget(s[1])
    BY <1>0 DEF SyncedInv
  <2>7. Exists(s)' /\ file'[s].content = r.sha256 => KnownSource(s)'
    BY <2>2, <2>3, <2>6
  <2>8. Exists(TargetOf(s))' /\ file'[TargetOf(s)].content = r.sha256 => KnownTarget(s[1])'
    BY <2>2, <2>4, <2>5, <2>6 DEF Exists
  <2>. QED
    BY <2>7, <2>8
<1>1. ASSUME NEW r \in Runs, Start(r) PROVE SyncedInv'
  <2>1. UNCHANGED <<file, disk, synced>> /\ mem' = disk
    BY <1>1 DEF Start
  <2>. QED
    BY <1>0, <2>1, SyncedKept DEF SameContent
<1>2. ASSUME NEW p \in todo, Check(p) PROVE SyncedInv'
  <2>1. UNCHANGED <<file, disk, mem>> /\ mem = disk
    BY <1>2, <1>0, CheckIs DEF MemInv
  <2>2. CASE synced' = synced
    BY <1>0, <2>1, <2>2, SyncedKept DEF SameContent
  <2>3. ASSUME NEW t, GoodTask(p, t),
               synced' = [s \in Slots |-> IF t.op = "record" /\ s = t.slot
                                          THEN file[s].content ELSE synced[s]]
        PROVE  SyncedInv'
    <3>1. CASE t.op # "record"
      <4>1. synced' = synced
        BY <1>0, <2>3, <3>1
      <4>. QED
        BY <2>2, <4>1
    <3>2. CASE t.op = "record"
      <4>. DEFINE a == t.slot
      <4>1. /\ a \in Slots /\ disk[a] = Absent /\ mem[a] = Absent /\ Exists(a)
            /\ Same(a, TargetFile(a[1])) /\ synced'[a] = file[a].content
            /\ \A s \in Slots \ {a} : synced'[s] = synced[s]
        BY <2>1, <2>3, <3>2, Shapes, PathFacts DEF GoodTask, Agreement
      <4>. HIDE DEF a
      <4>2. \A s \in Slots \ {a} : KnownSource(s) => KnownSource(s)'
        BY <2>1, <4>1 DEF KnownSource
      <4>3. \A f \in Files : KnownTarget(f) => KnownTarget(f)'
        BY <2>1, <4>1 DEF KnownTarget, Same
      <4>4. \A s \in Slots : s[1] \in Files
        BY PathFacts
      <4>5. \A s \in Slots : Exists(s)' = Exists(s) /\ Exists(TargetOf(s))' = Exists(TargetOf(s))
        BY <2>1 DEF Exists, TargetOf
      <4>. QED
        BY <1>0, <2>1, <4>1, <4>2, <4>3, <4>4, <4>5 DEF SyncedInv
    <3>. QED
      BY <3>1, <3>2
  <2>. QED
    BY <1>2, <1>0, <2>2, <2>3, CheckIs
<1>3. ASSUME Decide PROVE SyncedInv'
  BY <1>3, <1>0, SyncedKept DEF Decide, SameContent
<1>4. ASSUME NEW t \in tasks, BeginCopy(t) PROVE SyncedInv'
  <2>1. /\ UNCHANGED <<disk, mem, synced>> /\ file'[To(t)].content = Torn
        /\ \A q \in Paths \ {To(t)} : file'[q] = file[q]
    BY <1>4, CopyBegins
  <2>. QED
    BY <1>0, <2>1, SyncedKept DEF SameContent
<1>5. ASSUME NEW t \in tasks, Encrypt(t) PROVE SyncedInv'
  BY <1>5, <1>20 DEF Completes
<1>6. ASSUME NEW t \in tasks, RecordOnly(t) PROVE SyncedInv'
  <2>1. UNCHANGED <<file, disk, mem, synced>>
    BY <1>6 DEF RecordOnly
  <2>. QED
    BY <1>0, <2>1, SyncedKept DEF SameContent
<1>7. ASSUME NEW t \in tasks, Delete(t) PROVE SyncedInv'
  <2>1. UNCHANGED synced
    BY <1>7 DEF Delete
  <2>2. \A q \in Paths : file'[q] \in {file[q], Absent}
    BY <1>7, <1>0, InHand, Shapes DEF Delete
  <2>3. \A s \in Slots : disk'[s] = disk[s] /\ mem'[s] \in {mem[s], Absent}
    BY <1>7, <1>0, InHand, Shapes DEF Delete
  <2>. QED
    BY <1>0, <2>1, <2>2, <2>3, SyncedKept DEF SameContent
<1>8. ASSUME NEW t \in tasks, SkipTask(t) PROVE SyncedInv'
  <2>1. UNCHANGED <<file, disk, mem, synced>>
    BY <1>8 DEF SkipTask
  <2>. QED
    BY <1>0, <2>1, SyncedKept DEF SameContent
<1>9. ASSUME FinishCopy PROVE SyncedInv'
  BY <1>9, <1>20 DEF Completes
<1>10. ASSUME Record PROVE SyncedInv'
  <2>. DEFINE s == task.slot
  <2>1. /\ s \in Slots /\ UNCHANGED <<file, disk, synced>> /\ pc = "record"
        /\ mem'[s] = Recorded(s) /\ \A u \in Slots \ {s} : mem'[u] = mem[u]
    BY <1>10, <1>0, InHand, Shapes DEF Record
  <2>2. Considerate => mem'[s].sha256 = synced[s]
    BY <1>0, <2>1, Manners DEF HandInv, Settled, Recorded
  <2>. HIDE DEF s
  <2>. QED
    BY <1>0, <2>1, <2>2, SyncedKept DEF SameContent
<1>11. ASSUME Stamp PROVE SyncedInv'
  <2>1. UNCHANGED <<disk, mem, synced>> /\ \A p \in Paths : SameContent(p)
    BY <1>0, <1>11, RestampIs DEF Restamp, SameContent, Exists
  <2>. QED
    BY <1>0, <2>1, SyncedKept
<1>12. ASSUME StampDenied PROVE SyncedInv'
  <2>1. UNCHANGED <<disk, mem, synced>> /\ \A p \in Paths : SameContent(p)
    BY <1>0, <1>12, RestampIs DEF Restamp, SameContent, Exists
  <2>. QED
    BY <1>0, <2>1, SyncedKept
<1>13. ASSUME DropPlain PROVE SyncedInv'
  <2>1. UNCHANGED synced
    BY <1>13 DEF DropPlain, TaskDone
  <2>2. \A q \in Paths : file'[q] \in {file[q], Absent}
    BY <1>13, <1>0, InHand, Shapes DEF DropPlain, TaskDone
  <2>3. \A s \in Slots : disk'[s] = disk[s] /\ mem'[s] \in {mem[s], Absent}
    BY <1>13, <1>0, InHand, Shapes DEF DropPlain, TaskDone
  <2>. QED
    BY <1>0, <2>1, <2>2, <2>3, SyncedKept DEF SameContent
<1>14. ASSUME FailTask PROVE SyncedInv'
  <2>1. CASE pc = "stamp"
    <3>1. UNCHANGED <<disk, mem, synced>> /\ \A p \in Paths : SameContent(p)
      BY <1>0, <1>14, <2>1, RestampIs DEF Restamp, SameContent, Exists
    <3>. QED
      BY <1>0, <3>1, SyncedKept
  <2>2. CASE pc # "stamp"
    <3>1. UNCHANGED <<disk, mem, synced>> /\ \A q \in Paths : file'[q] \in {file[q], Absent}
      BY <1>14, <1>0, <2>2 DEF FailTask
    <3>. QED
      BY <1>0, <3>1, SyncedKept DEF SameContent
  <2>. QED
    BY <2>1, <2>2
<1>15. ASSUME TasksDone PROVE SyncedInv'
  <2>1. UNCHANGED <<file, disk, mem, synced>>
    BY <1>15 DEF TasksDone
  <2>. QED
    BY <1>0, <2>1, SyncedKept DEF SameContent
<1>16. ASSUME Commit \/ Fail \/ Crash PROVE SyncedInv'
  <2>1. UNCHANGED <<file, synced>> /\ disk' \in {disk, mem} /\ mem' = NoRecords
    BY <1>16 DEF Commit, Fail, Crash, Quit
  <2>. QED
    BY <1>0, <2>1, SyncedKept DEF SameContent, NoRecords
<1>17. ASSUME NEW p \in Paths, NEW c \in Contents, Edit(p, c) PROVE SyncedInv'
  <2>1. /\ UNCHANGED <<disk, mem, synced>> /\ file'[p].content = c
        /\ \A q \in Paths \ {p} : file'[q] = file[q]
        /\ ~Reverts => Fresh(c)
        /\ Quiet => pc = "idle"
    BY <1>17, <1>0 DEF Edit, Touch, Quiet
  <2>2. ASSUME Considerate, NEW s \in Slots, NEW r \in {disk[s], mem[s]}, r # Absent, r.sha256 = c
        PROVE  synced[s] = c
    <3>1. CASE Quiet
      BY <1>0, <2>1, <2>2, <3>1 DEF MemInv, RecordsInv, NoRecords
    <3>2. CASE ~Reverts
      BY <1>0, <2>1, <2>2, <3>2, Manners DEF MemInv, Fresh
    <3>. QED
      BY <2>2, <3>1, <3>2 DEF Considerate
  <2>. SUFFICES ASSUME Considerate, NEW s \in Slots, NEW r \in {disk[s], mem[s]}, r # Absent
                PROVE  /\ Exists(s)' /\ file'[s].content = r.sha256 => KnownSource(s)'
                       /\ Exists(TargetOf(s))' /\ file'[TargetOf(s)].content = r.sha256
                            => KnownTarget(s[1])'
    BY <2>1 DEF SyncedInv, Exists, TargetOf
  <2>3. s \in Paths /\ TargetOf(s) \in Paths /\ TargetOf(s) = TargetFile(s[1])
    BY PathFacts
  <2>4. /\ Exists(s) /\ file[s].content = r.sha256 => KnownSource(s)
        /\ Exists(TargetOf(s)) /\ file[TargetOf(s)].content = r.sha256 => KnownTarget(s[1])
    BY <1>0 DEF SyncedInv
  <2>5. Exists(s)' /\ file'[s].content = r.sha256 => KnownSource(s)'
    BY <2>1, <2>2, <2>3, <2>4 DEF KnownSource, Exists
  <2>6. Exists(TargetOf(s))' /\ file'[TargetOf(s)].content = r.sha256 => KnownTarget(s[1])'
    BY <2>1, <2>2, <2>3, <2>4 DEF KnownTarget, Exists
  <2>. QED
    BY <2>5, <2>6
<1>18. ASSUME NEW p \in Paths, Remove(p) PROVE SyncedInv'
  <2>1. UNCHANGED <<disk, mem, synced>> /\ \A q \in Paths : file'[q] \in {file[q], Absent}
    BY <1>18, <1>0 DEF Remove, Touch
  <2>. QED
    BY <1>0, <2>1, SyncedKept DEF SameContent
<1>19. ASSUME UNCHANGED vars PROVE SyncedInv'
  <2>1. UNCHANGED <<file, disk, mem, synced>>
    BY <1>19 DEF vars
  <2>. QED
    BY <1>0, <2>1, SyncedKept DEF SameContent
<1>. QED
  BY StepsAre, <1>1, <1>2, <1>3, <1>4, <1>5, <1>6, <1>7, <1>8, <1>9, <1>10, <1>11,
     <1>12, <1>13, <1>14, <1>15, <1>16, <1>17, <1>18, <1>19 DEF Acts

-----------------------------------------------------------------------------
(* Installations without encrypted sources *)

(* Where no source is encrypted a check queues no task for one.            *)
LEMMA PlainOutcome ==
  ASSUME PlainOnly, PlainInv, run \in Runs, NEW p \in Paths
  PROVE  \A t \in Outcome(p).queue : t.slot[2] = "plain"
<1>. DEFINE f == p[1]
            OfPlain(o) == \A t \in o.queue : t.slot[2] = "plain"
<1>1. /\ f \in Files /\ ~Exists(Enc(f)) /\ Resolved(f) = Plain(f) /\ Plain(f)[2] = "plain"
      /\ ~run.encrypt /\ f \notin ForceEncrypted
      /\ run.cmd \in {"add", "pull", "sync", "forget"}
  BY PathFacts, CoreAssumption DEF PlainOnly, PlainInv, Resolved, RunType
<1>2. OfPlain(Skip) /\ OfPlain(Abort) /\ OfPlain(Blocked)
  BY Queues
<1>3. ASSUME NEW op, NEW s, s[2] = "plain"
      PROVE  OfPlain(Queue(op, s)) /\ OfPlain(Contested(op, s)) /\ OfPlain(ForceOrAbort(op, s))
  BY <1>3, Queues
<1>. HIDE DEF OfPlain
<1>4. OfPlain(AddTarget(f))
  BY <1>1, <1>2, <1>3 DEF AddTarget, AddPair
<1>5. OfPlain(PullTarget(f))
  BY <1>1, <1>2, <1>3 DEF PullTarget, PullExisting, PullMissing
<1>6. p \in Slots /\ Exists(p) => p[2] = "plain"
  <2>1. p \in Slots => p[2] \in {"plain", "enc"} /\ (p[2] = "enc" => p = Enc(f))
    BY PathFacts DEF Enc
  <2>. QED
    BY <1>1, <2>1
<1>7. p \in Slots => OfPlain(PullSource(p))
  <2>1. p \in Slots /\ Exists(p) /\ ~Exists(TargetOf(p)) => OfPlain(PullSource(p))
    BY <1>3, <1>6 DEF PullSource
  <2>2. p \in Slots /\ ~(Exists(p) /\ ~Exists(TargetOf(p))) => OfPlain(PullSource(p))
    BY <1>2, <1>5, <1>6 DEF PullSource
  <2>. QED
    BY <2>1, <2>2
<1>8. OfPlain(SyncTarget(f)) /\ OfPlain(ForgetTarget(f)) /\ OfPlain(MissingTarget(f))
  BY <1>1, <1>2, <1>3 DEF SyncTarget, ForgetTarget, MissingTarget
<1>9. /\ OfPlain(AddCheck(p)) /\ OfPlain(PullCheck(p))
      /\ OfPlain(SyncCheck(p)) /\ OfPlain(ForgetCheck(p))
  <2>1. p[2] # "target" => p \in Slots
    BY PathFacts
  <2>2. OfPlain(AddCheck(p)) /\ OfPlain(SyncCheck(p))
    BY <1>2, <1>4, <1>8 DEF AddCheck, SyncCheck
  <2>3. OfPlain(PullCheck(p))
    BY <1>5, <1>7, <2>1 DEF PullCheck
  <2>4. OfPlain(ForgetCheck(p))
    BY <1>2, <1>3, <1>6, <1>8, <2>1 DEF ForgetCheck
  <2>. QED
    BY <2>2, <2>3, <2>4
<1>10. OfPlain(Outcome(p))
  BY <1>9 DEF Outcome
<1>. QED
  BY <1>10 DEF OfPlain

(* A step that leaves the encrypted sources and their records alone, or    *)
(* removes them, and queues no task for one                                *)
LEMMA PlainKept ==
  ASSUME PlainInv,
         \A f \in Files : /\ file'[Enc(f)] \in {file[Enc(f)], Absent}
                          /\ disk'[Enc(f)] \in {disk[Enc(f)], mem[Enc(f)], Absent}
                          /\ mem'[Enc(f)] \in {disk[Enc(f)], mem[Enc(f)], Absent},
         PlainOnly => \A t \in AtHand' : t \in AtHand \/ t.slot[2] = "plain"
  PROVE  PlainInv'
BY DEF PlainInv, Exists

(* Every step keeps an installation without encrypted sources without.     *)
LEMMA PlainStep ==
  ASSUME SafetyInv, [Next]_vars
  PROVE  PlainInv'
<1>. SUFFICES ASSUME PlainOnly PROVE PlainInv'
  BY DEF PlainInv
<1>0. /\ TypeOK /\ TypeInv /\ TimeInv /\ QueueInv /\ PlainInv /\ tasks \subseteq Tasks
      /\ \A t \in AtHand : t \in Tasks /\ t.slot \in Slots /\ t.slot[2] = "plain"
      /\ tasks \subseteq AtHand
      /\ file \in [Paths -> Entries \cup {Absent}]
      /\ disk \in [Slots -> Records \cup {Absent}] /\ mem \in [Slots -> Records \cup {Absent}]
  BY Basics, TasksAtHand, TaskFacts DEF PlainInv
<1>e. \A f \in Files : /\ Enc(f) \in Paths /\ Enc(f) \in Slots /\ Enc(f)[2] = "enc"
                       /\ file[Enc(f)] = Absent
  BY <1>0, PathFacts DEF PlainInv, Exists
<1>t. \A t \in AtHand : \A f \in Files : t.slot # Enc(f) /\ To(t) # Enc(f)
  BY <1>0, <1>e, TaskFacts, PathFacts
<1>20. ASSUME NEW t, Completes(t) PROVE PlainInv'
  BY <1>0, <1>e, <1>t, <1>20, CopyCompletes, PlainKept
<1>21. ASSUME Restamp, AtHand' \subseteq AtHand PROVE PlainInv'
  BY <1>0, <1>e, <1>21, RestampIs, PlainKept
<1>22. ASSUME UNCHANGED <<file, disk>>, mem' \in {mem, disk, NoRecords}, AtHand' \subseteq AtHand
       PROVE  PlainInv'
  BY <1>0, <1>e, <1>22, PlainKept DEF NoRecords
<1>1. ASSUME NEW r \in Runs, Start(r) PROVE PlainInv'
  BY <1>1, <1>22 DEF Start, AtHand
<1>2. ASSUME NEW p \in todo, Check(p) PROVE PlainInv'
  <2>1. p \in Paths /\ run \in Runs /\ UNCHANGED <<file, disk, mem, task>>
    BY <1>0, <1>2, InHand DEF Check, TypeOK
  <2>2. PICK o \in Outcomes(p) : tasks' = tasks \cup o.queue
    BY <1>2 DEF Check
  <2>3. \A t \in o.queue : t.slot[2] = "plain"
    BY <1>0, <2>1, <2>2, PlainOutcome, Queues DEF Outcomes
  <2>4. \A t \in AtHand' : t \in AtHand \/ t.slot[2] = "plain"
    BY <2>1, <2>2, <2>3 DEF AtHand
  <2>. QED
    BY <1>0, <2>1, <2>4, PlainKept
<1>3. ASSUME Decide PROVE PlainInv'
  <2>1. /\ UNCHANGED <<file, disk, mem, task>> /\ tasks' = tasks \cup OrphanTasks
    BY <1>3 DEF Decide
  <2>2. \A s \in Orphans : s \in Slots /\ mem[s] # Absent
    BY DEF Orphans
  <2>3. \A s \in Orphans : s[2] = "plain"
    BY <1>0, <2>2, PathFacts DEF PlainInv, Enc
  <2>4. \A t \in OrphanTasks : t.slot[2] = "plain"
    BY <2>3 DEF OrphanTasks
  <2>5. \A t \in AtHand' : t \in AtHand \/ t.slot[2] = "plain"
    BY <2>1, <2>4 DEF AtHand
  <2>. QED
    BY <1>0, <2>1, <2>5, PlainKept
<1>4. ASSUME NEW t \in tasks, BeginCopy(t) PROVE PlainInv'
  BY <1>0, <1>e, <1>t, <1>4, CopyBegins, PlainKept
<1>5. ASSUME NEW t \in tasks, Encrypt(t) PROVE PlainInv'
  BY <1>5, <1>20 DEF Completes
<1>6. ASSUME NEW t \in tasks, RecordOnly(t) PROVE PlainInv'
  BY <1>6, <1>22 DEF RecordOnly, AtHand
<1>7. ASSUME NEW t \in tasks, Delete(t) PROVE PlainInv'
  <2>1. AtHand' \subseteq AtHand /\ UNCHANGED disk
    BY <1>7 DEF Delete, AtHand
  <2>2. /\ \A q \in Paths : file'[q] \in {file[q], Absent}
        /\ \A s \in Slots : mem'[s] \in {mem[s], Absent}
    BY <1>7, <1>0, InHand, Shapes DEF Delete
  <2>. QED
    BY <1>0, <1>e, <2>1, <2>2, PlainKept
<1>8. ASSUME NEW t \in tasks, SkipTask(t) PROVE PlainInv'
  BY <1>8, <1>22 DEF SkipTask, AtHand
<1>9. ASSUME FinishCopy PROVE PlainInv'
  BY <1>9, <1>20 DEF Completes
<1>10. ASSUME Record PROVE PlainInv'
  <2>1. /\ task \in AtHand /\ UNCHANGED <<file, disk>> /\ AtHand' = AtHand
        /\ mem' = [mem EXCEPT ![task.slot] = Recorded(task.slot)]
    BY <1>10, <1>0, InHand, TasksAtHand, Shapes DEF Record, AtHand
  <2>2. \A f \in Files : mem'[Enc(f)] = mem[Enc(f)]
    BY <1>0, <1>e, <1>t, <2>1
  <2>. QED
    BY <1>0, <2>1, <2>2, PlainKept
<1>11. ASSUME Stamp PROVE PlainInv'
  BY <1>11, <1>21, Ended DEF Restamp, Stamp, TaskDone
<1>12. ASSUME StampDenied PROVE PlainInv'
  BY <1>12, <1>21, Ended DEF Restamp, StampDenied
<1>13. ASSUME DropPlain PROVE PlainInv'
  <2>1. AtHand' \subseteq AtHand /\ UNCHANGED disk
    BY <1>13, Ended DEF DropPlain, TaskDone
  <2>2. /\ \A q \in Paths : file'[q] \in {file[q], Absent}
        /\ \A s \in Slots : mem'[s] \in {mem[s], Absent}
    BY <1>13, <1>0, InHand, Shapes DEF DropPlain, TaskDone
  <2>. QED
    BY <1>0, <1>e, <2>1, <2>2, PlainKept
<1>14. ASSUME FailTask PROVE PlainInv'
  <2>1. AtHand' \subseteq AtHand
    BY <1>14, Ended DEF FailTask
  <2>2. CASE pc = "stamp"
    BY <1>14, <1>21, <2>1, <2>2 DEF Restamp
  <2>3. CASE pc # "stamp"
    <3>1. UNCHANGED <<disk, mem>> /\ \A q \in Paths : file'[q] \in {file[q], Absent}
      BY <1>14, <1>0, <2>3 DEF FailTask
    <3>. QED
      BY <1>0, <1>e, <2>1, <3>1, PlainKept
  <2>. QED
    BY <2>2, <2>3
<1>15. ASSUME TasksDone PROVE PlainInv'
  BY <1>15, <1>22 DEF TasksDone, AtHand
<1>16. ASSUME Commit \/ Fail \/ Crash PROVE PlainInv'
  <2>1. UNCHANGED file /\ disk' \in {disk, mem} /\ mem' = NoRecords /\ AtHand' = {}
    BY <1>16 DEF Commit, Fail, Crash, Quit, AtHand
  <2>. QED
    BY <1>0, <1>e, <2>1, PlainKept DEF NoRecords
<1>17. ASSUME NEW p \in Paths, NEW c \in Contents, Edit(p, c) PROVE PlainInv'
  <2>1. p[2] # "enc" /\ UNCHANGED <<disk, mem>> /\ AtHand' = AtHand
        /\ \A q \in Paths \ {p} : file'[q] = file[q]
    BY <1>17, <1>0 DEF Edit, Touch, PlainOnly, AtHand
  <2>. QED
    BY <1>0, <1>e, <2>1, PlainKept
<1>18. ASSUME NEW p \in Paths, Remove(p) PROVE PlainInv'
  <2>1. UNCHANGED <<disk, mem>> /\ AtHand' = AtHand
        /\ \A q \in Paths : file'[q] \in {file[q], Absent}
    BY <1>18, <1>0 DEF Remove, Touch, AtHand
  <2>. QED
    BY <1>0, <1>e, <2>1, PlainKept
<1>19. ASSUME UNCHANGED vars PROVE PlainInv'
  BY <1>19, <1>22 DEF vars, AtHand
<1>. QED
  BY StepsAre, <1>1, <1>2, <1>3, <1>4, <1>5, <1>6, <1>7, <1>8, <1>9, <1>10, <1>11,
     <1>12, <1>13, <1>14, <1>15, <1>16, <1>17, <1>18, <1>19 DEF Acts

-----------------------------------------------------------------------------
(* The times of encrypted pairs *)

(* A file that a step leaves alone, gives the present time, or writes      *)
(* after every record, keeps its place before or after the records.        *)
LEMMA StampKept ==
  ASSUME StampInv, TimeInv, TypeOK, clock \in Nat, clock' \in Nat, clock' >= clock,
         \A s \in Slots : \A r \in {disk'[s], mem'[s]} : r \in {disk[s], mem[s], Absent},
         \A p \in Paths :
            \/ file'[p] \in {file[p], Absent}
            \/ /\ file[p] # Absent /\ file'[p].content = file[p].content
               /\ file'[p].mtime \in {file[p].mtime, clock}
            \/ file'[p].mtime = clock' /\ (clock' > clock \/ pc = "copy")
  PROVE  StampInv'
<1>. SUFFICES ASSUME Undisturbed,
                     NEW s \in Slots, NEW r \in {disk'[s], mem'[s]}, s[2] = "enc", r # Absent,
                     NEW p \in {s, TargetOf(s)}, Exists(p)', file'[p].mtime <= r.mtime
              PROVE  file'[p].content = r.sha256
  BY DEF StampInv, TargetOf
<1>1. /\ p \in Paths /\ r \in {disk[s], mem[s]} /\ r.mtime \in Nat /\ r.mtime <= clock
      /\ pc = "copy" => r.mtime < clock
  BY PathFacts DEF TimeInv, TypeOK, Records
<1>2. Exists(p) => file[p].mtime \in Nat /\ file[p].mtime <= clock
  BY <1>1 DEF TimeInv, TypeOK, Entries, Exists
<1>3. Exists(p) /\ file[p].mtime <= r.mtime => file[p].content = r.sha256
  BY <1>1 DEF StampInv
<1>4. CASE file'[p] \in {file[p], Absent}
  BY <1>3, <1>4 DEF Exists
<1>5. CASE file[p] # Absent /\ file'[p].content = file[p].content /\ file'[p].mtime \in {file[p].mtime, clock}
  BY <1>1, <1>2, <1>3, <1>5 DEF Exists
<1>6. CASE file'[p].mtime = clock' /\ (clock' > clock \/ pc = "copy")
  BY <1>1, <1>6
<1>. QED
  BY <1>1, <1>4, <1>5, <1>6

(* Every step keeps the times of encrypted pairs meaningful, unless they   *)
(* are edited while they are recorded.                                     *)
LEMMA StampsKept ==
  ASSUME SafetyInv, [Next]_vars, NoEditWhileRecording
  PROVE  StampInv'
<1>0. /\ TypeOK /\ TypeInv /\ TimeInv /\ HandInv /\ SyncedInv /\ StampInv /\ RecordsInv
      /\ tasks \subseteq Tasks /\ clock \in Nat
      /\ file \in [Paths -> Entries \cup {Absent}]
      /\ disk \in [Slots -> Records \cup {Absent}] /\ mem \in [Slots -> Records \cup {Absent}]
  BY Basics
<1>1. ASSUME NEW r \in Runs, Start(r) PROVE StampInv'
  <2>1. UNCHANGED <<file, disk, clock>> /\ mem' = disk
    BY <1>1 DEF Start
  <2>. QED
    BY <1>0, <2>1, StampKept
<1>2. ASSUME NEW p \in todo, Check(p) PROVE StampInv'
  <2>1. UNCHANGED <<file, disk, mem, clock>>
    BY <1>2 DEF Check
  <2>. QED
    BY <1>0, <2>1, StampKept
<1>3. ASSUME Decide PROVE StampInv'
  <2>1. UNCHANGED <<file, disk, mem, clock>>
    BY <1>3 DEF Decide
  <2>. QED
    BY <1>0, <2>1, StampKept
<1>4. ASSUME NEW t \in tasks, BeginCopy(t) PROVE StampInv'
  <2>1. /\ UNCHANGED <<disk, mem>> /\ clock' = clock + 1 /\ file'[To(t)].mtime = clock'
        /\ \A q \in Paths \ {To(t)} : file'[q] = file[q]
    BY <1>4, CopyBegins DEF BeginCopy
  <2>. QED
    BY <1>0, <2>1, StampKept
<1>5. ASSUME NEW t \in tasks, Encrypt(t) PROVE StampInv'
  <2>1. /\ UNCHANGED <<disk, mem>> /\ clock' = clock + 1 /\ file'[To(t)].mtime = clock'
        /\ \A q \in Paths \ {To(t)} : file'[q] = file[q]
    BY <1>5, CopyCompletes DEF Encrypt, Completes
  <2>. QED
    BY <1>0, <2>1, StampKept
<1>6. ASSUME NEW t \in tasks, RecordOnly(t) PROVE StampInv'
  <2>1. UNCHANGED <<file, disk, mem, clock>>
    BY <1>6 DEF RecordOnly
  <2>. QED
    BY <1>0, <2>1, StampKept
<1>7. ASSUME NEW t \in tasks, Delete(t) PROVE StampInv'
  <2>1. UNCHANGED clock /\ \A q \in Paths : file'[q] \in {file[q], Absent}
    BY <1>7, <1>0, InHand, Shapes DEF Delete
  <2>2. \A s \in Slots : disk'[s] = disk[s] /\ mem'[s] \in {mem[s], Absent}
    BY <1>7, <1>0, InHand, Shapes DEF Delete
  <2>. QED
    BY <1>0, <2>1, <2>2, StampKept
<1>8. ASSUME NEW t \in tasks, SkipTask(t) PROVE StampInv'
  <2>1. UNCHANGED <<file, disk, mem, clock>>
    BY <1>8 DEF SkipTask
  <2>. QED
    BY <1>0, <2>1, StampKept
<1>9. ASSUME FinishCopy PROVE StampInv'
  <2>1. /\ UNCHANGED <<disk, mem, clock>> /\ pc = "copy" /\ file'[To(task)].mtime = clock'
        /\ \A q \in Paths \ {To(task)} : file'[q] = file[q]
    BY <1>9, CopyCompletes DEF FinishCopy, Completes
  <2>. QED
    BY <1>0, <2>1, StampKept
<1>10. ASSUME Record PROVE StampInv'
  <2>. DEFINE s == task.slot
  <2>1. /\ s \in Slots /\ UNCHANGED <<file, disk, clock>> /\ pc = "record" /\ task \in AtHand /\ task \in Tasks
        /\ mem'[s] = Recorded(s) /\ \A u \in Slots \ {s} : mem'[u] = mem[u]
    BY <1>10, <1>0, InHand, TasksAtHand, Shapes DEF Record
  <2>2. s[2] = "enc" => Settled(s, s) /\ Settled(TargetOf(s), s)
    <3>1. s[2] = "enc" => Copies(task)
      BY <1>0, <2>1, TasksAtHand DEF HandInv, Copies
    <3>. QED
      BY <1>0, <2>1, <3>1, Manners DEF HandInv
  <2>3. s[2] = "enc" => \A p \in {s, TargetOf(s)} : file[p].content = mem'[s].sha256
    BY <2>1, <2>2 DEF Settled, Recorded
  <2>. SUFFICES ASSUME Undisturbed,
                       NEW u \in Slots, NEW r \in {disk'[u], mem'[u]}, u[2] = "enc", r # Absent,
                       NEW p \in {u, TargetOf(u)}, Exists(p), file[p].mtime <= r.mtime
                PROVE  file[p].content = r.sha256
    BY <2>1 DEF StampInv, TargetOf, Exists
  <2>4. CASE r \in {disk[u], mem[u]}
    BY <1>0, <2>4 DEF StampInv
  <2>5. CASE r \notin {disk[u], mem[u]}
    BY <2>1, <2>3, <2>5
  <2>. QED
    BY <2>4, <2>5
<1>11. ASSUME Stamp PROVE StampInv'
  <2>1. /\ UNCHANGED <<disk, mem, clock>>
        /\ \A p \in Paths : \/ file'[p] \in {file[p], Absent}
                            \/ /\ file[p] # Absent /\ file'[p].content = file[p].content
                               /\ file'[p].mtime \in {file[p].mtime, clock}
    BY <1>0, <1>11, RestampIs DEF Restamp, Exists
  <2>. QED
    BY <1>0, <2>1, StampKept
<1>12. ASSUME StampDenied PROVE StampInv'
  <2>1. /\ UNCHANGED <<disk, mem, clock>>
        /\ \A p \in Paths : \/ file'[p] \in {file[p], Absent}
                            \/ /\ file[p] # Absent /\ file'[p].content = file[p].content
                               /\ file'[p].mtime \in {file[p].mtime, clock}
    BY <1>0, <1>12, RestampIs DEF Restamp, Exists
  <2>. QED
    BY <1>0, <2>1, StampKept
<1>13. ASSUME DropPlain PROVE StampInv'
  <2>1. UNCHANGED clock /\ \A q \in Paths : file'[q] \in {file[q], Absent}
    BY <1>13, <1>0, InHand, Shapes DEF DropPlain, TaskDone
  <2>2. \A s \in Slots : disk'[s] = disk[s] /\ mem'[s] \in {mem[s], Absent}
    BY <1>13, <1>0, InHand, Shapes DEF DropPlain, TaskDone
  <2>. QED
    BY <1>0, <2>1, <2>2, StampKept
<1>14. ASSUME FailTask PROVE StampInv'
  <2>1. CASE pc = "stamp"
    <3>1. /\ UNCHANGED <<disk, mem, clock>>
          /\ \A p \in Paths : \/ file'[p] \in {file[p], Absent}
                              \/ /\ file[p] # Absent /\ file'[p].content = file[p].content
                                 /\ file'[p].mtime \in {file[p].mtime, clock}
      BY <1>0, <1>14, <2>1, RestampIs DEF Restamp, Exists
    <3>. QED
      BY <1>0, <3>1, StampKept
  <2>2. CASE pc # "stamp"
    <3>1. UNCHANGED <<disk, mem, clock>> /\ \A q \in Paths : file'[q] \in {file[q], Absent}
      BY <1>14, <1>0, <2>2 DEF FailTask
    <3>. QED
      BY <1>0, <3>1, StampKept
  <2>. QED
    BY <2>1, <2>2
<1>15. ASSUME TasksDone PROVE StampInv'
  <2>1. UNCHANGED <<file, disk, mem, clock>>
    BY <1>15 DEF TasksDone
  <2>. QED
    BY <1>0, <2>1, StampKept
<1>16. ASSUME Commit \/ Fail \/ Crash PROVE StampInv'
  <2>1. UNCHANGED <<file, clock>> /\ disk' \in {disk, mem} /\ mem' = NoRecords
    BY <1>16 DEF Commit, Fail, Crash, Quit
  <2>. QED
    BY <1>0, <2>1, StampKept DEF NoRecords
<1>17. ASSUME NEW p \in Paths, NEW c \in Contents, Edit(p, c) PROVE StampInv'
  <2>1. /\ UNCHANGED <<disk, mem>> /\ clock' = clock + 1 /\ file'[p].mtime = clock'
        /\ \A q \in Paths \ {p} : file'[q] = file[q]
    BY <1>17, <1>0 DEF Edit, Touch
  <2>. QED
    BY <1>0, <2>1, StampKept
<1>18. ASSUME NEW p \in Paths, Remove(p) PROVE StampInv'
  <2>1. UNCHANGED clock /\ \A q \in Paths : file'[q] \in {file[q], Absent}
    BY <1>18, <1>0, InHand, Shapes DEF Remove, Touch
  <2>2. \A s \in Slots : disk'[s] = disk[s] /\ mem'[s] \in {mem[s], Absent}
    BY <1>18, <1>0, InHand, Shapes DEF Remove, Touch
  <2>. QED
    BY <1>0, <2>1, <2>2, StampKept
<1>19. ASSUME UNCHANGED vars PROVE StampInv'
  <2>1. UNCHANGED <<file, disk, mem, clock>>
    BY <1>19 DEF vars
  <2>. QED
    BY <1>0, <2>1, StampKept
<1>. QED
  BY StepsAre, <1>1, <1>2, <1>3, <1>4, <1>5, <1>6, <1>7, <1>8, <1>9, <1>10, <1>11,
     <1>12, <1>13, <1>14, <1>15, <1>16, <1>17, <1>18, <1>19 DEF Acts

(* ... or there are none.                                                  *)
LEMMA StampStep ==
  ASSUME SafetyInv, [Next]_vars
  PROVE  StampInv'
<1>1. CASE NoEditWhileRecording
  BY <1>1, StampsKept
<1>2. CASE SourcesLeft
  <2>1. \A s \in Slots : s[2] = "enc" => disk'[s] = Absent /\ mem'[s] = Absent
    BY <1>2, PlainStep, PathFacts DEF PlainInv, SourcesLeft, Enc
  <2>. QED
    BY <2>1 DEF StampInv
<1>. QED
  BY <1>1, <1>2 DEF StampInv, Undisturbed

-----------------------------------------------------------------------------
(* What may be overwritten *)

(* A name a step leaves alone                                              *)
NameKept(f) == /\ \A p \in Paths : p[1] = f => SameContent(p)
               /\ \A s \in Slots : s[1] = f => synced'[s] = synced[s]

(* Steps on other names change nothing about a name.                       *)
LEMMA SparedFrame ==
  ASSUME NEW t \in Tasks, NameKept(Name(t))
  PROVE  /\ SourceSpared(t.slot) => SourceSpared(t.slot)'
         /\ TargetSpared(t.slot) => TargetSpared(t.slot)'
         /\ PlainSpared(Name(t)) => PlainSpared(Name(t))'
<1>. DEFINE f == Name(t)
<1>1. /\ f \in Files /\ t.slot \in Slots /\ t.slot \in Paths /\ t.slot[1] = f
      /\ TargetFile(f) \in Paths /\ TargetFile(f)[1] = f
      /\ Plain(f) \in Slots /\ Plain(f) \in Paths /\ Plain(f)[1] = f
      /\ \A s \in Slots : s \in Paths
  BY TaskFacts, PathFacts DEF Name
<1>. HIDE DEF f
<1>2. \A s \in Slots : s[1] = f => SameContent(s) /\ synced'[s] = synced[s]
  BY <1>1 DEF NameKept, f
<1>3. SameContent(TargetFile(f))
  BY <1>1 DEF NameKept, f
<1>4. \A s \in Slots : s[1] = f => (KnownSource(s) /\ Exists(s)' => KnownSource(s)')
  BY <1>2 DEF KnownSource, SameContent, Exists
<1>5. KnownTarget(f) /\ Exists(TargetFile(f))' => KnownTarget(f)'
  BY <1>2, <1>3 DEF KnownTarget, SameContent, Exists
<1>6. \A s \in Slots : s[1] = f =>
        (Exists(s) /\ Exists(TargetFile(f)) /\ Same(s, TargetFile(f))
           => Exists(s)' /\ Exists(TargetFile(f))' /\ Same(s, TargetFile(f))')
  BY <1>2, <1>3 DEF Same, SameContent, Exists
<1>7. SourceSpared(t.slot) => SourceSpared(t.slot)'
  BY <1>1, <1>2, <1>4 DEF SourceSpared, SameContent, Exists
<1>8. TargetSpared(t.slot) => TargetSpared(t.slot)'
  <2>1. TargetOf(t.slot) = TargetFile(f)
    BY <1>1, PathFacts
  <2>2. Exists(TargetFile(f))' => /\ Exists(TargetFile(f))
                                  /\ file'[TargetFile(f)].content = file[TargetFile(f)].content
    BY <1>3 DEF SameContent, Exists
  <2>3. synced'[t.slot] = synced[t.slot]
    BY <1>1, <1>2
  <2>4. TargetSpared(t.slot) <=>
          (Exists(TargetFile(f)) =>
             \/ KnownTarget(f) /\ (Quiet => file[TargetFile(f)].content \in {Torn, synced[t.slot]})
             \/ \E u \in Slots : u[1] = f /\ Exists(u) /\ Same(u, TargetFile(f)))
    BY <1>1, <2>1 DEF TargetSpared
  <2>5. TargetSpared(t.slot)' <=>
          (Exists(TargetFile(f))' =>
             \/ KnownTarget(f)' /\ (Quiet => file'[TargetFile(f)].content \in {Torn, synced'[t.slot]})
             \/ \E u \in Slots : u[1] = f /\ Exists(u)' /\ Same(u, TargetFile(f))')
    BY <1>1, <2>1 DEF TargetSpared, TargetOf, TargetFile
  <2>. QED
    BY <1>5, <1>6, <2>2, <2>3, <2>4, <2>5
<1>9. PlainSpared(f) => PlainSpared(f)'
  <2>1. Exists(Plain(f))' => Exists(Plain(f))
    BY <1>1, <1>2 DEF SameContent, Exists
  <2>2. Exists(Plain(f)) /\ Exists(TargetFile(f)) /\ Same(Plain(f), TargetFile(f))
          => Exists(TargetFile(f))' /\ Same(Plain(f), TargetFile(f))'
    BY <1>1, <1>6
  <2>. HIDE <1>6
  <2>. QED
    BY <1>1, <1>4, <2>1, <2>2 DEF PlainSpared
<1>. QED
  BY <1>7, <1>8, <1>9 DEF f

(* So the tasks that remain stay good where their names are left alone, or *)
(* where nothing unknown is left to overwrite.                             *)
LEMMA SparedKept ==
  ASSUME SafetyInv, pc \in Working, run' = run, AtHand' \subseteq AtHand, tasks' \subseteq tasks,
         raced \subseteq raced',
         \A t \in AtHand' : Careful /\ ~Raced(Name(t))' =>
            \/ NameKept(Name(t))
            \/ /\ t.op = "push" => t \notin tasks'
               /\ t.op = "pull" => TargetSpared(t.slot)'
               /\ Encrypts(t) /\ run.cmd = "add" =>
                    (PlainSpared(Name(t)) => PlainSpared(Name(t))')
  PROVE  SparedInv'
<1>. SUFFICES ASSUME Careful, NEW t \in AtHand', ~Raced(Name(t))'
              PROVE  /\ t.op = "push" /\ t \in tasks' => SourceSpared(t.slot)'
                     /\ t.op = "pull" => TargetSpared(t.slot)'
                     /\ Encrypts(t) /\ run.cmd = "add" => PlainSpared(Name(t))'
  BY DEF SparedInv, Careful, Encrypts, Name
<1>1. t \in AtHand /\ t \in Tasks /\ ~Raced(Name(t)) /\ SparedInv
  BY TasksAtHand, Basics DEF Raced
<1>2. /\ t.op = "push" /\ t \in tasks => SourceSpared(t.slot)
      /\ t.op = "pull" => TargetSpared(t.slot)
      /\ Encrypts(t) /\ run.cmd = "add" => PlainSpared(Name(t))
  BY <1>1 DEF SparedInv
<1>3. CASE NameKept(Name(t))
  BY <1>1, <1>2, <1>3, SparedFrame
<1>. QED
  BY <1>2, <1>3

(* Every step keeps what the remaining tasks overwrite known. *)
LEMMA SparedStep ==
  ASSUME SafetyInv, [Next]_vars
  PROVE  SparedInv'
<1>0. /\ TypeOK /\ TypeInv /\ TimeInv /\ QueueInv /\ HandInv /\ SyncedInv /\ StampInv /\ RecordsInv /\ SparedInv
      /\ tasks \subseteq Tasks /\ tasks \subseteq AtHand /\ NoTask \notin tasks
      /\ \A t \in AtHand : t \in Tasks
      /\ file \in [Paths -> Entries \cup {Absent}]
      /\ synced \in [Slots -> AllContents \cup {Absent}]
  BY Basics, TasksAtHand
<1>w. pc \in {"check", "exec", "copy", "record", "stamp", "drop"} => pc \in Working
  BY DEF Working
<1>20. ASSUME NEW t, Completes(t) PROVE SparedInv'
  <2>1. /\ t \in AtHand /\ t \in Tasks /\ To(t) \in Paths /\ To(t)[1] = Name(t)
        /\ t.op = "push" => To(t) = t.slot
        /\ \A q \in Paths \ {To(t)} : file'[q] = file[q]
        /\ \A s \in Slots \ {t.slot} : synced'[s] = synced[s]
        /\ Settled(TargetFile(Name(t)), t.slot)' /\ t.slot \in Slots /\ t.slot[1] = Name(t)
        /\ AtHand' = AtHand /\ tasks' \subseteq tasks /\ t \notin tasks'
        /\ UNCHANGED <<run, raced>> /\ pc \in Working
    BY <1>20, <1>w, CopyCompletes DEF Name
  <2>2. ASSUME NEW u \in AtHand, Name(u) # Name(t) PROVE NameKept(Name(u))
    BY <2>1, <2>2 DEF NameKept, SameContent
  <2>3. ASSUME NEW u \in AtHand, Name(u) = Name(t) PROVE TargetSpared(u.slot)'
    <3>1. /\ TargetOf(u.slot) = TargetFile(Name(t)) /\ u.slot[1] = Name(t) /\ u.slot \in Slots
          /\ Settled(t.slot, t.slot)'
      BY <1>0, <1>20, <2>1, <2>3, CopyCompletes, TaskFacts, PathFacts DEF Name
    <3>2. Exists(t.slot)' /\ file'[t.slot].content = file'[TargetOf(u.slot)].content
      BY <2>1, <3>1 DEF Settled
    <3>. QED
      BY <2>1, <3>1, <3>2 DEF TargetSpared, Same
  <2>4. ASSUME Encrypts(t), PlainSpared(Name(t)) PROVE PlainSpared(Name(t))'
    <3>. DEFINE f == Name(t)
    <3>1. /\ Plain(f) \in Slots /\ Plain(f) \in Paths /\ TargetFile(f) \in Paths
          /\ Plain(f) # To(t) /\ TargetFile(f) # To(t) /\ Plain(f) # t.slot
      BY <2>1, <2>4, TaskFacts, PathFacts
    <3>2. /\ file'[Plain(f)] = file[Plain(f)] /\ file'[TargetFile(f)] = file[TargetFile(f)]
          /\ synced'[Plain(f)] = synced[Plain(f)]
      BY <2>1, <3>1
    <3>. QED
      BY <2>4, <3>2 DEF PlainSpared, KnownSource, Exists, Same
  <2>5. ASSUME NEW u \in AtHand, Name(u) = Name(t)
        PROVE  /\ u.op = "push" => u \notin tasks'
               /\ Encrypts(u) => (PlainSpared(Name(u)) => PlainSpared(Name(u))')
    <3>1. u.op = "push" => u = t
      BY <2>1, <2>5, TasksAtHand
    <3>. QED
      BY <2>1, <2>4, <2>5, <3>1 DEF Encrypts
  <2>. QED
    BY <2>1, <2>2, <2>3, <2>5, SparedKept
<1>1. ASSUME NEW r \in Runs, Start(r) PROVE SparedInv'
  <2>1. AtHand' = {}
    BY <1>1, <1>0, InHand DEF Start, QueueInv, AtHand
  <2>. QED
    BY <2>1 DEF SparedInv
<1>2. ASSUME NEW p \in todo, Check(p) PROVE SparedInv'
  <2>1. /\ pc = "check" /\ pc \in Working /\ UNCHANGED <<file, run, task, raced>>
        /\ task = NoTask /\ AtHand = tasks /\ AtHand' = tasks'
    BY <1>2, <1>0, <1>w, CheckIs, InHand DEF AtHand
  <2>2. CASE tasks' = tasks /\ synced' = synced
    BY <2>1, <2>2, SparedKept DEF NameKept, SameContent
  <2>3. ASSUME NEW t, GoodTask(p, t), tasks' = tasks \cup {t},
               synced' = [s \in Slots |-> IF t.op = "record" /\ s = t.slot
                                          THEN file[s].content ELSE synced[s]]
        PROVE  SparedInv'
    <3>. SUFFICES ASSUME Careful, NEW u \in tasks', ~Raced(Name(u))
                  PROVE  /\ u.op = "push" => SourceSpared(u.slot)'
                         /\ u.op = "pull" => TargetSpared(u.slot)'
                         /\ Encrypts(u) /\ run.cmd = "add" => PlainSpared(Name(u))'
      BY <2>1 DEF SparedInv, Careful, Encrypts, Name, Raced
    <3>1. u \in Tasks /\ t \in Tasks /\ p \in todo
      BY <1>0, <2>3, <1>2 DEF GoodTask, Check
    <3>2. u # t => u \in tasks
      BY <2>3
    <3>3. /\ u.op = "push" => SourceSpared(u.slot)
          /\ u.op = "pull" => TargetSpared(u.slot)
          /\ Encrypts(u) /\ run.cmd = "add" => PlainSpared(Name(u))
      <4>1. CASE u = t
        BY <2>3, <4>1 DEF GoodTask, Spared
      <4>2. CASE u # t
        BY <1>0, <2>1, <3>2, <4>2 DEF SparedInv
      <4>. QED
        BY <4>1, <4>2
    <3>4. CASE t.op # "record"
      <4>1. synced' = synced
        BY <1>0, <2>3, <3>4
      <4>2. NameKept(Name(u))
        BY <2>1, <4>1 DEF NameKept, SameContent
      <4>. QED
        BY <3>1, <3>3, <4>2, SparedFrame
    <3>5. CASE t.op = "record" /\ u # t
      <4>1. Name(u) # Name(t)
        <5>1. OnePerName(run.cmd) /\ TargetFile(Name(t)) = p
          <6>1. run.cmd = "add"
            BY <2>3, <3>5 DEF GoodTask, OpsOf
          <6>. QED
            BY <2>3, <6>1 DEF GoodTask, OnePerName
        <5>2. TargetFile(Name(u)) \notin todo
          BY <1>0, <2>1, <3>2, <3>5, <5>1 DEF QueueInv
        <5>. QED
          BY <3>1, <5>1, <5>2
      <4>2. NameKept(Name(u))
        BY <2>1, <2>3, <4>1 DEF NameKept, SameContent, Name
      <4>. QED
        BY <3>1, <3>3, <4>2, SparedFrame
    <3>6. CASE t.op = "record" /\ u = t
      BY <3>6 DEF Encrypts
    <3>. QED
      BY <3>4, <3>5, <3>6
  <2>. QED
    BY <1>2, <1>0, <2>2, <2>3, CheckIs
<1>3. ASSUME Decide PROVE SparedInv'
  <2>1. /\ UNCHANGED <<file, synced, run, raced, task>> /\ pc \in Working
        /\ tasks' = tasks \cup OrphanTasks
    BY <1>3, <1>w DEF Decide
  <2>2. CASE OrphanTasks = {}
    <3>1. AtHand' = AtHand /\ tasks' = tasks
      BY <2>1, <2>2 DEF AtHand
    <3>. QED
      BY <2>1, <3>1, SparedKept DEF NameKept, SameContent
  <2>3. CASE OrphanTasks # {}
    BY <1>0, <2>1, <2>3, OrphansAre DEF SparedInv, Careful
  <2>. QED
    BY <2>2, <2>3
<1>4. ASSUME NEW t \in tasks, BeginCopy(t) PROVE SparedInv'
  <2>1. /\ t \in AtHand /\ ~Encrypts(t) /\ To(t) \in Paths /\ To(t)[1] = Name(t)
        /\ t.op # "push" => To(t) = TargetFile(Name(t))
        /\ file'[To(t)].content = Torn /\ \A q \in Paths \ {To(t)} : file'[q] = file[q]
        /\ AtHand' = AtHand /\ tasks' \subseteq tasks /\ t \notin tasks'
        /\ UNCHANGED <<synced, run, raced>> /\ pc \in Working
    BY <1>4, <1>w, CopyBegins
  <2>2. ASSUME NEW u \in AtHand, Name(u) # Name(t) PROVE NameKept(Name(u))
    BY <2>1, <2>2 DEF NameKept, SameContent
  <2>3. ASSUME NEW u \in AtHand, Name(u) = Name(t)
        PROVE  /\ u.op = "push" => u \notin tasks'
               /\ u.op = "pull" => TargetSpared(u.slot)'
               /\ ~Encrypts(u)
    <3>1. u.op = "push" => u = t
      BY <2>1, <2>3, TasksAtHand
    <3>2. u.op = "pull" => t.op # "push"
      BY <2>1, <2>3, TasksAtHand
    <3>3. t.op # "push" => KnownTarget(Name(t))'
      BY <2>1 DEF KnownTarget
    <3>4. TargetOf(u.slot) = TargetFile(Name(t)) /\ u.slot[1] = Name(t)
      BY <1>0, <2>1, <2>3, TaskFacts, PathFacts DEF Name
    <3>5. u.op = "pull" => TargetSpared(u.slot)'
      BY <2>1, <3>2, <3>3, <3>4 DEF TargetSpared
    <3>. QED
      BY <2>1, <2>3, <3>1, <3>5 DEF Encrypts
  <2>. QED
    BY <2>1, <2>2, <2>3, SparedKept
<1>5. ASSUME NEW t \in tasks, Encrypt(t) PROVE SparedInv'
  BY <1>5, <1>20 DEF Completes
<1>6. ASSUME NEW t \in tasks, RecordOnly(t) PROVE SparedInv'
  <2>1. UNCHANGED <<file, synced, run, raced>> /\ pc \in Working /\ tasks' \subseteq tasks
    BY <1>6, <1>w DEF RecordOnly
  <2>2. AtHand' \subseteq AtHand
    BY <1>6, <1>0 DEF RecordOnly, AtHand
  <2>. QED
    BY <2>1, <2>2, SparedKept DEF NameKept, SameContent
<1>7. ASSUME NEW t \in tasks, Delete(t) PROVE SparedInv'
  <2>1. ~Careful' /\ t \in AtHand
    BY <1>7, <1>0, TasksAtHand DEF Delete, Careful
  <2>. QED
    BY <2>1 DEF SparedInv
<1>8. ASSUME NEW t \in tasks, SkipTask(t) PROVE SparedInv'
  <2>1. UNCHANGED <<file, synced, run, raced>> /\ pc \in Working /\ tasks' \subseteq tasks
    BY <1>8, <1>w DEF SkipTask
  <2>2. AtHand' \subseteq AtHand
    BY <1>8, <1>0 DEF SkipTask, AtHand
  <2>. QED
    BY <2>1, <2>2, SparedKept DEF NameKept, SameContent
<1>9. ASSUME FinishCopy PROVE SparedInv'
  BY <1>9, <1>20 DEF Completes
<1>10. ASSUME Record PROVE SparedInv'
  <2>1. UNCHANGED <<file, synced, run, raced>> /\ pc \in Working /\ tasks' \subseteq tasks
    BY <1>10, <1>w DEF Record
  <2>2. AtHand' \subseteq AtHand
    BY <1>10, <1>0 DEF Record, AtHand
  <2>. QED
    BY <2>1, <2>2, SparedKept DEF NameKept, SameContent
<1>11. ASSUME Stamp PROVE SparedInv'
  <2>1. /\ UNCHANGED <<synced, run, raced, tasks>> /\ \A p \in Paths : SameContent(p)
        /\ pc \in Working
    BY <1>0, <1>w, <1>11, RestampIs DEF Restamp, SameContent, Exists
  <2>2. AtHand' \subseteq AtHand
    BY <1>11, <1>0, Ended DEF Stamp, TaskDone
  <2>. QED
    BY <2>1, <2>2, SparedKept DEF NameKept
<1>12. ASSUME StampDenied PROVE SparedInv'
  <2>1. /\ UNCHANGED <<synced, run, raced, tasks>> /\ \A p \in Paths : SameContent(p)
        /\ pc \in Working
    BY <1>0, <1>w, <1>12, RestampIs DEF Restamp, SameContent, Exists
  <2>2. AtHand' \subseteq AtHand
    BY <1>12, <1>0, Ended DEF StampDenied
  <2>. QED
    BY <2>1, <2>2, SparedKept DEF NameKept
<1>13. ASSUME DropPlain PROVE SparedInv'
  <2>1. /\ task \in Tasks /\ task \in AtHand /\ run.cmd = "add"
        /\ Plain(Name(task)) \in Paths /\ Plain(Name(task))[1] = Name(task)
    <3>1. task \in Tasks /\ task \in AtHand /\ run.cmd = "add"
      BY <1>13, <1>0, InHand, TasksAtHand, TaskFacts DEF DropPlain, HandInv
    <3>. QED
      BY <3>1, TaskFacts, PathFacts
  <2>2. /\ pc \in Working /\ task' = NoTask /\ UNCHANGED <<tasks, synced, run, raced>>
        /\ \A q \in Paths \ {Plain(Name(task))} : file'[q] = file[q]
    BY <1>13, <1>0, <1>w, <2>1 DEF DropPlain, TaskDone, TypeOK, Name
  <2>3. AtHand' \subseteq AtHand /\ task \notin AtHand'
    BY <2>2, TasksAtHand DEF AtHand
  <2>4. \A u \in AtHand' : NameKept(Name(u))
    <3>1. \A u \in AtHand' : Name(u) # Name(task)
      BY <2>1, <2>3, TasksAtHand DEF OnePerName
    <3>. QED
      BY <2>1, <2>2, <3>1 DEF NameKept, SameContent
  <2>. QED
    BY <2>2, <2>3, <2>4, SparedKept
<1>14. ASSUME FailTask PROVE SparedInv'
  <2>1. pc' \notin Working
    BY <1>14 DEF FailTask, Working
  <2>. QED
    BY <2>1 DEF SparedInv
<1>15. ASSUME TasksDone PROVE SparedInv'
  <2>1. pc' \notin Working
    BY <1>15 DEF TasksDone, Working
  <2>. QED
    BY <2>1 DEF SparedInv
<1>16. ASSUME Commit \/ Fail \/ Crash PROVE SparedInv'
  <2>1. pc' \notin Working
    BY <1>16 DEF Commit, Fail, Crash, Quit, Working
  <2>. QED
    BY <2>1 DEF SparedInv
<1>17. ASSUME NEW p \in Paths, NEW c \in Contents, Edit(p, c) PROVE SparedInv'
  <2>. SUFFICES ASSUME pc \in Working PROVE SparedInv'
    BY <1>17 DEF Edit, Touch, SparedInv
  <2>1. /\ UNCHANGED <<tasks, task, synced, run>> /\ AtHand' = AtHand /\ raced' = raced \cup {p}
        /\ \A q \in Paths \ {p} : file'[q] = file[q]
    BY <1>17, <1>0 DEF Edit, Touch, AtHand, TypeOK, Working
  <2>2. \A t \in AtHand' : ~Raced(Name(t))' => NameKept(Name(t))
    BY <2>1 DEF Raced, NameKept, SameContent, Name
  <2>. QED
    BY <2>1, <2>2, SparedKept
<1>18. ASSUME NEW p \in Paths, Remove(p) PROVE SparedInv'
  <2>. SUFFICES ASSUME pc \in Working PROVE SparedInv'
    BY <1>18 DEF Remove, Touch, SparedInv
  <2>1. /\ UNCHANGED <<tasks, task, synced, run>> /\ AtHand' = AtHand /\ raced' = raced \cup {p}
        /\ \A q \in Paths \ {p} : file'[q] = file[q]
    BY <1>18, <1>0 DEF Remove, Touch, AtHand, TypeOK, Working
  <2>2. \A t \in AtHand' : ~Raced(Name(t))' => NameKept(Name(t))
    BY <2>1 DEF Raced, NameKept, SameContent, Name
  <2>. QED
    BY <2>1, <2>2, SparedKept
<1>19. ASSUME UNCHANGED vars PROVE SparedInv'
  BY <1>19, <1>0 DEF vars, SparedInv, Careful, AtHand, Raced, SourceSpared, TargetSpared,
     PlainSpared, KnownSource, KnownTarget, Exists, Same, Encrypts, Name
<1>. QED
  BY StepsAre, <1>1, <1>2, <1>3, <1>4, <1>5, <1>6, <1>7, <1>8, <1>9, <1>10, <1>11,
     <1>12, <1>13, <1>14, <1>15, <1>16, <1>17, <1>18, <1>19 DEF Acts

-----------------------------------------------------------------------------
(* Quiet runs *)

(* In quiet what a task copies stays there: only add's replaced plain      *)
(* sources and forget's sources go.                                        *)
LEMMA PresentStep ==
  ASSUME SafetyInv, [Next]_vars
  PROVE  PresentInv'
<1>0. /\ TypeOK /\ TypeInv /\ TimeInv /\ QueueInv /\ HandInv /\ SyncedInv /\ StampInv /\ RecordsInv
      /\ PresentInv /\ tasks \subseteq Tasks /\ tasks \subseteq AtHand /\ NoTask \notin tasks
      /\ \A t \in AtHand : /\ t \in Tasks /\ t.slot \in Slots /\ t.slot \in Paths
                           /\ TargetFile(Name(t)) \in Paths /\ TargetFile(Name(t)) \notin Slots
      /\ file \in [Paths -> Entries \cup {Absent}]
  BY Basics, TasksAtHand, TaskFacts, PathFacts
<1>w. pc \in {"check", "exec", "copy", "record", "stamp", "drop"} => pc \in Working
  BY DEF Working
<1>k. ASSUME pc \in Working, AtHand' \subseteq AtHand, \A p \in Paths : Exists(p) => file'[p] # Absent
      PROVE  PresentInv'
  BY <1>0, <1>k DEF PresentInv, Exists, Name
<1>20. ASSUME NEW t, Completes(t) PROVE PresentInv'
  <2>1. /\ pc \in Working /\ AtHand' = AtHand /\ file'[To(t)] # Absent
        /\ \A q \in Paths \ {To(t)} : file'[q] = file[q]
    BY <1>20, <1>w, CopyCompletes
  <2>. QED
    BY <1>k, <2>1 DEF Exists
<1>1. ASSUME NEW r \in Runs, Start(r) PROVE PresentInv'
  <2>1. AtHand' = {}
    BY <1>1, <1>0, InHand DEF Start, QueueInv, AtHand
  <2>. QED
    BY <2>1 DEF PresentInv
<1>2. ASSUME NEW p \in todo, Check(p) PROVE PresentInv'
  <2>1. /\ pc = "check" /\ pc \in Working /\ UNCHANGED <<file, run, task, raced>>
        /\ task = NoTask /\ AtHand = tasks /\ AtHand' = tasks'
    BY <1>2, <1>0, <1>w, CheckIs, InHand DEF AtHand
  <2>2. CASE tasks' = tasks
    BY <1>k, <2>1, <2>2 DEF Exists
  <2>3. ASSUME NEW t, GoodTask(p, t), tasks' = tasks \cup {t} PROVE PresentInv'
    <3>1. /\ t.op \in {"push", "record"} => Exists(TargetFile(Name(t)))
          /\ t.op = "pull" => Exists(t.slot)
      BY <2>3, TaskFacts, PathFacts DEF GoodTask, Agreement, Name
    <3>. QED
      BY <1>0, <2>1, <2>3, <3>1 DEF PresentInv, Exists, Name
  <2>. QED
    BY <1>2, <1>0, <2>2, <2>3, CheckIs
<1>3. ASSUME Decide PROVE PresentInv'
  <2>1. /\ UNCHANGED <<file, task>> /\ pc \in Working /\ AtHand' = AtHand \cup OrphanTasks
    BY <1>3, <1>w DEF Decide, AtHand
  <2>. QED
    BY <1>0, <2>1, OrphansAre DEF PresentInv, Exists, Name
<1>4. ASSUME NEW t \in tasks, BeginCopy(t) PROVE PresentInv'
  <2>1. /\ pc \in Working /\ AtHand' = AtHand /\ file'[To(t)] # Absent
        /\ \A q \in Paths \ {To(t)} : file'[q] = file[q]
    BY <1>4, <1>w, CopyBegins
  <2>. QED
    BY <1>k, <2>1 DEF Exists
<1>5. ASSUME NEW t \in tasks, Encrypt(t) PROVE PresentInv'
  BY <1>5, <1>20 DEF Completes
<1>6. ASSUME NEW t \in tasks, RecordOnly(t) PROVE PresentInv'
  <2>1. pc \in Working /\ UNCHANGED file
    BY <1>6, <1>w DEF RecordOnly
  <2>2. AtHand' \subseteq AtHand
    BY <1>6, <1>0 DEF RecordOnly, AtHand
  <2>. QED
    BY <1>k, <2>1, <2>2 DEF Exists
<1>7. ASSUME NEW t \in tasks, Delete(t) PROVE PresentInv'
  <2>1. run'.cmd = "forget" /\ AtHand' \subseteq AtHand /\ run' = run
    BY <1>7, <1>0, TasksAtHand DEF Delete, AtHand
  <2>2. \A u \in AtHand' : u.op \in {"delete", "unlist"}
    BY <2>1, TasksAtHand
  <2>. QED
    BY <2>2 DEF PresentInv
<1>8. ASSUME NEW t \in tasks, SkipTask(t) PROVE PresentInv'
  <2>1. pc \in Working /\ UNCHANGED file
    BY <1>8, <1>w DEF SkipTask
  <2>2. AtHand' \subseteq AtHand
    BY <1>8, <1>0 DEF SkipTask, AtHand
  <2>. QED
    BY <1>k, <2>1, <2>2 DEF Exists
<1>9. ASSUME FinishCopy PROVE PresentInv'
  BY <1>9, <1>20 DEF Completes
<1>10. ASSUME Record PROVE PresentInv'
  <2>1. pc \in Working /\ UNCHANGED file
    BY <1>10, <1>w DEF Record
  <2>2. AtHand' \subseteq AtHand
    BY <1>10, <1>0 DEF Record, AtHand
  <2>. QED
    BY <1>k, <2>1, <2>2 DEF Exists
<1>11. ASSUME Stamp PROVE PresentInv'
  <2>1. pc \in Working /\ \A p \in Paths : Exists(p) => file'[p] # Absent
    BY <1>0, <1>w, <1>11, RestampIs DEF Restamp, Exists
  <2>2. AtHand' \subseteq AtHand
    BY <1>11, <1>0, Ended DEF Stamp, TaskDone
  <2>. QED
    BY <1>k, <2>1, <2>2
<1>12. ASSUME StampDenied PROVE PresentInv'
  <2>1. pc \in Working /\ \A p \in Paths : Exists(p) => file'[p] # Absent
    BY <1>0, <1>w, <1>12, RestampIs DEF Restamp, Exists
  <2>2. AtHand' \subseteq AtHand
    BY <1>12, <1>0, Ended DEF StampDenied
  <2>. QED
    BY <1>k, <2>1, <2>2
<1>13. ASSUME DropPlain PROVE PresentInv'
  <2>1. /\ task \in AtHand /\ run.cmd = "add" /\ Plain(Name(task)) \in Slots
        /\ Plain(Name(task)) \in Paths /\ pc \in Working
    <3>1. task \in Tasks /\ task \in AtHand /\ run.cmd = "add"
      BY <1>13, <1>0, InHand, TasksAtHand, TaskFacts DEF DropPlain, HandInv
    <3>. QED
      BY <1>13, <1>w, <3>1, TaskFacts, PathFacts DEF DropPlain
  <2>2. /\ AtHand' \subseteq AtHand
        /\ \A q \in Paths \ {Plain(Name(task))} : file'[q] = file[q]
    BY <1>13, <1>0, <2>1 DEF DropPlain, TaskDone, AtHand, Name
  <2>3. \A u \in AtHand : u.op # "pull"
    BY <2>1, TasksAtHand
  <2>. QED
    BY <1>0, <2>1, <2>2, <2>3 DEF PresentInv, Exists, Name
<1>14. ASSUME FailTask PROVE PresentInv'
  <2>1. pc' \notin Working
    BY <1>14 DEF FailTask, Working
  <2>. QED
    BY <2>1 DEF PresentInv
<1>15. ASSUME TasksDone PROVE PresentInv'
  <2>1. pc' \notin Working
    BY <1>15 DEF TasksDone, Working
  <2>. QED
    BY <2>1 DEF PresentInv
<1>16. ASSUME Commit \/ Fail \/ Crash PROVE PresentInv'
  <2>1. pc' \notin Working
    BY <1>16 DEF Commit, Fail, Crash, Quit, Working
  <2>. QED
    BY <2>1 DEF PresentInv
<1>17. ASSUME NEW p \in Paths, NEW c \in Contents, Edit(p, c) PROVE PresentInv'
  <2>1. Quiet => pc' \notin Working
    BY <1>17 DEF Edit, Touch, Quiet, Working
  <2>. QED
    BY <2>1 DEF PresentInv
<1>18. ASSUME NEW p \in Paths, Remove(p) PROVE PresentInv'
  <2>1. Quiet => pc' \notin Working
    BY <1>18 DEF Remove, Touch, Quiet, Working
  <2>. QED
    BY <2>1 DEF PresentInv
<1>19. ASSUME UNCHANGED vars PROVE PresentInv'
  BY <1>19, <1>0 DEF vars, PresentInv, AtHand, Exists, Name
<1>. QED
  BY StepsAre, <1>1, <1>2, <1>3, <1>4, <1>5, <1>6, <1>7, <1>8, <1>9, <1>10, <1>11,
     <1>12, <1>13, <1>14, <1>15, <1>16, <1>17, <1>18, <1>19 DEF Acts

(* In quiet nothing fails once the tasks have begun.                       *)
LEMMA QuietSucceeds ==
  ASSUME SafetyInv, Quiet
  PROVE  ~StampDenied /\ ~FailTask /\ ~Crash
<1>0. PresentInv /\ HandInv /\ TypeOK /\ Considerate
  BY Basics, Manners
<1>1. ~StampDenied /\ ~Crash /\ "error" \notin Faults
  BY DEF Quiet, StampDenied, Crash
<1>2. ASSUME FailTask PROVE FALSE
  <2>1. ASSUME pc = "exec", NEW t \in tasks, Copies(t), CannotGoOn(t) PROVE FALSE
    <3>1. t \in AtHand /\ t \in Tasks /\ pc \in Working
      BY <2>1, TasksAtHand DEF Working
    <3>2. Exists(From(t))
      BY <1>0, <2>1, <3>1, TaskFacts, PathFacts DEF PresentInv, Name
    <3>. QED
      BY <1>1, <2>1, <3>2 DEF CannotGoOn, Needs
  <2>2. ASSUME pc \in {"copy", "record", "stamp", "drop"}, CannotGoOn(task) PROVE FALSE
    <3>1. task \in AtHand /\ task \in Tasks /\ pc \in Working
      BY <1>0, <2>2, InHand, TasksAtHand, TaskFacts DEF Working
    <3>2. CASE pc = "copy"
      <4>1. Exists(From(task))
        BY <1>0, <3>1, <3>2, TaskFacts, PathFacts DEF PresentInv, HandInv, Name
      <4>. QED
        BY <1>1, <2>2, <3>2, <4>1 DEF CannotGoOn, Needs
    <3>3. CASE pc \in {"record", "stamp"}
      <4>1. Exists(task.slot)
        BY <1>0, <3>3, Manners DEF HandInv, Settled
      <4>2. Exists(TargetOf(task.slot))
        <5>1. CASE Copies(task)
          BY <1>0, <3>3, <5>1, Manners DEF HandInv, Settled
        <5>2. CASE ~Copies(task)
          <6>1. task.op = "record"
            BY <1>0, <3>3, <5>2 DEF HandInv, Copies
          <6>. QED
            BY <1>0, <3>1, <6>1, TaskFacts, PathFacts DEF PresentInv, Name
        <5>. QED
          BY <5>1, <5>2
      <4>. QED
        BY <1>1, <2>2, <3>3, <4>1, <4>2 DEF CannotGoOn, Needs
    <3>4. CASE pc = "drop"
      BY <1>1, <2>2, <3>4 DEF CannotGoOn, Needs
    <3>. QED
      BY <2>2, <3>2, <3>3, <3>4
  <2>. QED
    BY <1>2, <2>1, <2>2 DEF FailTask
<1>. QED
  BY <1>1, <1>2

(* In quiet every step keeps the records to what was last in common. *)
LEMMA RecordsStep ==
  ASSUME SafetyInv, [Next]_vars
  PROVE  RecordsInv'
<1>. SUFFICES ASSUME Quiet PROVE RecordsInv'
  BY DEF RecordsInv
<1>0. /\ TypeOK /\ TypeInv /\ MemInv /\ HandInv /\ SyncedInv /\ StampInv /\ RecordsInv
      /\ tasks \subseteq Tasks /\ Considerate
      /\ mem \in [Slots -> Records \cup {Absent}]
      /\ synced \in [Slots -> AllContents \cup {Absent}]
  BY Basics, Manners
<1>. USE DEF RecordsInv
<1>20. ASSUME NEW t, Completes(t) PROVE RecordsInv'
  <2>1. /\ t.slot \in Slots /\ task' = t /\ pc' = "record" /\ pc \notin {"idle", "record"}
        /\ UNCHANGED <<disk, mem>> /\ \A s \in Slots \ {t.slot} : synced'[s] = synced[s]
    BY <1>20, CopyCompletes
  <2>. QED
    BY <1>0, <2>1
<1>1. ASSUME NEW r \in Runs, Start(r) PROVE RecordsInv'
  <2>1. UNCHANGED <<disk, synced>> /\ mem' = disk /\ pc = "idle" /\ pc' = "check"
    BY <1>1 DEF Start
  <2>. QED
    BY <1>0, <2>1
<1>2. ASSUME NEW p \in todo, Check(p) PROVE RecordsInv'
  <2>1. UNCHANGED <<disk, mem>> /\ mem = disk /\ pc = "check" /\ pc' \in {"check", "failed"}
    BY <1>2, <1>0, CheckIs DEF MemInv
  <2>2. CASE synced' = synced
    BY <1>0, <2>1, <2>2
  <2>3. ASSUME NEW t, GoodTask(p, t),
               synced' = [s \in Slots |-> IF t.op = "record" /\ s = t.slot
                                          THEN file[s].content ELSE synced[s]]
        PROVE  RecordsInv'
    BY <1>0, <2>1, <2>3 DEF GoodTask, Agreement
  <2>. QED
    BY <1>2, <1>0, <2>2, <2>3, CheckIs
<1>3. ASSUME Decide PROVE RecordsInv'
  <2>1. /\ UNCHANGED <<disk, mem, synced>> /\ mem = disk /\ pc = "check"
        /\ pc' \in {"failed", "exec", "commit"}
    BY <1>3, <1>0 DEF Decide, MemInv
  <2>. QED
    BY <1>0, <2>1
<1>4. ASSUME NEW t \in tasks, BeginCopy(t) PROVE RecordsInv'
  <2>1. /\ UNCHANGED <<disk, mem, synced>> /\ pc' \notin {"idle", "failed"}
        /\ pc \notin {"idle", "record"}
    BY <1>4 DEF BeginCopy
  <2>. QED
    BY <1>0, <2>1
<1>5. ASSUME NEW t \in tasks, Encrypt(t) PROVE RecordsInv'
  BY <1>5, <1>20 DEF Completes
<1>6. ASSUME NEW t \in tasks, RecordOnly(t) PROVE RecordsInv'
  <2>1. /\ UNCHANGED <<disk, mem, synced>> /\ pc' \notin {"idle", "failed"}
        /\ pc \notin {"idle", "record"}
    BY <1>6 DEF RecordOnly
  <2>. QED
    BY <1>0, <2>1
<1>7. ASSUME NEW t \in tasks, Delete(t) PROVE RecordsInv'
  <2>1. UNCHANGED <<disk, synced>> /\ pc' = "exec" /\ pc \notin {"idle", "record"}
    BY <1>7 DEF Delete
  <2>2. \A s \in Slots : mem'[s] \in {mem[s], Absent}
    BY <1>7, <1>0, InHand, Shapes DEF Delete
  <2>. QED
    BY <1>0, <2>1, <2>2
<1>8. ASSUME NEW t \in tasks, SkipTask(t) PROVE RecordsInv'
  <2>1. /\ UNCHANGED <<disk, mem, synced>> /\ pc' \notin {"idle", "failed"}
        /\ pc \notin {"idle", "record"}
    BY <1>8 DEF SkipTask
  <2>. QED
    BY <1>0, <2>1
<1>9. ASSUME FinishCopy PROVE RecordsInv'
  BY <1>9, <1>20 DEF Completes
<1>10. ASSUME Record PROVE RecordsInv'
  <2>. DEFINE s == task.slot
  <2>1. /\ s \in Slots /\ UNCHANGED <<disk, synced>> /\ pc = "record" /\ pc' = "stamp"
        /\ mem'[s] = Recorded(s) /\ \A u \in Slots \ {s} : mem'[u] = mem[u]
    BY <1>10, <1>0, InHand, Shapes DEF Record
  <2>2. mem'[s].sha256 = synced[s]
    BY <1>0, <2>1, Manners DEF HandInv, Settled, Recorded
  <2>. HIDE DEF s
  <2>3. \A u \in Slots \ {s} : mem[u] # Absent => mem[u].sha256 = synced[u]
    BY <1>0, <2>1 DEF s
  <2>. QED
    BY <2>1, <2>2, <2>3
<1>11. ASSUME Stamp PROVE RecordsInv'
  <2>1. /\ UNCHANGED <<disk, mem, synced>> /\ pc' \notin {"idle", "failed"}
        /\ pc \notin {"idle", "record"}
    BY <1>11 DEF Stamp, TaskDone
  <2>. QED
    BY <1>0, <2>1
<1>12. ASSUME StampDenied PROVE RecordsInv'
  BY <1>12, QuietSucceeds
<1>13. ASSUME DropPlain PROVE RecordsInv'
  <2>1. UNCHANGED <<disk, synced>> /\ pc' = "exec" /\ pc \notin {"idle", "record"}
    BY <1>13 DEF DropPlain, TaskDone
  <2>2. \A s \in Slots : mem'[s] \in {mem[s], Absent}
    BY <1>13, <1>0, InHand, Shapes DEF DropPlain, TaskDone
  <2>. QED
    BY <1>0, <2>1, <2>2
<1>14. ASSUME FailTask PROVE RecordsInv'
  BY <1>14, QuietSucceeds
<1>15. ASSUME TasksDone PROVE RecordsInv'
  <2>1. /\ UNCHANGED <<disk, mem, synced>> /\ pc' \notin {"idle", "failed"}
        /\ pc \notin {"idle", "record"}
    BY <1>15 DEF TasksDone
  <2>. QED
    BY <1>0, <2>1
<1>16. ASSUME Commit \/ Fail \/ Crash PROVE RecordsInv'
  <2>1. /\ UNCHANGED synced /\ pc \in {"commit", "failed"} /\ pc' = "idle"
        /\ disk' = mem \/ (pc = "failed" /\ run.cmd # "forget" /\ disk' = disk)
    BY <1>16, QuietSucceeds DEF Commit, Fail, Quit
  <2>. QED
    BY <1>0, <2>1
<1>17. ASSUME NEW p \in Paths, NEW c \in Contents, Edit(p, c) PROVE RecordsInv'
  <2>1. UNCHANGED <<disk, mem, synced, pc>> /\ pc = "idle"
    BY <1>17 DEF Edit, Touch, Quiet
  <2>. QED
    BY <1>0, <2>1
<1>18. ASSUME NEW p \in Paths, Remove(p) PROVE RecordsInv'
  <2>1. UNCHANGED <<disk, mem, synced, pc>> /\ pc = "idle"
    BY <1>18 DEF Remove, Touch, Quiet
  <2>. QED
    BY <1>0, <2>1
<1>19. ASSUME UNCHANGED vars PROVE RecordsInv'
  BY <1>19, <1>0 DEF vars
<1>. QED
  BY StepsAre, <1>1, <1>2, <1>3, <1>4, <1>5, <1>6, <1>7, <1>8, <1>9, <1>10, <1>11,
     <1>12, <1>13, <1>14, <1>15, <1>16, <1>17, <1>18, <1>19 DEF Acts

-----------------------------------------------------------------------------
(* The invariant, and the theorems it was made for *)

(* A new installation, or one left in sync, is in order.                   *)
LEMMA InitSafe == Init => SafetyInv
<1>. SUFFICES ASSUME Init PROVE SafetyInv
  OBVIOUS
<1>1. PICK content \in [Files -> Contents] :
        /\ file = [p \in Paths |-> InitialFile(content, p)]
        /\ disk = [s \in Slots |-> IF s \in Managed
                                  THEN [mtime |-> 0, sha256 |-> content[s[1]]]
                                  ELSE Absent]
        /\ synced = [s \in Slots |-> IF s \in Managed THEN content[s[1]] ELSE Absent]
  BY DEF Init
<1>2. /\ TypeInv /\ clock = 0 /\ pc = "idle" /\ tasks = {} /\ task = NoTask /\ mem = NoRecords
      /\ \A s \in Slots : mem[s] = Absent
  BY InitTyped DEF Init, NoRecords
<1>3. \A p \in Paths : Exists(p) => file[p].mtime = 0 /\ file[p].content = content[p[1]]
  BY <1>1 DEF InitialFile, Exists
<1>4. \A s \in Slots : disk[s] # Absent =>
        disk[s].mtime = 0 /\ disk[s].sha256 = content[s[1]] /\ synced[s] = content[s[1]]
  BY <1>1
<1>5. \A s \in Slots : s \in Paths /\ TargetOf(s) \in Paths /\ TargetOf(s)[1] = s[1]
                       /\ TargetOf(s) = TargetFile(s[1])
  BY PathFacts
<1>6. AtHand = {} /\ pc \notin Working
  BY <1>2 DEF AtHand, Working
<1>7. TimeInv
  BY <1>2, <1>3, <1>4 DEF TimeInv
<1>8. QueueInv /\ HandInv /\ PresentInv /\ SparedInv
  BY <1>2, <1>6 DEF QueueInv, HandInv, PresentInv, SparedInv
<1>13. PlainInv
  <2>. SUFFICES ASSUME PlainOnly, NEW f \in Files
                PROVE  ~Exists(Enc(f)) /\ disk[Enc(f)] = Absent
    BY <1>2, <1>6, PathFacts DEF PlainInv
  <2>1. /\ Enc(f) \in Slots /\ Enc(f) \in Paths /\ Enc(f) \notin Managed
        /\ \A s \in Managed : Enc(f) # TargetOf(s)
    BY PathFacts, CoreAssumption DEF PlainOnly
  <2>. QED
    BY <1>1, <2>1 DEF InitialFile, Exists
<1>9. MemInv
  BY <1>2 DEF MemInv, Unrecorded
<1>10. SyncedInv
  <2>1. \A s \in Slots : \A r \in {disk[s], mem[s]} : r # Absent =>
          r.sha256 = synced[s]
    BY <1>2, <1>4
  <2>. QED
    BY <1>5, <2>1 DEF SyncedInv, KnownSource, KnownTarget
<1>11. StampInv
  BY <1>2, <1>3, <1>4, <1>5 DEF StampInv
<1>12. RecordsInv
  BY <1>2, <1>4 DEF RecordsInv
<1>. QED
  BY <1>2, <1>7, <1>8, <1>9, <1>10, <1>11, <1>12, <1>13 DEF SafetyInv

(* Every step keeps everything in order.                                   *)
LEMMA SafetyKept == SafetyInv /\ [Next]_vars => SafetyInv'
<1>. SUFFICES ASSUME SafetyInv, [Next]_vars PROVE SafetyInv'
  OBVIOUS
<1>1. TypeInv'
  BY Basics, TypeInvKept
<1>2. TimeInv' /\ QueueInv' /\ MemInv' /\ HandInv'
  BY TimeStep, QueueStep, MemStep, HandStep
<1>3. SyncedInv' /\ StampInv' /\ SparedInv'
  BY SyncedStep, StampStep, SparedStep
<1>4. PresentInv' /\ RecordsInv' /\ PlainInv'
  BY PresentStep, RecordsStep, PlainStep
<1>. QED
  BY <1>1, <1>2, <1>3, <1>4 DEF SafetyInv

(* What NoLostEdit demands of the loss of the content of p by a step       *)
LossExcused(p) ==
  /\ ByDfm /\ Overwritten(p)
  /\ run.cmd = "sync" \/ (run.cmd \in {"add", "pull"} /\ ~run.force)
  /\ ~Raced(p[1]) /\ file[p].content # Torn
  => HeldElsewhere(p) \/ Unedited(p)

(* No step of a run loses an edit.                                         *)
LEMMA LossesExcused ==
  ASSUME Considerate, SafetyInv, [Next]_vars, NEW p \in Paths
  PROVE  LossExcused(p)
<1>. SUFFICES ASSUME ByDfm, Overwritten(p), ~Raced(p[1]), file[p].content # Torn, Careful
              PROVE  HeldElsewhere(p) \/ Unedited(p)
  BY DEF LossExcused, Careful
<1>0. /\ TypeOK /\ TypeInv /\ TimeInv /\ HandInv /\ SyncedInv /\ StampInv /\ RecordsInv /\ SparedInv
      /\ tasks \subseteq AtHand /\ \A t \in AtHand : t \in Tasks
      /\ file \in [Paths -> Entries \cup {Absent}]
  BY Basics, TasksAtHand
<1>w. pc \in {"check", "exec", "copy", "record", "stamp", "drop"} => pc \in Working
  BY DEF Working
<1>u. file[p] # Absent /\ file'[p] # file[p] /\ Exists(p)
  BY DEF Overwritten, Exists
<1>s. ASSUME p \in Slots, SourceSpared(p) PROVE Unedited(p)
  BY <1>s, <1>u DEF SourceSpared, KnownSource, Unedited
<1>t. ASSUME NEW f \in Files, p = TargetFile(f), NEW a \in Slots, a[1] = f, TargetSpared(a),
             \A q \in Slots : q[1] = f => file'[q] = file[q]
      PROVE  HeldElsewhere(p) \/ Unedited(p)
  <2>1. p \notin Slots /\ p[1] = f /\ TargetOf(a) = p
    BY <1>t, PathFacts
  <2>2. CASE KnownTarget(f)
    <3>1. PICK s \in Slots : s[1] = f /\ file[p].content = synced[s]
      BY <1>t, <2>2 DEF KnownTarget
    <3>2. TargetOf(s) = p
      BY <1>t, <3>1, PathFacts
    <3>. QED
      BY <2>1, <3>1, <3>2 DEF Unedited
  <2>3. ASSUME NEW s \in Slots, s[1] = f, Exists(s), Same(s, p) PROVE HeldElsewhere(p)
    <3>1. file'[s] # Absent /\ file'[s].content = file[p].content /\ s # p /\ s \in Paths
      BY <1>t, <2>1, <2>3, PathFacts DEF Exists, Same
    <3>. QED
      BY <2>1, <2>3, <3>1 DEF HeldElsewhere
  <2>. QED
    BY <1>t, <1>u, <2>1, <2>2, <2>3 DEF TargetSpared
<1>20. ASSUME Restamp PROVE FALSE
  BY <1>0, <1>20, <1>u, RestampIs DEF Overwritten, Exists
<1>21. ASSUME UNCHANGED file PROVE FALSE
  BY <1>u, <1>21
<1>1. ASSUME NEW r \in Runs, Start(r) PROVE HeldElsewhere(p) \/ Unedited(p)
  <2>1. UNCHANGED file
    BY <1>1 DEF Start
  <2>. QED
    BY <2>1, <1>21
<1>2. ASSUME NEW q \in todo, Check(q) PROVE HeldElsewhere(p) \/ Unedited(p)
  <2>1. UNCHANGED file
    BY <1>2 DEF Check
  <2>. QED
    BY <2>1, <1>21
<1>3. ASSUME Decide PROVE HeldElsewhere(p) \/ Unedited(p)
  <2>1. UNCHANGED file
    BY <1>3 DEF Decide
  <2>. QED
    BY <2>1, <1>21
<1>4. ASSUME NEW t \in tasks, BeginCopy(t) PROVE HeldElsewhere(p) \/ Unedited(p)
  <2>1. /\ t \in AtHand /\ t \in Tasks /\ Copies(t) /\ To(t)[1] = Name(t)
        /\ t.op = "push" => To(t) = t.slot
        /\ t.op # "push" => To(t) = TargetFile(Name(t))
        /\ \A q \in Paths \ {To(t)} : file'[q] = file[q]
        /\ pc \in Working /\ t \in tasks /\ t.slot \in Slots /\ Name(t) \in Files
    BY <1>4, <1>w, CopyBegins, TaskFacts
  <2>2. p = To(t)
    BY <1>u, <2>1
  <2>3. /\ t.op = "push" => SourceSpared(t.slot)
        /\ t.op = "pull" => TargetSpared(t.slot)
        /\ t.slot[1] = Name(t)
    BY <1>0, <2>1, <2>2 DEF SparedInv, Name
  <2>4. CASE t.op = "push"
    BY <1>s, <2>1, <2>2, <2>3, <2>4
  <2>5. CASE t.op = "pull"
    <3>1. \A q \in Slots : file'[q] = file[q]
      BY <2>1, <2>5, PathFacts
    <3>. QED
      BY <1>t, <2>1, <2>2, <2>3, <2>5, <3>1
  <2>. QED
    BY <2>1, <2>4, <2>5 DEF Copies
<1>5. ASSUME NEW t \in tasks, Encrypt(t) PROVE HeldElsewhere(p) \/ Unedited(p)
  <2>1. /\ t \in AtHand /\ t \in Tasks /\ t.op = "push" /\ To(t)[1] = Name(t) /\ To(t) = t.slot
        /\ \A q \in Paths \ {To(t)} : file'[q] = file[q]
        /\ pc \in Working /\ t \in tasks /\ t.slot \in Slots
    BY <1>5, <1>w, CopyCompletes, TaskFacts DEF Completes, Encrypt
  <2>2. p = To(t)
    BY <1>u, <2>1
  <2>3. SourceSpared(t.slot)
    BY <1>0, <2>1, <2>2 DEF SparedInv
  <2>. QED
    BY <1>s, <2>1, <2>2, <2>3
<1>6. ASSUME NEW t \in tasks, RecordOnly(t) PROVE HeldElsewhere(p) \/ Unedited(p)
  <2>1. UNCHANGED file
    BY <1>6 DEF RecordOnly
  <2>. QED
    BY <2>1, <1>21
<1>7. ASSUME NEW t \in tasks, Delete(t) PROVE HeldElsewhere(p) \/ Unedited(p)
  <2>1. t \in AtHand /\ run.cmd = "forget"
    BY <1>7, <1>0, TasksAtHand DEF Delete
  <2>. QED
    BY <2>1 DEF Careful
<1>8. ASSUME NEW t \in tasks, SkipTask(t) PROVE HeldElsewhere(p) \/ Unedited(p)
  <2>1. UNCHANGED file
    BY <1>8 DEF SkipTask
  <2>. QED
    BY <2>1, <1>21
<1>9. ASSUME FinishCopy PROVE HeldElsewhere(p) \/ Unedited(p)
  <2>1. /\ pc = "copy" /\ To(task)[1] = Name(task)
        /\ \A q \in Paths \ {To(task)} : file'[q] = file[q]
    BY <1>9, CopyCompletes DEF Completes, FinishCopy
  <2>2. p = To(task)
    BY <1>u, <2>1
  <2>. QED
    BY <1>0, <2>1, <2>2 DEF HandInv
<1>10. ASSUME Record PROVE HeldElsewhere(p) \/ Unedited(p)
  <2>1. UNCHANGED file
    BY <1>10 DEF Record
  <2>. QED
    BY <2>1, <1>21
<1>11. ASSUME Stamp PROVE HeldElsewhere(p) \/ Unedited(p)
  BY <1>11, <1>20 DEF Restamp
<1>12. ASSUME StampDenied PROVE HeldElsewhere(p) \/ Unedited(p)
  BY <1>12, <1>20 DEF Restamp
<1>13. ASSUME DropPlain PROVE HeldElsewhere(p) \/ Unedited(p)
  <2>. DEFINE f == Name(task)
  <2>1. /\ pc = "drop" /\ task \in Tasks /\ task \in AtHand /\ Encrypts(task) /\ run.cmd = "add"
        /\ pc \in Working
    BY <1>13, <1>0, <1>w, InHand, TasksAtHand, TaskFacts DEF DropPlain, HandInv
  <2>2. /\ Plain(f) \in Slots /\ Plain(f) \in Paths /\ Plain(f)[1] = f
        /\ TargetFile(f) \in Paths /\ TargetFile(f) # Plain(f) /\ TargetFile(f)[1] = f
    BY <2>1, TaskFacts, PathFacts
  <2>3. \A q \in Paths \ {Plain(f)} : file'[q] = file[q]
    BY <1>13, <1>0, <2>2 DEF DropPlain, Name
  <2>4. p = Plain(f)
    BY <1>u, <2>3
  <2>5. PlainSpared(f)
    BY <1>0, <2>1, <2>2, <2>4 DEF SparedInv
  <2>. HIDE DEF f
  <2>6. CASE KnownSource(p)
    BY <1>s, <2>2, <2>4, <2>6 DEF SourceSpared
  <2>7. CASE Exists(TargetFile(f)) /\ Same(p, TargetFile(f))
    <3>1. file'[TargetFile(f)] # Absent /\ file'[TargetFile(f)].content = file[p].content
      BY <2>2, <2>3, <2>7 DEF Exists, Same
    <3>. QED
      BY <2>2, <2>4, <3>1 DEF HeldElsewhere
  <2>. QED
    BY <1>u, <2>4, <2>5, <2>6, <2>7 DEF PlainSpared
<1>14. ASSUME FailTask PROVE HeldElsewhere(p) \/ Unedited(p)
  <2>1. CASE pc = "stamp"
    BY <1>14, <1>20, <2>1 DEF Restamp
  <2>2. CASE pc = "copy" /\ task.slot[2] = "enc"
    <3>1. \A q \in Paths \ {To(task)} : file'[q] = file[q]
      BY <1>14, <1>0, <2>2 DEF FailTask
    <3>2. p = To(task) /\ To(task)[1] = Name(task)
      BY <1>0, <1>u, <2>2, <3>1, InHand, TaskFacts
    <3>. QED
      BY <1>0, <2>2, <3>2 DEF HandInv
  <2>3. CASE pc # "stamp" /\ ~(pc = "copy" /\ task.slot[2] = "enc")
    BY <1>14, <1>21, <2>3 DEF FailTask
  <2>. QED
    BY <2>1, <2>2, <2>3
<1>15. ASSUME TasksDone PROVE HeldElsewhere(p) \/ Unedited(p)
  <2>1. UNCHANGED file
    BY <1>15 DEF TasksDone
  <2>. QED
    BY <2>1, <1>21
<1>16. ASSUME Commit \/ Fail \/ Crash PROVE HeldElsewhere(p) \/ Unedited(p)
  <2>1. UNCHANGED file
    BY <1>16 DEF Commit, Fail, Crash, Quit
  <2>. QED
    BY <2>1, <1>21
<1>17. ASSUME NEW q \in Paths, NEW c \in Contents, Edit(q, c) PROVE HeldElsewhere(p) \/ Unedited(p)
  BY <1>17 DEF Edit, Touch, ByDfm
<1>18. ASSUME NEW q \in Paths, Remove(q) PROVE HeldElsewhere(p) \/ Unedited(p)
  BY <1>18 DEF Remove, Touch, ByDfm
<1>19. ASSUME UNCHANGED vars PROVE HeldElsewhere(p) \/ Unedited(p)
  <2>1. UNCHANGED file
    BY <1>19 DEF vars
  <2>. QED
    BY <2>1, <1>21
<1>. QED
  BY StepsAre, <1>1, <1>2, <1>3, <1>4, <1>5, <1>6, <1>7, <1>8, <1>9, <1>10, <1>11,
     <1>12, <1>13, <1>14, <1>15, <1>16, <1>17, <1>18, <1>19 DEF Acts

(* No edit is lost, in any history of edits, runs, refusals, faults and    *)
(* crashes: unless forced, add and pull - and sync in any case - overwrite *)
(* or delete a file only if another file of the name holds its content, or *)
(* it is what a pair of it last had in common.  The user does not restore  *)
(* a recorded content, and may edit anything at any time but while a pair  *)
(* is being recorded, and a plain source that add has found identical; or, *)
(* where no source is encrypted, a target at any time at all; or he edits  *)
(* and restores anything, but between the runs, and nothing fails.         *)
THEOREM EditsAreKept ==
  ASSUME Considerate
  PROVE  Spec => NoLostEdit
<1>1. Init => SafetyInv
  BY InitSafe
<1>2. SafetyInv /\ [Next]_vars => SafetyInv'
  BY SafetyKept
<1>3. SafetyInv /\ [Next]_vars => [\A p \in Paths : LossExcused(p)]_vars
  BY LossesExcused
<1>4. ASSUME [\A p \in Paths : LossExcused(p)]_vars
      PROVE  [\A p \in Paths :
                /\ ByDfm /\ Overwritten(p)
                /\ run.cmd = "sync" \/ (run.cmd \in {"add", "pull"} /\ ~run.force)
                /\ ~Raced(p[1]) /\ file[p].content # Torn
                => HeldElsewhere(p) \/ Unedited(p)]_vars
  BY <1>4 DEF LossExcused
<1>. QED
  BY <1>1, <1>2, <1>3, <1>4, PTL DEF Spec, NoLostEdit

(* A pair that compares as not modified is equal, at any moment.           *)
LEMMA UnmodifiedSame ==
  ASSUME Undisturbed, SafetyInv, NEW s \in Slots, disk[s] # Absent, Exists(s),
         Exists(TargetOf(s)), Verdict(s, disk) = "NonModified"
  PROVE  Same(s, TargetOf(s))
<1>1. StampInv /\ disk[s] \in Records /\ file[s] \in Entries /\ file[TargetOf(s)] \in Entries
  BY Basics, PathFacts DEF Exists
<1>2. CASE s[2] = "enc"
  <2>1. CompareByTimestamps(file[TargetOf(s)], file[s], disk[s]) = "NonModified"
    BY <1>2 DEF Verdict, CompareFiles
  <2>2. file[s].mtime = disk[s].mtime /\ file[TargetOf(s)].mtime = disk[s].mtime
    BY <2>1, <1>1 DEF CompareByTimestamps, BothNewer
  <2>3. disk[s].mtime \in Nat
    BY <1>1 DEF Records
  <2>. QED
    BY <1>1, <1>2, <2>2, <2>3 DEF StampInv, Same
<1>3. CASE s[2] # "enc"
  <2>1. CompareByContent(file[TargetOf(s)], file[s], disk[s]) = "NonModified"
    BY <1>3 DEF Verdict, CompareFiles
  <2>. QED
    BY <2>1 DEF CompareByContent, Same
<1>. QED
  BY <1>2, <1>3

(* What compares as not modified is equal, in any history in which nobody  *)
(* edits a pair while it is being recorded, or no source is encrypted and  *)
(* the edits during runs are of targets: for an encrypted pair this rests  *)
(* on the order of the mtimes alone.                                       *)
THEOREM NotModifiedMeansEqual ==
  ASSUME Undisturbed
  PROVE  Spec => []UnmodifiedIsEqual
<1>1. Init => SafetyInv
  BY InitSafe
<1>2. SafetyInv /\ [Next]_vars => SafetyInv'
  BY SafetyKept
<1>3. SafetyInv => UnmodifiedIsEqual
  BY UnmodifiedSame DEF UnmodifiedIsEqual
<1>. QED
  BY <1>1, <1>2, <1>3, PTL DEF Spec

(* A slot's record is stored as it should be unless the source is edited.  *)
LEMMA RecordingIs ==
  ASSUME SafetyInv, [Next]_vars, NEW s \in Slots, Calm(s)
  PROVE  StoresSynced(s)
<1>1. disk' \in {disk, mem}
  BY StepsAre DEF Acts, Start, Check, BeginCopy, Encrypt, RecordOnly, Delete, SkipTask, Decide,
     FinishCopy, Record, Stamp, StampDenied, DropPlain, FailTask, TasksDone, Commit, Fail, Crash,
     Edit, Remove, Touch, TaskDone, vars
<1>. QED
  BY <1>1, Basics DEF MemInv, StoresSynced

(* Whatever fails, whenever a run is killed and whatever the user restores *)
(* or edits, a stored record has the digest of the content the pair last   *)
(* had in common, unless that very source was edited during the run.       *)
THEOREM RecordsAreOfTheSynced ==
  Spec => [][\A s \in Slots : s \in raced \/ StoresSynced(s)]_vars
<1>1. Init => SafetyInv
  BY InitSafe
<1>2. SafetyInv /\ [Next]_vars => SafetyInv'
  BY SafetyKept
<1>3. SafetyInv /\ [Next]_vars => [\A s \in Slots : s \in raced \/ StoresSynced(s)]_vars
  BY RecordingIs DEF Calm
<1>. QED
  BY <1>1, <1>2, <1>3, PTL DEF Spec

(* ... and then it matters only when: an edit while the check, the tasks   *)
(* or the copy are under way leaves the record right; one between the copy *)
(* and the digest (mod.rs:160), or after the check of a plain source that  *)
(* add found identical, does not.                                          *)
THEOREM EditsBeforeTheDigestAreHarmless ==
  ASSUME Attentive
  PROVE  Spec => StoresTheSynced
<1>1. Init => SafetyInv
  BY InitSafe
<1>2. SafetyInv /\ [Next]_vars => SafetyInv'
  BY SafetyKept
<1>3. SafetyInv /\ [Next]_vars => [\A s \in Slots : StoresSynced(s)]_vars
  BY RecordingIs, Manners
<1>. QED
  BY <1>1, <1>2, <1>3, PTL DEF Spec, StoresTheSynced
=============================================================================
