---------------------------- MODULE DfmRunProofs ----------------------------
(***************************************************************************)
(* What the runs of the core achieve, for every set of files, contents and *)
(* invocations.  When the user waits until a run is over and nothing fails,*)
(* they implement the abstract synchroniser of Replicas.  When nothing is  *)
(* refused permission, the pairs a run made equal compare as not modified, *)
(* sync leaves no managed pair modified, and sync leaves conflicts alone.  *)
(* When no pair is edited while it is being recorded, or nothing is        *)
(* encrypted and only targets are edited, what status lists is what the    *)
(* commands then do.  And no run goes on for ever, whatever happens to it. *)
(***************************************************************************)
EXTENDS DfmProofs, Status, FiniteSetTheorems

(* In quiet no file is torn but the one a copy is writing, and nobody races*)
(* a run.                                                                  *)
WholeInv ==
  /\ raced = {}
  /\ \A p \in Paths : Exists(p) /\ file[p].content = Torn => pc = "copy" /\ p = To(task)

(* Only a copy in progress leaves a torn file.                             *)
LEMMA WholeKept ==
  ASSUME WholeInv, raced' = {}, pc # "copy",
         \A p \in Paths : SameContent(p) \/ file'[p] = Absent
  PROVE  WholeInv'
BY DEF WholeInv, SameContent, Exists

(* Every step keeps files whole. *)
LEMMA WholeStep ==
  ASSUME Quiet, SafetyInv, WholeInv, [Next]_vars
  PROVE  WholeInv'
<1>0. /\ TypeOK /\ TypeInv /\ TimeInv /\ tasks \subseteq Tasks /\ raced = {}
      /\ file \in [Paths -> Entries \cup {Absent}]
  BY Basics DEF WholeInv
<1>20. ASSUME NEW t, Completes(t), Exists(From(t)),
              file'[To(t)].content = file[From(t)].content, pc = "copy" => t = task
       PROVE  WholeInv'
  <2>1. /\ t \in Tasks /\ To(t) \in Paths /\ From(t) \in Paths /\ From(t) # To(t)
        /\ \A q \in Paths \ {To(t)} : file'[q] = file[q] /\ UNCHANGED raced
    BY <1>20, CopyCompletes, TaskFacts
  <2>2. file[From(t)].content # Torn
    BY <1>20, <2>1 DEF WholeInv
  <2>. QED
    BY <1>0, <1>20, <2>1, <2>2 DEF WholeInv, Exists
<1>1. ASSUME NEW r \in Runs, Start(r) PROVE WholeInv'
  <2>1. UNCHANGED <<file, raced>> /\ pc # "copy"
    BY <1>1 DEF Start
  <2>. QED
    BY <1>0, <2>1, WholeKept DEF SameContent
<1>2. ASSUME NEW p \in todo, Check(p) PROVE WholeInv'
  <2>1. UNCHANGED <<file, raced>> /\ pc # "copy"
    BY <1>2 DEF Check
  <2>. QED
    BY <1>0, <2>1, WholeKept DEF SameContent
<1>3. ASSUME Decide PROVE WholeInv'
  <2>1. UNCHANGED <<file, raced>> /\ pc # "copy"
    BY <1>3 DEF Decide
  <2>. QED
    BY <1>0, <2>1, WholeKept DEF SameContent
<1>4. ASSUME NEW t \in tasks, BeginCopy(t) PROVE WholeInv'
  <2>1. /\ UNCHANGED raced /\ pc = "exec" /\ pc' = "copy" /\ task' = t
        /\ \A q \in Paths \ {To(t)} : file'[q] = file[q]
    BY <1>4, CopyBegins
  <2>2. To(task)' = To(t)
    BY <2>1 DEF To, TargetOf
  <2>. QED
    BY <1>0, <2>1, <2>2 DEF WholeInv, Exists
<1>5. ASSUME NEW t \in tasks, Encrypt(t) PROVE WholeInv'
  <2>1. Completes(t) /\ Exists(From(t)) /\ pc = "exec" /\ t.slot \in Slots /\ To(t) = t.slot
        /\ Write(t.slot, file[From(t)].content) /\ t.slot \in Paths
    BY <1>5, <1>0, TaskFacts, PathFacts DEF Completes, Encrypt
  <2>2. file'[To(t)].content = file[From(t)].content
    BY <1>0, <2>1, WriteIs
  <2>. QED
    BY <1>20, <2>1, <2>2
<1>6. ASSUME NEW t \in tasks, RecordOnly(t) PROVE WholeInv'
  <2>1. UNCHANGED <<file, raced>> /\ pc # "copy"
    BY <1>6 DEF RecordOnly
  <2>. QED
    BY <1>0, <2>1, WholeKept DEF SameContent
<1>7. ASSUME NEW t \in tasks, Delete(t) PROVE WholeInv'
  <2>1. UNCHANGED raced /\ pc # "copy" /\ \A q \in Paths : file'[q] \in {file[q], Absent}
    BY <1>7, <1>0, InHand, Shapes DEF Delete
  <2>. QED
    BY <1>0, <2>1, WholeKept DEF SameContent
<1>8. ASSUME NEW t \in tasks, SkipTask(t) PROVE WholeInv'
  <2>1. UNCHANGED <<file, raced>> /\ pc # "copy"
    BY <1>8 DEF SkipTask
  <2>. QED
    BY <1>0, <2>1, WholeKept DEF SameContent
<1>9. ASSUME FinishCopy PROVE WholeInv'
  <2>1. Completes(task) /\ Exists(From(task)) /\ pc = "copy" /\ task \in Tasks
        /\ Write(To(task), file[From(task)].content)
    BY <1>9, <1>0, InHand DEF Completes, FinishCopy
  <2>2. file'[To(task)].content = file[From(task)].content
    BY <1>0, <2>1, WriteIs, TaskFacts
  <2>. QED
    BY <1>20, <2>1, <2>2
<1>10. ASSUME Record PROVE WholeInv'
  <2>1. UNCHANGED <<file, raced>> /\ pc # "copy"
    BY <1>10 DEF Record
  <2>. QED
    BY <1>0, <2>1, WholeKept DEF SameContent
<1>11. ASSUME Stamp PROVE WholeInv'
  <2>1. /\ UNCHANGED raced /\ pc # "copy"
        /\ \A p \in Paths : SameContent(p)
    BY <1>0, <1>11, RestampIs DEF Restamp, SameContent, Exists
  <2>. QED
    BY <1>0, <2>1, WholeKept
<1>12. ASSUME StampDenied PROVE WholeInv'
  <2>1. /\ UNCHANGED raced /\ pc # "copy"
        /\ \A p \in Paths : SameContent(p)
    BY <1>0, <1>12, RestampIs DEF Restamp, SameContent, Exists
  <2>. QED
    BY <1>0, <2>1, WholeKept
<1>13. ASSUME DropPlain PROVE WholeInv'
  <2>1. UNCHANGED raced /\ pc # "copy" /\ \A q \in Paths : file'[q] \in {file[q], Absent}
    BY <1>13, <1>0, InHand, Shapes DEF DropPlain, TaskDone
  <2>. QED
    BY <1>0, <2>1, WholeKept DEF SameContent
<1>14. ASSUME FailTask PROVE WholeInv'
  BY <1>14, QuietSucceeds
<1>15. ASSUME TasksDone PROVE WholeInv'
  <2>1. UNCHANGED <<file, raced>> /\ pc # "copy"
    BY <1>15 DEF TasksDone
  <2>. QED
    BY <1>0, <2>1, WholeKept DEF SameContent
<1>16. ASSUME Commit \/ Fail \/ Crash PROVE WholeInv'
  <2>1. UNCHANGED file /\ raced' = {} /\ pc # "copy"
    BY <1>16, QuietSucceeds DEF Commit, Fail, Quit
  <2>. QED
    BY <1>0, <2>1, WholeKept DEF SameContent
<1>17. ASSUME NEW p \in Paths, NEW c \in Contents, Edit(p, c) PROVE WholeInv'
  <2>1. raced' = {} /\ pc = "idle" /\ \A q \in Paths \ {p} : file'[q] = file[q]
    BY <1>17, <1>0 DEF Edit, Touch, Quiet
  <2>2. file'[p] = Absent \/ file'[p].content # Torn
    BY <1>17, <1>0, CoreAssumption DEF Edit
  <2>. QED
    BY <2>1, <2>2 DEF WholeInv, Exists
<1>18. ASSUME NEW p \in Paths, Remove(p) PROVE WholeInv'
  <2>1. raced' = {} /\ pc = "idle" /\ \A q \in Paths \ {p} : file'[q] = file[q]
    BY <1>18, <1>0 DEF Remove, Touch, Quiet
  <2>2. file'[p] = Absent \/ file'[p].content # Torn
    BY <1>18, <1>0, CoreAssumption DEF Remove
  <2>. QED
    BY <2>1, <2>2 DEF WholeInv, Exists
<1>19. ASSUME UNCHANGED vars PROVE WholeInv'
  BY <1>19 DEF vars, WholeInv, Exists, To, TargetOf
<1>. QED
  BY StepsAre, <1>1, <1>2, <1>3, <1>4, <1>5, <1>6, <1>7, <1>8, <1>9, <1>10, <1>11,
     <1>12, <1>13, <1>14, <1>15, <1>16, <1>17, <1>18, <1>19 DEF Acts

-----------------------------------------------------------------------------
(* How the state of the core is seen as one of the abstract synchroniser *)

(* What a file holds, without its timestamp                                *)
Held(p) == IF Exists(p) THEN file[p].content ELSE Absent

(* The abstract paths and slots are those of the core.                     *)
LEMMA Alike ==
  /\ Abstract!Sources = Slots /\ Abstract!Copies = Paths
  /\ \A s \in Slots : Abstract!Target(s) = TargetOf(s)
BY DEF Abstract!Sources, Abstract!Copies, Abstract!Target, Paths, Targets, Slots, TargetOf

(* But for the copy in progress, files and agreements are seen as they are;*)
(* the copy in progress is seen as complete.                               *)
LEMMA Views ==
  ASSUME SafetyInv, Quiet
  PROVE  /\ pc # "copy" => /\ \A p \in Paths : Content(p) = Held(p)
                           /\ \A s \in Slots : Agreed(s) = synced[s]
         /\ pc = "copy" =>
              /\ task \in Tasks /\ Exists(From(task))
              /\ \A p \in Paths : Content(p) = IF p = To(task) THEN file[From(task)].content
                                                               ELSE Held(p)
              /\ \A s \in Slots : Agreed(s) = IF s = task.slot THEN file[From(task)].content
                                                             ELSE synced[s]
<1>1. ASSUME pc = "copy" PROVE task \in Tasks /\ Exists(From(task))
  <2>1. task \in Tasks /\ task \in AtHand /\ pc \in Working /\ Copies(task)
    BY <1>1, Basics, InHand, TaskFacts DEF HandInv, AtHand, Working
  <2>2. /\ task.op \in {"push", "pull"} /\ TargetOf(task.slot) = TargetFile(Name(task))
    BY <2>1, TaskFacts, PathFacts DEF Name
  <2>. QED
    BY <2>1, <2>2, Basics, TaskFacts DEF PresentInv
<1>. QED
  BY <1>1 DEF Content, Agreed, Held

(* The mode of a run stays what it is until the run ends.                  *)
LEMMA ModeKept ==
  ASSUME pc # "idle", pc' # "idle", run' = run
  PROVE  Mode # "idle" /\ Mode' = Mode
BY DEF Mode

(* A file that exists holds something.                                     *)
LEMMA HeldIs ==
  ASSUME TypeOK, NEW p \in Paths, Exists(p)
  PROVE  Held(p) = file[p].content /\ Held(p) # Absent /\ Held(p) \in AllContents
<1>1. file[p] \in Entries
  BY DEF TypeOK, Exists
<1>2. file[p].content \in AllContents
  BY <1>1 DEF Entries
<1>. QED
  BY <1>2, CoreAssumption DEF Held, AllContents

-----------------------------------------------------------------------------
(* The abstract actions, told of the views *)

(* A step that changes no view stutters.                                   *)
LEMMA Stutters ==
  ASSUME Mode' = Mode, \A p \in Paths : Content(p)' = Content(p),
         \A s \in Slots : Agreed(s)' = Agreed(s)
  PROVE  UNCHANGED Abstract!replicas
BY DEF Abstract!replicas

(* A transfer changes the view of one file and of one agreement.           *)
LEMMA Transfers ==
  ASSUME NEW s \in Slots, NEW from \in Paths, NEW to \in Paths,
         Mode # "idle", Mode' = Mode, Content(from) # Absent,
         \A p \in Paths : Content(p)' = IF p = to THEN Content(from) ELSE Content(p),
         \A u \in Slots : Agreed(u)' = IF u = s THEN Content(from) ELSE Agreed(u),
         Mode = "careful" =>
            \/ Content(to) \in {Absent, Agreed(s)}
            \/ \E q \in Paths \ {to} : q[1] = to[1] /\ Content(q)' = Content(to)
  PROVE  Abstract!Transfer(s, from, to)
BY Alike DEF Abstract!Transfer, Abstract!Expendable

(* A removal changes the view of one source.                               *)
LEMMA Drops ==
  ASSUME NEW s \in Slots, Mode # "idle", Mode' = Mode,
         \A p \in Paths : Content(p)' = IF p = s THEN Absent ELSE Content(p),
         \A u \in Slots : Agreed(u)' = Agreed(u),
         Mode = "careful" =>
            \/ Content(s) \in {Absent, Agreed(s)}
            \/ \E q \in Paths \ {s} : q[1] = s[1] /\ Content(q)' = Content(s)
  PROVE  Abstract!Drop(s)
BY Alike, PathFacts DEF Abstract!Drop, Abstract!Expendable

(* An agreement notes what two equal files hold.                           *)
LEMMA Agrees ==
  ASSUME NEW s \in Slots, Mode # "idle", Mode' = Mode,
         Content(s) # Absent, Content(s) = Content(TargetOf(s)),
         \A p \in Paths : Content(p)' = Content(p),
         \A u \in Slots : Agreed(u)' = IF u = s THEN Content(s) ELSE Agreed(u)
  PROVE  Abstract!Agree({s})
BY Alike, PathFacts DEF Abstract!Agree

(* The user changes the view of one file.                                  *)
LEMMA Edits ==
  ASSUME NEW p \in Paths, NEW c \in Contents \cup {Absent}, Mode = "idle", Mode' = "idle",
         \A q \in Paths : Content(q)' = IF q = p THEN c ELSE Content(q),
         \A u \in Slots : Agreed(u)' = Agreed(u)
  PROVE  Abstract!Edit(p)
BY Alike DEF Abstract!Edit

-----------------------------------------------------------------------------
(* Each step of the core is one of the abstract synchroniser, or none *)

(* A careful run's tasks at hand may be done, and none of its files is torn*)
(* before it copies.                                                       *)
LEMMA CarefulTask ==
  ASSUME SafetyInv, Quiet, WholeInv, Mode = "careful", pc \in Working, NEW t \in AtHand
  PROVE  /\ t.op = "push" /\ t \in tasks => SourceSpared(t.slot)
         /\ t.op = "pull" => TargetSpared(t.slot)
         /\ Encrypts(t) /\ run.cmd = "add" => PlainSpared(Name(t))
<1>1. pc # "idle" /\ run.cmd # "forget" /\ ~(run.force /\ run.cmd # "sync")
  BY DEF Mode, Working
<1>2. run \in Runs /\ run.cmd \in {"add", "pull", "sync", "forget"} /\ run.force \in BOOLEAN
  BY <1>1, Basics, InHand, CoreAssumption DEF RunType
<1>3. Careful /\ ~Raced(Name(t))
  BY <1>1, <1>2, Manners DEF Careful, Raced, WholeInv
<1>. QED
  BY <1>3, Basics DEF SparedInv

(* A task that begins to copy transfers; so does one that encrypts.        *)
LEMMA TransferStep ==
  ASSUME SafetyInv, Quiet, WholeInv, NEW t \in tasks, pc = "exec", pc' # "idle", run' = run,
         Copies(t), Exists(From(t)),
         \A p \in Paths : Content(p)' = IF p = To(t) THEN file[From(t)].content ELSE Held(p),
         \A u \in Slots : Agreed(u)' = IF u = t.slot THEN file[From(t)].content ELSE synced[u]
  PROVE  \/ Abstract!Transfer(t.slot, t.slot, TargetOf(t.slot))
         \/ Abstract!Transfer(t.slot, TargetOf(t.slot), t.slot)
<1>. DEFINE s == t.slot
            from == From(t)
            to == To(t)
<1>1. /\ t \in Tasks /\ s \in Slots /\ from \in Paths /\ to \in Paths /\ from # to
      /\ t.op \in {"push", "pull"} /\ t \in AtHand /\ pc \in Working /\ TypeOK
      /\ t.op = "push" => from = TargetOf(s) /\ to = s
      /\ t.op # "push" => from = s /\ to = TargetOf(s)
      /\ TargetOf(s) = TargetFile(s[1]) /\ TargetOf(s)[1] = s[1] /\ TargetOf(s) \notin Slots
  BY Basics, TaskFacts, PathFacts DEF AtHand, Working
<1>2. Mode # "idle" /\ Mode' = Mode
  BY ModeKept
<1>3. /\ \A p \in Paths : Content(p) = Held(p)
      /\ \A u \in Slots : Agreed(u) = synced[u]
  BY Views
<1>4. Content(from) = file[from].content /\ Content(from) # Absent
  BY <1>1, <1>3, HeldIs
<1>5. ASSUME Mode = "careful", Exists(to)
      PROVE  \/ Held(to) = synced[s]
             \/ \E q \in Paths \ {to} : q[1] = to[1] /\ Content(q)' = Held(to)
  <2>1. Held(to) = file[to].content /\ Held(to) # Torn
    BY <1>1, <1>5, HeldIs DEF WholeInv
  <2>2. CASE t.op = "push"
    <3>1. SourceSpared(s)
      BY <1>1, <1>5, <2>2, CarefulTask
    <3>. QED
      BY <1>1, <1>5, <2>1, <2>2, <3>1 DEF SourceSpared, KnownSource
  <2>3. CASE t.op = "pull"
    <3>1. TargetSpared(s)
      BY <1>1, <1>5, <2>3, CarefulTask
    <3>2. CASE file[to].content \in {Torn, synced[s]}
      BY <2>1, <3>2
    <3>3. ASSUME NEW u \in Slots, u[1] = s[1], Exists(u), Same(u, TargetOf(s))
          PROVE  \E q \in Paths \ {to} : q[1] = to[1] /\ Content(q)' = Held(to)
      <4>1. u \in Paths /\ u # to /\ u[1] = to[1]
        BY <1>1, <2>3, <3>3, PathFacts
      <4>2. Content(u)' = Held(u) /\ Held(u) = file[u].content
        BY <1>1, <3>3, <4>1, HeldIs
      <4>. QED
        BY <1>1, <2>1, <2>3, <3>3, <4>1, <4>2 DEF Same
    <3>. QED
      BY <1>1, <1>5, <2>3, <3>1, <3>2, <3>3 DEF TargetSpared
  <2>. QED
    BY <1>1, <2>2, <2>3
<1>6. Mode = "careful" =>
         \/ Content(to) \in {Absent, Agreed(s)}
         \/ \E q \in Paths \ {to} : q[1] = to[1] /\ Content(q)' = Content(to)
  <2>1. ~Exists(to) => Held(to) = Absent
    BY DEF Held
  <2>. QED
    BY <1>1, <1>3, <1>5, <2>1
<1>7. /\ \A p \in Paths : Content(p)' = IF p = to THEN Content(from) ELSE Content(p)
      /\ \A u \in Slots : Agreed(u)' = IF u = s THEN Content(from) ELSE Agreed(u)
  BY <1>3, <1>4
<1>8. Abstract!Transfer(s, from, to)
  <2>. HIDE DEF s, from, to
  <2>. QED
    BY <1>1, <1>2, <1>4, <1>6, <1>7, Transfers
<1>. QED
  BY <1>1, <1>8

(* A step outside a copy that keeps what every file holds stutters.        *)
LEMMA QuietStep ==
  ASSUME SafetyInv, SafetyInv', Quiet, pc \notin {"idle", "copy"}, pc' \notin {"idle", "copy"},
         run' = run, \A p \in Paths : Held(p)' = Held(p), UNCHANGED synced
  PROVE  UNCHANGED Abstract!replicas
<1>1. /\ \A p \in Paths : Content(p) = Held(p)
      /\ \A u \in Slots : Agreed(u) = synced[u]
  BY Views
<1>2. /\ \A p \in Paths : Content(p)' = Held(p)'
      /\ \A u \in Slots : Agreed(u)' = synced'[u]
  BY DEF Content, Agreed, Held
<1>. QED
  BY <1>1, <1>2, ModeKept, Stutters

(* Removing a source is a drop.                                            *)
LEMMA DropStep ==
  ASSUME SafetyInv, Quiet, pc \notin {"idle", "copy"}, pc' \notin {"idle", "copy"}, run' = run,
         UNCHANGED synced, NEW s \in Slots, file' = [file EXCEPT ![s] = Absent],
         Mode = "careful" =>
            \/ Held(s) \in {Absent, synced[s]}
            \/ \E q \in Paths \ {s} : q[1] = s[1] /\ Held(q) = Held(s)
  PROVE  Abstract!Drop(s)
<1>1. /\ \A p \in Paths : Content(p) = Held(p)
      /\ \A u \in Slots : Agreed(u) = synced[u]
  BY Views
<1>2. /\ \A p \in Paths : Content(p)' = Held(p)'
      /\ \A u \in Slots : Agreed(u)' = synced'[u]
  BY DEF Content, Agreed, Held
<1>3. \A p \in Paths : Held(p)' = IF p = s THEN Absent ELSE Held(p)
  <2>1. \A p \in Paths : file'[p] = IF p = s THEN Absent ELSE file[p]
    BY Basics DEF TypeOK
  <2>. QED
    BY <2>1 DEF Held, Exists
<1>4. Mode = "careful" =>
         \/ Content(s) \in {Absent, Agreed(s)}
         \/ \E q \in Paths \ {s} : q[1] = s[1] /\ Content(q)' = Content(s)
  <2>1. s \in Paths
    BY PathFacts
  <2>2. \A q \in Paths \ {s} : Content(q)' = Held(q)
    BY <1>2, <1>3
  <2>. QED
    BY <1>1, <2>1, <2>2
<1>5. /\ \A p \in Paths : Content(p)' = IF p = s THEN Absent ELSE Content(p)
      /\ \A u \in Slots : Agreed(u)' = Agreed(u)
  BY <1>1, <1>2, <1>3
<1>. QED
  BY <1>4, <1>5, ModeKept, Drops

-----------------------------------------------------------------------------
(* Every step of the core is a step of the abstract synchroniser or a      *)
(* stutter.                                                                *)
LEMMA StepRefines ==
  ASSUME Quiet, SafetyInv, WholeInv, SafetyInv', [Next]_vars
  PROVE  [Abstract!Next]_(Abstract!replicas)
<1>0. /\ TypeOK /\ TypeInv /\ TimeInv /\ HandInv /\ SyncedInv /\ StampInv /\ RecordsInv
      /\ PresentInv /\ tasks \subseteq Tasks /\ todo \subseteq Paths
      /\ file \in [Paths -> Entries \cup {Absent}]
      /\ synced \in [Slots -> AllContents \cup {Absent}]
  BY Basics
<1>v. /\ pc # "copy" => /\ \A p \in Paths : Content(p) = Held(p)
                        /\ \A s \in Slots : Agreed(s) = synced[s]
      /\ pc' # "copy" => /\ \A p \in Paths : Content(p)' = Held(p)'
                         /\ \A s \in Slots : Agreed(s)' = synced'[s]
  BY Views DEF Content, Agreed, Held
<1>n. /\ \A s \in Slots : /\ Abstract!Transfer(s, s, TargetOf(s)) => Abstract!Next
                          /\ Abstract!Transfer(s, TargetOf(s), s) => Abstract!Next
                          /\ Abstract!Drop(s) => Abstract!Next
                          /\ Abstract!Agree({s}) => Abstract!Next
      /\ \A p \in Paths : Abstract!Edit(p) => Abstract!Next
      /\ Abstract!Begin \/ Abstract!End => Abstract!Next
  BY Alike DEF Abstract!Next
<1>h. ASSUME UNCHANGED file PROVE \A p \in Paths : Held(p)' = Held(p)
  BY <1>h DEF Held, Exists
<1>1. ASSUME NEW r \in Runs, Start(r) PROVE Abstract!Begin
  <2>1. /\ Mode = "idle" /\ Mode' \in {"careful", "free"}
        /\ \A p \in Paths : Content(p)' = Content(p)
        /\ \A s \in Slots : Agreed(s)' = Agreed(s)
    BY <1>1, <1>v, <1>h DEF Start, Mode
  <2>. QED
    BY <2>1 DEF Abstract!Begin
<1>2. ASSUME NEW p \in todo, Check(p)
      PROVE  UNCHANGED Abstract!replicas \/ \E s \in Slots : Abstract!Agree({s})
  <2>1. /\ pc = "check" /\ pc' \in {"check", "failed"} /\ UNCHANGED <<file, run>>
        /\ \/ synced' = synced
           \/ \E t : /\ GoodTask(p, t)
                     /\ synced' = [s \in Slots |-> IF t.op = "record" /\ s = t.slot
                                                   THEN file[s].content ELSE synced[s]]
    BY <1>0, <1>2, CheckIs
  <2>2. \A q \in Paths : Content(q)' = Content(q)
    BY <1>v, <1>h, <2>1
  <2>3. CASE synced' = synced
    BY <1>h, <2>1, <2>3, QuietStep
  <2>4. ASSUME NEW t, GoodTask(p, t),
               synced' = [s \in Slots |-> IF t.op = "record" /\ s = t.slot
                                         THEN file[s].content ELSE synced[s]]
        PROVE  UNCHANGED Abstract!replicas \/ \E s \in Slots : Abstract!Agree({s})
    <3>1. t \in Tasks /\ t.slot \in Slots /\ t.slot \in Paths /\ TargetOf(t.slot) \in Paths
      BY <2>4, TaskFacts, PathFacts DEF GoodTask
    <3>2. CASE t.op # "record"
      <4>1. synced' = synced
        BY <1>0, <2>4, <3>2
      <4>. QED
        BY <1>h, <2>1, <4>1, QuietStep
    <3>3. CASE t.op = "record"
      <4>1. Exists(t.slot) /\ Exists(TargetOf(t.slot)) /\ Same(t.slot, TargetOf(t.slot))
        BY <2>4, <3>3 DEF GoodTask, Agreement
      <4>2. /\ Content(t.slot) = file[t.slot].content /\ Content(t.slot) # Absent
            /\ Content(TargetOf(t.slot)) = Content(t.slot)
        BY <1>0, <1>v, <2>1, <3>1, <4>1, HeldIs DEF Same
      <4>3. \A u \in Slots : Agreed(u)' = IF u = t.slot THEN Content(t.slot) ELSE Agreed(u)
        BY <1>v, <2>1, <2>4, <3>3, <4>2
      <4>4. Mode # "idle" /\ Mode' = Mode
        BY <2>1, ModeKept
      <4>. QED
        BY <2>2, <3>1, <4>2, <4>3, <4>4, Agrees
    <3>. QED
      BY <3>2, <3>3
  <2>. QED
    BY <2>1, <2>3, <2>4
<1>3. ASSUME Decide PROVE UNCHANGED Abstract!replicas
  BY <1>3, <1>h, QuietStep DEF Decide
<1>4. ASSUME NEW t \in tasks, BeginCopy(t) PROVE Abstract!Next
  <2>1. /\ t \in Tasks /\ Copies(t) /\ To(t) \in Paths /\ t.slot \in Slots
        /\ \A q \in Paths \ {To(t)} : file'[q] = file[q]
        /\ pc = "exec" /\ pc' = "copy" /\ task' = t /\ UNCHANGED <<synced, run>>
        /\ Exists(From(t)) /\ From(t) \in Paths /\ From(t) # To(t)
    BY <1>4, CopyBegins, TaskFacts DEF BeginCopy
  <2>2. To(task)' = To(t) /\ From(task)' = From(t)
    BY <2>1 DEF To, From, TargetOf
  <2>3. /\ file'[From(t)] = file[From(t)] /\ file[From(t)] # Absent
    BY <2>1 DEF Exists
  <2>4. \A p \in Paths : Content(p)' = IF p = To(t) THEN file[From(t)].content ELSE Held(p)
    BY <2>1, <2>2, <2>3 DEF Content, Held, Exists
  <2>5. \A u \in Slots : Agreed(u)' = IF u = t.slot THEN file[From(t)].content ELSE synced[u]
    BY <2>1, <2>2, <2>3 DEF Agreed, Exists
  <2>6. pc' # "idle"
    BY <2>1
  <2>. QED
    BY <1>n, <2>1, <2>4, <2>5, <2>6, TransferStep
<1>5. ASSUME NEW t \in tasks, Encrypt(t) PROVE Abstract!Next
  <2>1. /\ t \in Tasks /\ Copies(t) /\ To(t) = t.slot /\ t.slot \in Slots /\ t.slot \in Paths
        /\ pc = "exec" /\ pc' = "record" /\ run' = run /\ Exists(From(t))
        /\ Write(t.slot, file[From(t)].content)
        /\ synced' = [synced EXCEPT ![t.slot] = file[From(t)].content]
    BY <1>0, <1>5, TaskFacts, PathFacts DEF Encrypt
  <2>2. /\ file'[t.slot] = [content |-> file[From(t)].content, mtime |-> clock']
        /\ file'[t.slot].content = file[From(t)].content
        /\ \A q \in Paths \ {t.slot} : file'[q] = file[q]
    BY <1>0, <2>1, WriteIs
  <2>3. file'[t.slot] # Absent
    <3>1. file[From(t)].content \in AllContents /\ clock' \in Nat
      BY <1>0, <1>5, <2>1, TaskFacts, HeldIs DEF Encrypt, TypeOK
    <3>. QED
      BY <2>2, <3>1, EntryExists
  <2>4. \A p \in Paths : Content(p)' = IF p = To(t) THEN file[From(t)].content ELSE Held(p)
    BY <1>v, <2>1, <2>2, <2>3 DEF Held, Exists
  <2>5. \A u \in Slots : Agreed(u)' = IF u = t.slot THEN file[From(t)].content ELSE synced[u]
    BY <1>0, <1>v, <2>1
  <2>6. pc' # "idle"
    BY <2>1
  <2>. QED
    BY <1>n, <2>1, <2>4, <2>5, <2>6, TransferStep
<1>6. ASSUME NEW t \in tasks, RecordOnly(t) PROVE UNCHANGED Abstract!replicas
  BY <1>6, <1>h, QuietStep DEF RecordOnly
<1>7. ASSUME NEW t \in tasks, Delete(t) PROVE [Abstract!Next]_(Abstract!replicas)
  <2>1. /\ t \in Tasks /\ t.slot \in Slots /\ t.op \in {"delete", "unlist"} /\ t \in AtHand
        /\ pc = "exec" /\ pc' = "exec" /\ UNCHANGED <<run, synced>>
    BY <1>0, <1>7, TaskFacts DEF Delete, AtHand
  <2>2. Mode # "careful"
    BY <2>1, TasksAtHand DEF Mode
  <2>3. CASE UNCHANGED file
    BY <1>h, <2>1, <2>3, QuietStep
  <2>4. CASE file' = [file EXCEPT ![t.slot] = Absent]
    <3>1. Abstract!Drop(t.slot)
      BY <2>1, <2>2, <2>4, DropStep
    <3>. QED
      BY <1>n, <2>1, <3>1
  <2>. QED
    BY <1>7, <2>3, <2>4 DEF Delete
<1>8. ASSUME NEW t \in tasks, SkipTask(t) PROVE UNCHANGED Abstract!replicas
  BY <1>8, <1>h, QuietStep DEF SkipTask
<1>9. ASSUME FinishCopy PROVE UNCHANGED Abstract!replicas
  <2>1. /\ task \in Tasks /\ To(task) \in Paths /\ task.slot \in Slots /\ Exists(From(task))
        /\ pc = "copy" /\ pc' = "record" /\ run' = run /\ From(task) \in Paths
        /\ Write(To(task), file[From(task)].content)
        /\ synced' = [synced EXCEPT ![task.slot] = file[From(task)].content]
        /\ clock' \in Nat
    BY <1>0, <1>9, InHand, TaskFacts DEF FinishCopy, TypeOK
  <2>2. /\ file'[To(task)] = [content |-> file[From(task)].content, mtime |-> clock']
        /\ file'[To(task)].content = file[From(task)].content
        /\ \A q \in Paths \ {To(task)} : file'[q] = file[q]
    BY <1>0, <2>1, WriteIs
  <2>3. file'[To(task)] # Absent
    BY <1>0, <2>1, <2>2, HeldIs, EntryExists
  <2>4. /\ \A p \in Paths : Content(p) = IF p = To(task) THEN file[From(task)].content
                                                          ELSE Held(p)
        /\ \A s \in Slots : Agreed(s) = IF s = task.slot THEN file[From(task)].content
                                                        ELSE synced[s]
    BY <2>1, Views
  <2>5. \A p \in Paths : Held(p)' = IF p = To(task) THEN file[From(task)].content ELSE Held(p)
    BY <2>2, <2>3 DEF Held, Exists
  <2>6. \A s \in Slots : synced'[s] = IF s = task.slot THEN file[From(task)].content
                                                       ELSE synced[s]
    BY <1>0, <2>1
  <2>7. /\ \A p \in Paths : Content(p)' = Content(p)
        /\ \A s \in Slots : Agreed(s)' = Agreed(s)
    BY <1>v, <2>1, <2>4, <2>5, <2>6
  <2>. QED
    BY <2>1, <2>7, ModeKept, Stutters
<1>10. ASSUME Record PROVE UNCHANGED Abstract!replicas
  BY <1>10, <1>h, QuietStep DEF Record
<1>11. ASSUME Stamp PROVE UNCHANGED Abstract!replicas
  <2>1. /\ pc = "stamp" /\ pc' \in {"drop", "exec"} /\ UNCHANGED <<run, synced>>
    BY <1>11 DEF Stamp, TaskDone
  <2>2. \A p \in Paths : Held(p)' = Held(p)
    BY <1>0, <1>11, RestampIs DEF Restamp, Held, Exists
  <2>. QED
    BY <2>1, <2>2, QuietStep
<1>13. ASSUME DropPlain PROVE [Abstract!Next]_(Abstract!replicas)
  <2>. DEFINE f == Name(task)
              s == Plain(f)
  <2>1. /\ task \in Tasks /\ task \in AtHand /\ f \in Files /\ s \in Slots /\ s \in Paths
        /\ s[1] = f /\ TargetFile(f) \in Paths /\ TargetFile(f)[1] = f /\ TargetFile(f) # s
        /\ pc = "drop" /\ pc' = "exec" /\ UNCHANGED <<run, synced>> /\ pc \in Working
    BY <1>0, <1>13, InHand, TaskFacts, PathFacts DEF DropPlain, TaskDone, AtHand, Working
  <2>2. Encrypts(task) /\ run.cmd = "add"
    BY <1>0, <2>1 DEF HandInv
  <2>3. CASE ~Exists(s)
    <3>1. UNCHANGED file
      BY <1>13, <2>3 DEF DropPlain, Name
    <3>. QED
      BY <1>h, <2>1, <3>1, QuietStep
  <2>4. CASE Exists(s)
    <3>1. file' = [file EXCEPT ![s] = Absent]
      BY <1>13, <2>4 DEF DropPlain, Name
    <3>2. ASSUME Mode = "careful"
          PROVE  \/ Held(s) \in {Absent, synced[s]}
                 \/ \E q \in Paths \ {s} : q[1] = s[1] /\ Held(q) = Held(s)
      <4>1. PlainSpared(f)
        BY <2>1, <2>2, <3>2, CarefulTask
      <4>2. Held(s) = file[s].content /\ Held(s) # Torn
        BY <1>0, <2>1, <2>4, HeldIs DEF WholeInv
      <4>3. CASE KnownSource(s)
        BY <4>2, <4>3 DEF KnownSource
      <4>4. CASE Exists(TargetFile(f)) /\ Same(s, TargetFile(f))
        <5>1. Held(TargetFile(f)) = Held(s)
          BY <1>0, <2>1, <4>2, <4>4, HeldIs DEF Same
        <5>. QED
          BY <2>1, <5>1
      <4>. QED
        BY <2>4, <4>1, <4>3, <4>4 DEF PlainSpared
    <3>3. Abstract!Drop(s)
      <4>. HIDE DEF s, f
      <4>. QED
        BY <2>1, <3>1, <3>2, DropStep
    <3>. QED
      BY <1>n, <2>1, <3>3
  <2>. QED
    BY <2>3, <2>4
<1>14. ~StampDenied /\ ~FailTask /\ ~Crash
  BY QuietSucceeds
<1>15. ASSUME TasksDone PROVE UNCHANGED Abstract!replicas
  BY <1>15, <1>h, QuietStep DEF TasksDone
<1>16. ASSUME Commit \/ Fail PROVE Abstract!End
  <2>1. /\ pc # "idle" /\ pc # "copy" /\ pc' = "idle" /\ UNCHANGED <<file, synced>>
    BY <1>16 DEF Commit, Fail, Quit
  <2>2. /\ Mode # "idle" /\ Mode' = "idle"
        /\ \A p \in Paths : Content(p)' = Content(p)
        /\ \A s \in Slots : Agreed(s)' = Agreed(s)
    BY <1>v, <1>h, <2>1 DEF Mode
  <2>. QED
    BY <2>2 DEF Abstract!End
<1>17. ASSUME NEW p \in Paths, NEW c \in Contents, Edit(p, c) PROVE Abstract!Edit(p)
  <2>1. /\ pc = "idle" /\ pc' = "idle" /\ UNCHANGED synced /\ c \in AllContents
        /\ file' = [file EXCEPT ![p] = [content |-> c, mtime |-> clock + 1]]
        /\ clock + 1 \in Nat
    BY <1>0, <1>17 DEF Edit, Touch, Quiet, AllContents, TypeOK
  <2>2. [content |-> c, mtime |-> clock + 1] # Absent
    BY <2>1, EntryExists
  <2>3. /\ file'[p] = [content |-> c, mtime |-> clock + 1]
        /\ \A q \in Paths \ {p} : file'[q] = file[q]
    BY <1>0, <2>1
  <2>4. \A q \in Paths : Held(q)' = IF q = p THEN c ELSE Held(q)
    BY <2>2, <2>3 DEF Held, Exists
  <2>5. Mode = "idle" /\ Mode' = "idle"
    BY <2>1 DEF Mode
  <2>6. /\ \A q \in Paths : Content(q)' = IF q = p THEN c ELSE Content(q)
        /\ \A u \in Slots : Agreed(u)' = Agreed(u)
    BY <1>v, <2>1, <2>4
  <2>. QED
    BY <2>5, <2>6, Edits
<1>18. ASSUME NEW p \in Paths, Remove(p) PROVE Abstract!Edit(p)
  <2>1. /\ pc = "idle" /\ pc' = "idle" /\ UNCHANGED synced
        /\ file' = [file EXCEPT ![p] = Absent]
    BY <1>0, <1>18 DEF Remove, Touch, Quiet
  <2>2. file'[p] = Absent /\ \A q \in Paths \ {p} : file'[q] = file[q]
    BY <1>0, <2>1
  <2>3. \A q \in Paths : Held(q)' = IF q = p THEN Absent ELSE Held(q)
    BY <2>2 DEF Held, Exists
  <2>4. Mode = "idle" /\ Mode' = "idle"
    BY <2>1 DEF Mode
  <2>5. /\ \A q \in Paths : Content(q)' = IF q = p THEN Absent ELSE Content(q)
        /\ \A u \in Slots : Agreed(u)' = Agreed(u)
    BY <1>v, <2>1, <2>3
  <2>. QED
    BY <2>4, <2>5, Edits
<1>19. ASSUME UNCHANGED vars PROVE UNCHANGED Abstract!replicas
  <2>1. /\ Mode' = Mode /\ \A p \in Paths : Content(p)' = Content(p)
        /\ \A s \in Slots : Agreed(s)' = Agreed(s)
    BY <1>19 DEF vars, Mode, Content, Agreed, Exists, To, From, TargetOf
  <2>. QED
    BY <2>1, Stutters
<1>20. UNCHANGED Abstract!replicas \/ Abstract!Next
  <2>1. Acts
    BY StepsAre
  <2>. QED
    BY <2>1, <1>0, <1>n, <1>1, <1>2, <1>3, <1>4, <1>5, <1>6, <1>7, <1>8, <1>9, <1>10, <1>11,
       <1>13, <1>14, <1>15, <1>16, <1>17, <1>18, <1>19 DEF Acts
<1>. QED
  BY <1>20

(* A new installation, or one in sync, is an initial state of the abstract *)
(* synchroniser.                                                           *)
LEMMA InitRefines == Init => Abstract!Init /\ WholeInv
<1>. SUFFICES ASSUME Init PROVE Abstract!Init /\ WholeInv
  OBVIOUS
<1>1. PICK content \in [Files -> Contents] :
        /\ file = [p \in Paths |-> InitialFile(content, p)]
        /\ synced = [s \in Slots |-> IF s \in Managed THEN content[s[1]] ELSE Absent]
  BY DEF Init
<1>2. pc = "idle" /\ raced = {}
  BY DEF Init
<1>3. \A p \in Paths : file[p] = Absent \/ (file[p].content = content[p[1]] /\ content[p[1]] \in Contents)
  BY <1>1, PathFacts DEF InitialFile
<1>4. \A s \in Managed :
         /\ s \in Slots /\ s \in Paths /\ TargetOf(s) \in Paths /\ TargetOf(s)[1] = s[1]
         /\ content[s[1]] \in Contents
  BY PathFacts, CoreAssumption
<1>5. \A c \in Contents : [content |-> c, mtime |-> 0] # Absent
  BY EntryExists DEF AllContents
<1>6. \A s \in Managed : /\ file[s] # Absent /\ file[s].content = content[s[1]]
                         /\ file[TargetOf(s)] # Absent
                         /\ file[TargetOf(s)].content = content[s[1]]
  BY <1>1, <1>4, <1>5 DEF InitialFile
<1>7. /\ \A p \in Paths : Content(p) \in Contents \cup {Absent}
      /\ \A s \in Managed : Content(s) = content[s[1]] /\ Content(TargetOf(s)) = content[s[1]]
      /\ \A s \in Slots : Agreed(s) = IF s \in Managed THEN content[s[1]] ELSE Absent
      /\ Mode = "idle"
  BY <1>1, <1>2, <1>3, <1>4, <1>6 DEF Content, Agreed, Mode, Exists
<1>8. Abstract!Init
  <2>1. [p \in Paths |-> Content(p)] \in [Paths -> Contents \cup {Absent}]
    BY <1>7
  <2>2. [s \in Slots |-> Agreed(s)] \in [Slots -> Contents \cup {Absent}]
    BY <1>4, <1>7
  <2>3. \A s \in Slots : Agreed(s) # Absent =>
           Content(s) = Agreed(s) /\ Content(TargetOf(s)) = Agreed(s)
    BY <1>7
  <2>4. \A s \in Slots : s \in Paths /\ TargetOf(s) \in Paths
    BY PathFacts
  <2>. QED
    BY <1>7, <2>1, <2>2, <2>3, <2>4, Alike DEF Abstract!Init
<1>9. WholeInv
  BY <1>2, <1>3, CoreAssumption DEF WholeInv, Exists
<1>. QED
  BY <1>8, <1>9

(* When the user waits until a run is over and nothing fails, the core is  *)
(* an implementation of the abstract synchroniser: every step of a run is  *)
(* a transfer between the two files of a pair, an agreement of equal files *)
(* or the removal of a source, and what a careful run destroys is kept     *)
(* elsewhere or was agreed on.                                             *)
THEOREM CoreImplementsReplicas ==
  ASSUME Quiet
  PROVE  Spec => ImplementsReplicas
<1>1. Init => SafetyInv /\ WholeInv /\ Abstract!Init
  BY InitSafe, InitRefines
<1>2. SafetyInv /\ WholeInv /\ [Next]_vars => (SafetyInv /\ WholeInv)'
  BY SafetyKept, WholeStep
<1>3. SafetyInv /\ WholeInv /\ SafetyInv' /\ [Next]_vars => [Abstract!Next]_(Abstract!replicas)
  BY StepRefines
<1>. QED
  BY <1>1, <1>2, <1>3, PTL DEF Spec, ImplementsReplicas, Abstract!Spec

-----------------------------------------------------------------------------
(* What a run leaves in sync                                               *)

(* No step is refused permission.  A path that may not be read is left out *)
(* of the walk with a warning, a task that may not write is skipped, and   *)
(* the run succeeds all the same: what they would have done is left to do. *)
NeverDenied == "denied" \notin Faults

(* the tasks of the run, begun or not *)
Queued == AtHand \cup done
PastWalk == {"exec", "copy", "record", "stamp", "drop", "commit"}
Pair(s) == Exists(s) /\ Exists(TargetOf(s)) /\ Same(s, TargetOf(s))
MakesEqual(t) == t.op \in {"push", "pull", "record"}
Alone(t) == \A u \in Queued \ {t} : Name(u) # Name(t)

(* A pair in sync: the record is of the content of both, and of their time *)
Converged(s) == /\ mem[s] # Absent /\ Pair(s) /\ mem[s].sha256 = file[s].content
                /\ file[s].mtime = mem[s].mtime
                /\ file[TargetOf(s)].mtime = mem[s].mtime

(* Unless the user interferes, the task in hand brings its pair into sync, *)
(* and it stays so when no other task is of its name.                      *)
DoneInv ==
  /\ pc \in {"idle", "check"} => done = {}
  /\ done \cap AtHand = {}
  /\ \A t \in Queued : t.op \in OpsOf(run.cmd)
  /\ \A t, u \in Queued : OnePerName(run.cmd) /\ Name(t) = Name(u) => t = u
  /\ raced = {} =>
       /\ pc \in Working => \A t \in AtHand : t.op = "record" => Pair(t.slot)
       /\ pc \in {"record", "stamp"} => Pair(task.slot)
       /\ pc = "stamp" => mem[task.slot].sha256 = file[task.slot].content
       /\ pc = "drop" => Converged(task.slot)
       /\ pc \in PastWalk => \A t \in done : MakesEqual(t) /\ Alone(t) => Converged(t.slot)

(* sync: every pair walked over is still to be checked, blocks the run, is *)
(* not modified or has its task; and no task is one of a pair in conflict. *)
NothingDone == pc \in {"check", "exec"} /\ done = {}
Walked(f) == run.paths = {} \/ TargetFile(f) \in run.paths
Managing(f) == LET s == Resolved(f) IN
               Exists(TargetFile(f)) /\ Exists(s) /\ mem[s] # Absent
WalkInv ==
  /\ pc \in PastWalk => todo = {} /\ (~run.force => ~blocked)
  /\ pc = "commit" => AtHand = {} \/ (done = {} /\ run.dryRun)
  /\ NothingDone => mem = disk
  /\ raced = {} /\ run.cmd = "sync" /\ pc \in PastWalk \cup {"check"} =>
       /\ \A t \in Queued : /\ t.slot = Resolved(Name(t))
                            /\ Exists(t.slot) /\ Exists(TargetFile(Name(t)))
       /\ NothingDone => \A t \in tasks : Verdict(t.slot, mem) # "BothModified"
       /\ \A f \in Files : Walked(f) /\ Managing(f) =>
            \/ TargetFile(f) \in todo
            \/ blocked
            \/ Verdict(Resolved(f), mem) = "NonModified"
            \/ \E t \in Queued : Name(t) = f

RunInv == DoneInv /\ WalkInv

-----------------------------------------------------------------------------
(* Steps that leave a name alone *)

(* The files and records of a name are not touched.                        *)
Untouched(f) == /\ \A p \in Paths : p[1] = f => file'[p] = file[p]
                /\ \A s \in Slots : s[1] = f => mem'[s] = mem[s]

(* Then what is in sync stays in sync.                                     *)
LEMMA Frame ==
  ASSUME NEW f \in Files, Untouched(f)
  PROVE  /\ \A s \in Slots : s[1] = f =>
              /\ Pair(s) => Pair(s)'
              /\ Converged(s) => Converged(s)'
              /\ Verdict(s, mem)' = Verdict(s, mem)
         /\ Resolved(f)' = Resolved(f) /\ Managing(f)' = Managing(f)
<1>1. ASSUME NEW s \in Slots, s[1] = f
      PROVE  /\ Pair(s) => Pair(s)'
             /\ Converged(s) => Converged(s)'
             /\ Verdict(s, mem)' = Verdict(s, mem)
  <2>1. file'[s] = file[s] /\ file'[TargetOf(s)] = file[TargetOf(s)] /\ mem'[s] = mem[s]
    BY <1>1, PathFacts DEF Untouched
  <2>. QED
    BY <2>1 DEF Pair, Converged, Exists, Same, Verdict
<1>2. Resolved(f)' = Resolved(f)
  <2>1. file'[Enc(f)] = file[Enc(f)]
    BY PathFacts DEF Untouched
  <2>. QED
    BY <2>1 DEF Resolved, Exists
<1>3. Resolved(f) \in Slots /\ Resolved(f)[1] = f
  BY PathFacts DEF Resolved
<1>4. Managing(f)' = Managing(f)
  <2>1. /\ file'[Resolved(f)] = file[Resolved(f)] /\ mem'[Resolved(f)] = mem[Resolved(f)]
        /\ file'[TargetFile(f)] = file[TargetFile(f)]
    BY <1>3, PathFacts DEF Untouched
  <2>. QED
    BY <1>2, <2>1 DEF Managing, Exists
<1>. QED
  BY <1>1, <1>2, <1>4

(* A pair in sync compares as not modified.                                *)
LEMMA ConvergedMeans ==
  ASSUME SafetyInv, NEW s \in Slots, Converged(s)
  PROVE  Verdict(s, mem) = "NonModified"
<1>1. mem[s] # Absent /\ mem[s].mtime \in Nat
  BY Basics DEF Converged, Records
<1>2. file[TargetOf(s)].content = mem[s].sha256
  BY DEF Converged, Pair, Same
<1>. QED
  BY <1>1, <1>2 DEF Converged, Verdict, CompareFiles, CompareByContent, CompareByTimestamps,
     BothNewer

(* What the invariant says of the tasks                                    *)
LEMMA RunBasics ==
  ASSUME SafetyInv, RunInv
  PROVE  /\ DoneInv /\ WalkInv /\ AtHand \subseteq Queued /\ done \subseteq Queued
         /\ \A t \in Queued : /\ t \in Tasks /\ t.slot \in Slots /\ Name(t) \in Files
                              /\ t.slot[1] = Name(t) /\ TargetOf(t.slot) = TargetFile(Name(t))
         /\ \A t \in AtHand : t.op = "record" => OnePerName(run.cmd)
<1>1. done \subseteq Tasks
  BY Basics DEF TypeOK
<1>2. AtHand \subseteq Tasks
  BY TasksAtHand
<1>3. \A t \in Queued : /\ t \in Tasks /\ t.slot \in Slots /\ Name(t) \in Files
                       /\ t.slot[1] = Name(t) /\ TargetOf(t.slot) = TargetFile(Name(t))
  BY <1>1, <1>2, TaskFacts, PathFacts DEF Queued, Name
<1>4. \A t \in AtHand : t.op = "record" => OnePerName(run.cmd)
  BY TasksAtHand DEF OnePerName
<1>. QED
  BY <1>3, <1>4 DEF RunInv, Queued

(* A step on one task keeps what the others achieved, and leaves the walk  *)
(* as it was.                                                              *)
LEMMA TaskWorks ==
  ASSUME SafetyInv, RunInv, pc \in PastWalk, pc \in Working, pc' \in PastWalk, pc' # "commit",
         UNCHANGED <<run, raced, todo, blocked>>, NEW t \in AtHand,
         done' \in {done, done \cup {t}}, Queued' = Queued, done' \cap AtHand' = {},
         pc' = "exec" => t \in done',
         \A f \in Files : f # Name(t) => Untouched(f),
         raced = {} /\ run.cmd = "sync" => \A p \in Paths : file'[p] # Absent <=> file[p] # Absent,
         raced = {} /\ t \in AtHand' /\ t.op = "record" => Pair(t.slot)',
         raced = {} /\ pc' \in {"record", "stamp"} => Pair(task.slot)',
         raced = {} /\ pc' = "stamp" => mem'[task'.slot].sha256 = file'[task'.slot].content,
         raced = {} /\ pc' = "drop" => Converged(task.slot)',
         raced = {} /\ t \in done' /\ MakesEqual(t) => Converged(t.slot)'
  PROVE  RunInv'
<1>0. /\ DoneInv /\ WalkInv /\ AtHand \subseteq Queued /\ done \subseteq Queued
      /\ \A u \in Queued : /\ u \in Tasks /\ u.slot \in Slots /\ Name(u) \in Files
                           /\ u.slot[1] = Name(u) /\ TargetOf(u.slot) = TargetFile(Name(u))
      /\ \A u \in AtHand : u.op = "record" => OnePerName(run.cmd)
  BY RunBasics
<1>1. AtHand' \subseteq Queued /\ pc' \notin {"idle", "check"} /\ ~NothingDone'
  BY DEF Queued, PastWalk, NothingDone
<1>2. ASSUME raced' = {}, NEW u \in AtHand', u.op = "record"
      PROVE  Pair(u.slot)'
  <2>1. CASE u = t
    BY <1>2, <2>1
  <2>2. CASE u # t
    <3>1. u \in AtHand
      BY <1>1, <1>2, <2>2 DEF Queued
    <3>2. Pair(u.slot) /\ Name(u) # Name(t)
      BY <1>0, <1>2, <2>2, <3>1 DEF DoneInv
    <3>. QED
      BY <1>0, <3>1, <3>2, Frame
  <2>. QED
    BY <2>1, <2>2
<1>3. ASSUME raced' = {}, NEW u \in done', MakesEqual(u), Alone(u)'
      PROVE  Converged(u.slot)'
  <2>1. CASE u = t
    BY <1>3, <2>1
  <2>2. CASE u # t
    <3>1. u \in done /\ Alone(u) /\ Name(t) # Name(u)
      BY <1>0, <1>3, <2>2 DEF Alone
    <3>2. Converged(u.slot)
      BY <1>0, <1>3, <3>1 DEF DoneInv
    <3>. QED
      BY <1>0, <3>1, <3>2, Frame
  <2>. QED
    BY <2>1, <2>2
<1>4. DoneInv'
  BY <1>0, <1>1, <1>2, <1>3 DEF DoneInv
<1>5. ASSUME raced' = {}, run.cmd = "sync"
      PROVE  /\ \A u \in Queued' : /\ u.slot = Resolved(Name(u))'
                                   /\ Exists(u.slot)' /\ Exists(TargetFile(Name(u)))'
             /\ \A f \in Files : Walked(f)' /\ Managing(f)' =>
                   \/ TargetFile(f) \in todo'
                   \/ blocked'
                   \/ Verdict(Resolved(f), mem)' = "NonModified"
                   \/ \E u \in Queued' : Name(u) = f
  <2>1. \A u \in Queued : u.slot = Resolved(Name(u)) /\ Exists(u.slot) /\ Exists(TargetFile(Name(u)))
    BY <1>0, <1>5 DEF WalkInv
  <2>2. \A p \in Paths : Exists(p)' <=> Exists(p)
    BY <1>5 DEF Exists
  <2>3. \A f \in Files : Resolved(f)' = Resolved(f)
    BY <2>2, PathFacts DEF Resolved
  <2>4. \A u \in Queued' : /\ u.slot = Resolved(Name(u))'
                           /\ Exists(u.slot)' /\ Exists(TargetFile(Name(u)))'
    BY <1>0, <2>1, <2>2, <2>3, PathFacts
  <2>5. ASSUME NEW f \in Files, Walked(f)', Managing(f)', f # Name(t)
        PROVE  \/ TargetFile(f) \in todo'
               \/ blocked'
               \/ Verdict(Resolved(f), mem)' = "NonModified"
               \/ \E u \in Queued' : Name(u) = f
    <3>1. Resolved(f) \in Slots /\ Resolved(f)[1] = f
      BY PathFacts DEF Resolved
    <3>2. /\ Managing(f) /\ Walked(f)
          /\ Verdict(Resolved(f), mem)' = Verdict(Resolved(f), mem)
      <4>1. Managing(f)' = Managing(f) /\ Resolved(f)' = Resolved(f)
        BY <2>5, Frame
      <4>2. file'[Resolved(f)] = file[Resolved(f)] /\ mem'[Resolved(f)] = mem[Resolved(f)]
            /\ file'[TargetOf(Resolved(f))] = file[TargetOf(Resolved(f))]
        BY <2>5, <3>1, PathFacts DEF Untouched
      <4>3. TargetOf(Resolved(f))' = TargetOf(Resolved(f))
        BY <4>1 DEF TargetOf
      <4>. QED
        BY <2>5, <4>1, <4>2, <4>3 DEF Walked, Verdict
    <3>. QED
      BY <1>0, <1>5, <3>2 DEF WalkInv
  <2>. QED
    BY <2>4, <2>5, <1>0
<1>6. WalkInv'
  <2>1. todo' = {} /\ (~run'.force => ~blocked')
    BY <1>0 DEF WalkInv
  <2>. QED
    BY <1>1, <1>5, <2>1 DEF WalkInv
<1>. QED
  BY <1>4, <1>6 DEF RunInv

-----------------------------------------------------------------------------
(* The steps of a run, one by one *)

(* sync checks a pair: a modified side gets a task, a conflict blocks, and *)
(* nothing is done about a pair that is not modified.                      *)
LEMMA SyncChecks ==
  ASSUME SafetyInv, NeverDenied, run.cmd = "sync", NEW p \in todo, Check(p), pc' = "check"
  PROVE  /\ \A t \in tasks' \ tasks :
              /\ p = TargetFile(p[1]) /\ Name(t) = p[1] /\ t.slot = Resolved(Name(t))
              /\ Exists(t.slot) /\ Exists(TargetFile(Name(t)))
              /\ Verdict(t.slot, mem) # "BothModified"
         /\ \A f \in Files : p = TargetFile(f) /\ Managing(f) =>
              \/ blocked'
              \/ Verdict(Resolved(f), mem) = "NonModified"
              \/ \E t \in tasks' : Name(t) = f
<1>. DEFINE o == SyncCheck(p)
            g == p[1]
            s == Resolved(g)
            pull == [op |-> "pull", slot |-> s]
            push == [op |-> "push", slot |-> s]
<1>1. p \in Paths /\ g \in Files /\ s \in Slots /\ s[1] = g /\ TargetOf(s) = TargetFile(g)
  BY Basics, PathFacts DEF Resolved
<1>2. o.aborts = FALSE /\ tasks' = tasks \cup o.queue /\ blocked' = (blocked \/ o.blocks)
  BY DEF Check, Outcomes, Outcome, NeverDenied
<1>3. /\ Skip.queue = {} /\ Blocked.queue = {} /\ Blocked.blocks = TRUE /\ Abort.aborts = TRUE
      /\ Queue("pull", s).queue = {pull} /\ Queue("push", s).queue = {push}
      /\ pull.slot = s /\ push.slot = s /\ Name(pull) = g /\ Name(push) = g
  BY <1>1 DEF Skip, Blocked, Abort, Queue, Name
<1>4. CASE p[2] # "target"
  <2>1. o = Skip
    BY <1>2, <1>3, <1>4 DEF SyncCheck
  <2>2. \A f \in Files : p # TargetFile(f)
    BY <1>4, PathFacts
  <2>. QED
    BY <1>2, <1>3, <2>1, <2>2
<1>5. CASE p[2] = "target"
  <2>1. p = TargetFile(g) /\ Exists(p) /\ o = SyncTarget(g)
    BY <1>1, <1>2, <1>3, <1>5, PathFacts DEF SyncCheck
  <2>2. \A f \in Files : p = TargetFile(f) => f = g
    BY <2>1 DEF TargetFile
  <2>3. CASE ~Exists(s) \/ mem[s] = Absent
    <3>1. o = Skip
      BY <2>1, <2>3 DEF SyncTarget
    <3>. QED
      BY <1>2, <1>3, <2>2, <2>3, <3>1 DEF Managing
  <2>4. CASE Exists(s) /\ mem[s] # Absent
    <3>. DEFINE v == Verdict(s, mem)
    <3>1. o = CASE v = "SourceModified" -> Queue("pull", s)
                [] v = "TargetModified" -> Queue("push", s)
                [] v = "BothModified" -> Blocked
                [] v = "NonModified" -> Skip
                [] OTHER -> Abort
      BY <2>1, <2>4 DEF SyncTarget
    <3>. HIDE DEF o, v, s, g, pull, push
    <3>2. \/ v = "SourceModified" /\ o.queue = {pull}
          \/ v = "TargetModified" /\ o.queue = {push}
          \/ v = "BothModified" /\ o.queue = {} /\ o.blocks = TRUE
          \/ v = "NonModified" /\ o.queue = {}
      BY <1>2, <1>3, <3>1
    <3>3. \A t \in tasks' \ tasks : (t = pull \/ t = push) /\ v # "BothModified"
      BY <1>2, <3>2
    <3>4. blocked' \/ v = "NonModified" \/ pull \in tasks' \/ push \in tasks'
      BY <1>2, <3>2
    <3>5. Exists(TargetFile(g))
      BY <2>1
    <3>6. \A t \in tasks' \ tasks : /\ p = TargetFile(g) /\ Name(t) = g /\ t.slot = s
                                   /\ Exists(s) /\ Exists(TargetFile(g)) /\ v # "BothModified"
      BY <1>3, <2>1, <2>4, <3>3, <3>5
    <3>7. blocked' \/ v = "NonModified" \/ \E t \in tasks' : Name(t) = g
      BY <1>3, <3>4
    <3>. QED
      BY <2>2, <3>6, <3>7 DEF v, s, g
  <2>. QED
    BY <2>3, <2>4
<1>. QED
  BY <1>4, <1>5

(* The walk keeps the invariant.                                           *)
LEMMA CheckWorks ==
  ASSUME SafetyInv, RunInv, NeverDenied, NEW p \in todo, Check(p), SafetyInv'
  PROVE  RunInv'
<1>0. /\ DoneInv /\ WalkInv /\ AtHand \subseteq Queued
      /\ \A u \in Queued : /\ u \in Tasks /\ u.slot \in Slots /\ Name(u) \in Files
                           /\ u.slot[1] = Name(u) /\ TargetOf(u.slot) = TargetFile(Name(u))
  BY RunBasics
<1>1. /\ p \in Paths /\ pc = "check" /\ pc' \in {"check", "failed"} /\ todo' = todo \ {p}
      /\ UNCHANGED <<file, disk, mem, run, task, raced, done>>
      /\ done = {} /\ task = NoTask
      /\ \/ tasks' = tasks
         \/ \E t : GoodTask(p, t) /\ tasks' = tasks \cup {t}
  BY <1>0, Basics, CheckIs, InHand DEF DoneInv, Check
<1>2. /\ AtHand = tasks /\ AtHand' = tasks' /\ Queued = tasks /\ Queued' = tasks'
  BY <1>1, Basics DEF AtHand, Queued
<1>3. /\ \A t \in Queued' : t.op \in OpsOf(run'.cmd)
      /\ \A t, u \in Queued' : OnePerName(run'.cmd) /\ Name(t) = Name(u) => t = u
  BY <1>2, Basics DEF SafetyInv, QueueInv
<1>4. ASSUME raced = {}, NEW t \in tasks', t.op = "record", pc' = "check"
      PROVE  Pair(t.slot)'
  <2>1. CASE t \in tasks
    <3>1. Pair(t.slot)
      BY <1>0, <1>1, <1>2, <1>4, <2>1 DEF DoneInv, Working
    <3>. QED
      BY <1>1, <3>1 DEF Pair, Exists, Same, TargetOf
  <2>2. CASE t \notin tasks
    <3>1. GoodTask(p, t)
      BY <1>1, <1>4, <2>2
    <3>2. Pair(t.slot)
      BY <1>4, <3>1 DEF GoodTask, Agreement, Pair
    <3>. QED
      BY <1>1, <3>2 DEF Pair, Exists, Same, TargetOf
  <2>. QED
    BY <2>1, <2>2
<1>5. DoneInv'
  BY <1>1, <1>2, <1>3, <1>4 DEF DoneInv, PastWalk, Working
<1>6. ASSUME raced = {}, run.cmd = "sync", pc' = "check"
      PROVE  /\ \A t \in tasks' : /\ t.slot = Resolved(Name(t))
                                  /\ Exists(t.slot) /\ Exists(TargetFile(Name(t)))
                                  /\ Verdict(t.slot, mem) # "BothModified"
             /\ \A f \in Files : Walked(f) /\ Managing(f) =>
                  \/ TargetFile(f) \in todo'
                  \/ blocked'
                  \/ Verdict(Resolved(f), mem) = "NonModified"
                  \/ \E t \in tasks' : Name(t) = f
  <2>1. \A t \in tasks : /\ t.slot = Resolved(Name(t))
                         /\ Exists(t.slot) /\ Exists(TargetFile(Name(t)))
                         /\ Verdict(t.slot, mem) # "BothModified"
    BY <1>0, <1>1, <1>2, <1>6 DEF WalkInv, NothingDone
  <2>2. tasks \subseteq tasks' /\ (blocked => blocked')
    BY <1>1 DEF Check
  <2>3. \A f \in Files : Walked(f) /\ Managing(f) =>
           \/ TargetFile(f) \in todo
           \/ blocked
           \/ Verdict(Resolved(f), mem) = "NonModified"
           \/ \E t \in tasks : Name(t) = f
    BY <1>0, <1>1, <1>2, <1>6 DEF WalkInv
  <2>. QED
    BY <1>1, <1>6, <2>1, <2>2, <2>3, SyncChecks
<1>7. /\ \A f \in Files : /\ Walked(f)' = Walked(f) /\ Managing(f)' = Managing(f)
                         /\ Resolved(f)' = Resolved(f)
                         /\ Verdict(Resolved(f), mem)' = Verdict(Resolved(f), mem)
      /\ \A s \in Slots : Verdict(s, mem)' = Verdict(s, mem)
      /\ \A q \in Paths : Exists(q)' = Exists(q)
  BY <1>1 DEF Walked, Managing, Resolved, Verdict, Exists, TargetOf
<1>8. tasks' \subseteq Tasks
  BY <1>2, TasksAtHand, SafetyInv' DEF SafetyInv, TypeInv, TypeOK
<1>9. \A t \in tasks' : t.slot \in Slots /\ t.slot \in Paths /\ TargetFile(Name(t)) \in Paths
  BY <1>8, TaskFacts, PathFacts
<1>10. mem = disk /\ UNCHANGED <<mem, disk>>
  BY <1>0, <1>1 DEF WalkInv, NothingDone
<1>11. WalkInv'
  <2>. SUFFICES ASSUME pc' = "check" PROVE WalkInv'
    BY <1>1 DEF WalkInv, PastWalk, NothingDone
  <2>1. ASSUME raced' = {}, run'.cmd = "sync"
        PROVE  /\ \A t \in Queued' : /\ t.slot = Resolved(Name(t))'
                                    /\ Exists(t.slot)' /\ Exists(TargetFile(Name(t)))'
               /\ \A t \in tasks' : Verdict(t.slot, mem)' # "BothModified"
               /\ \A f \in Files : Walked(f)' /\ Managing(f)' =>
                    \/ TargetFile(f) \in todo'
                    \/ blocked'
                    \/ Verdict(Resolved(f), mem)' = "NonModified"
                    \/ \E t \in Queued' : Name(t) = f
    <3>1. raced = {} /\ run.cmd = "sync" /\ \A t \in tasks' : Name(t) \in Files
      BY <1>1, <2>1, <1>8, TaskFacts
    <3>2. \A t \in Queued' : /\ t.slot = Resolved(Name(t))'
                             /\ Exists(t.slot)' /\ Exists(TargetFile(Name(t)))'
      BY <1>2, <1>6, <1>7, <1>9, <3>1
    <3>3. \A t \in tasks' : Verdict(t.slot, mem)' # "BothModified"
      BY <1>6, <1>7, <1>9, <3>1
    <3>4. \A f \in Files : Walked(f)' /\ Managing(f)' =>
             \/ TargetFile(f) \in todo'
             \/ blocked'
             \/ Verdict(Resolved(f), mem)' = "NonModified"
             \/ \E t \in Queued' : Name(t) = f
      BY <1>2, <1>6, <1>7, <3>1
    <3>. QED
      BY <3>2, <3>3, <3>4
  <2>. QED
    BY <1>10, <2>1 DEF WalkInv, PastWalk
<1>. QED
  BY <1>5, <1>11 DEF RunInv

(* A step that moves on without touching files or records                  *)
LEMMA SameView ==
  ASSUME UNCHANGED <<file, mem, run>>
  PROVE  /\ \A s \in Slots : /\ Pair(s)' = Pair(s) /\ Converged(s)' = Converged(s)
                            /\ Verdict(s, mem)' = Verdict(s, mem)
         /\ \A f \in Files : /\ Walked(f)' = Walked(f) /\ Managing(f)' = Managing(f)
                            /\ Resolved(f)' = Resolved(f)
                            /\ Verdict(Resolved(f), mem)' = Verdict(Resolved(f), mem)
         /\ \A q \in Paths : Exists(q)' = Exists(q)
BY DEF Pair, Converged, Verdict, Walked, Managing, Resolved, Exists, Same, TargetOf

(* A run that has failed, or is over, has nothing left to keep.            *)
LEMMA OverWorks ==
  ASSUME SafetyInv, RunInv, pc' \notin Working \cup PastWalk,
         \/ done' = {} /\ AtHand' = {}
         \/ pc' # "idle" /\ done' = done /\ AtHand' \subseteq AtHand /\ run' = run
  PROVE  RunInv'
<1>1. /\ \A t \in Queued : t.op \in OpsOf(run.cmd)
      /\ \A t, u \in Queued : OnePerName(run.cmd) /\ Name(t) = Name(u) => t = u
  BY RunBasics DEF DoneInv
<1>2. done \cap AtHand = {}
  BY RunBasics DEF DoneInv
<1>3. pc' # "check" /\ pc' \notin {"record", "stamp", "drop", "exec", "commit"}
  BY DEF Working, PastWalk
<1>4. /\ \A t \in Queued' : t.op \in OpsOf(run'.cmd)
      /\ \A t, u \in Queued' : OnePerName(run'.cmd) /\ Name(t) = Name(u) => t = u
  BY <1>1 DEF Queued
<1>. QED
  BY <1>2, <1>3, <1>4 DEF RunInv, DoneInv, WalkInv, NothingDone

(* The user                                                                *)
LEMMA UserWorks ==
  ASSUME SafetyInv, RunInv, NEW p \in Paths, Touch(p)
  PROVE  RunInv'
<1>1. DoneInv /\ WalkInv
  BY DEF RunInv
<1>2. UNCHANGED <<disk, mem, run, pc, todo, tasks, task, blocked, done>>
  BY DEF Touch
<1>3. AtHand' = AtHand /\ Queued' = Queued /\ NothingDone' = NothingDone
  BY <1>2 DEF AtHand, Queued, NothingDone
<1>4. pc = "idle" \/ raced' # {}
  BY DEF Touch
<1>5. DoneInv'
  BY <1>1, <1>2, <1>3, <1>4 DEF DoneInv, Working, PastWalk
<1>6. WalkInv'
  BY <1>1, <1>2, <1>3, <1>4 DEF WalkInv, PastWalk
<1>. QED
  BY <1>5, <1>6 DEF RunInv

(* A run begins.                                                           *)
LEMMA StartWorks ==
  ASSUME SafetyInv, RunInv, NEW r \in Runs, Start(r)
  PROVE  RunInv'
<1>1. /\ pc = "idle" /\ pc' = "check" /\ mem' = disk /\ disk' = disk /\ todo' = Traversed(r)
      /\ run' = r /\ UNCHANGED <<file, tasks, task, done, raced>> /\ done = {}
      /\ tasks = {} /\ task = NoTask
  BY Basics, InHand DEF Start, RunInv, DoneInv, QueueInv
<1>2. AtHand' = {} /\ Queued' = {}
  BY <1>1 DEF AtHand, Queued
<1>3. ASSUME r.cmd = "sync", NEW f \in Files, r.paths = {} \/ TargetFile(f) \in r.paths,
             Exists(TargetFile(f))
      PROVE  TargetFile(f) \in todo'
  <2>1. TargetFile(f) \in Paths /\ TargetFile(f) \in Targets
    BY DEF TargetFile, Targets, Paths
  <2>. QED
    BY <1>1, <1>3, <2>1 DEF Traversed
<1>4. DoneInv'
  BY <1>1, <1>2 DEF DoneInv, PastWalk
<1>5. \A f \in Files : Managing(f)' => Exists(TargetFile(f))
  BY <1>1 DEF Managing, Exists
<1>6. WalkInv'
  BY <1>1, <1>2, <1>3, <1>5 DEF WalkInv, NothingDone, PastWalk, Walked
<1>. QED
  BY <1>4, <1>6 DEF RunInv

(* The walk is over.                                                       *)
LEMMA DecideWorks ==
  ASSUME SafetyInv, RunInv, Decide, SafetyInv'
  PROVE  RunInv'
<1>0. /\ DoneInv /\ WalkInv /\ TypeOK
      /\ \A u \in Queued : /\ u \in Tasks /\ u.slot \in Slots /\ Name(u) \in Files
  BY RunBasics, Basics
<1>1. /\ pc = "check" /\ pc' \in {"failed", "commit", "exec"} /\ todo = {} /\ done = {}
      /\ tasks' = tasks \cup OrphanTasks
      /\ blocked' /\ ~run.force => pc' = "failed"
      /\ pc' = "commit" => NothingToDo(tasks')
      /\ UNCHANGED <<file, disk, mem, run, todo, task, raced, done>> /\ task = NoTask
  BY <1>0, InHand DEF Decide, DoneInv
<1>2. /\ AtHand = tasks /\ AtHand' = tasks' /\ Queued = tasks /\ Queued' = tasks'
  BY <1>1, Basics DEF AtHand, Queued, SafetyInv, TypeInv, TypeOK
<1>3. /\ \A t \in Queued' : t.op \in OpsOf(run'.cmd)
      /\ \A t, u \in Queued' : OnePerName(run'.cmd) /\ Name(t) = Name(u) => t = u
  BY <1>2, Basics DEF SafetyInv, QueueInv
<1>4. /\ OrphanTasks # {} => run.cmd = "forget"
      /\ \A t \in OrphanTasks : t.op # "record"
  BY <1>0, OrphansAre
<1>5. ASSUME raced = {}, NEW t \in tasks', t.op = "record"
      PROVE  Pair(t.slot)'
  BY <1>0, <1>1, <1>2, <1>4, <1>5, SameView DEF DoneInv, Working
<1>6. DoneInv'
  BY <1>1, <1>2, <1>3, <1>5 DEF DoneInv
<1>7. ASSUME raced = {}, run.cmd = "sync"
      PROVE  /\ \A t \in Queued' : /\ t.slot = Resolved(Name(t))'
                                   /\ Exists(t.slot)' /\ Exists(TargetFile(Name(t)))'
             /\ \A t \in tasks' : Verdict(t.slot, mem)' # "BothModified"
             /\ \A f \in Files : Walked(f)' /\ Managing(f)' =>
                  \/ TargetFile(f) \in todo'
                  \/ blocked'
                  \/ Verdict(Resolved(f), mem)' = "NonModified"
                  \/ \E t \in Queued' : Name(t) = f
  <2>1. tasks' = tasks /\ (blocked => blocked')
    BY <1>1, <1>4, <1>7 DEF Decide
  <2>2. \A t \in tasks : t.slot \in Paths /\ TargetFile(Name(t)) \in Paths
    BY <1>0, <1>2, PathFacts
  <2>3. \A t \in tasks : /\ t.slot = Resolved(Name(t))
                         /\ Exists(t.slot) /\ Exists(TargetFile(Name(t)))
                         /\ Verdict(t.slot, mem) # "BothModified"
    BY <1>0, <1>1, <1>2, <1>7 DEF WalkInv, NothingDone
  <2>4. \A f \in Files : Walked(f) /\ Managing(f) =>
           \/ blocked
           \/ Verdict(Resolved(f), mem) = "NonModified"
           \/ \E t \in tasks : Name(t) = f
    BY <1>0, <1>1, <1>2, <1>7 DEF WalkInv
  <2>5. \A t \in Queued' : /\ t.slot = Resolved(Name(t))'
                           /\ Exists(t.slot)' /\ Exists(TargetFile(Name(t)))'
    BY <1>0, <1>1, <1>2, <2>1, <2>2, <2>3, SameView
  <2>6. \A t \in tasks' : Verdict(t.slot, mem)' # "BothModified"
    BY <1>0, <1>1, <1>2, <2>1, <2>3, SameView
  <2>7. \A f \in Files : Walked(f)' /\ Managing(f)' =>
           \/ TargetFile(f) \in todo'
           \/ blocked'
           \/ Verdict(Resolved(f), mem)' = "NonModified"
           \/ \E t \in Queued' : Name(t) = f
    BY <1>1, <1>2, <2>1, <2>4, SameView
  <2>. QED
    BY <2>5, <2>6, <2>7
<1>8. mem' = disk'
  BY <1>0, <1>1 DEF WalkInv, NothingDone
<1>9. pc' = "commit" => AtHand' = {} \/ (done' = {} /\ run'.dryRun)
  BY <1>1, <1>2 DEF NothingToDo
<1>10. WalkInv'
  BY <1>1, <1>7, <1>8, <1>9 DEF WalkInv, PastWalk
<1>. QED
  BY <1>6, <1>10 DEF RunInv

(* What a copy of sync replaces was there.                                 *)
LEMMA SyncThere ==
  ASSUME SafetyInv, RunInv, raced = {}, run.cmd = "sync", pc \in PastWalk, NEW t \in Queued
  PROVE  Exists(To(t)) /\ Exists(From(t))
<1>1. Exists(t.slot) /\ Exists(TargetFile(Name(t)))
  BY RunBasics DEF WalkInv
<1>. QED
  BY <1>1, RunBasics, TaskFacts

(* Beginning and completing a copy                                         *)
LEMMA CopyWorks ==
  ASSUME SafetyInv, RunInv, NEW t,
         (t \in tasks /\ BeginCopy(t)) \/ Completes(t)
  PROVE  RunInv'
<1>1. /\ t \in AtHand /\ t \in Tasks /\ Copies(t) /\ To(t) \in Paths /\ To(t)[1] = Name(t)
      /\ file'[To(t)] # Absent /\ pc' \in {"copy", "record"} /\ task' = t /\ AtHand' = AtHand
      /\ \A q \in Paths \ {To(t)} : file'[q] = file[q]
      /\ UNCHANGED <<mem, run, raced, done, todo, blocked>>
      /\ pc \in {"exec", "copy"}
  <2>1. CASE t \in tasks /\ BeginCopy(t)
    BY <2>1, CopyBegins DEF BeginCopy
  <2>2. CASE Completes(t)
    BY <2>2, CopyCompletes DEF Completes, FinishCopy, Encrypt
  <2>. QED
    BY <2>1, <2>2
<1>2. Queued' = Queued /\ done' \cap AtHand' = {} /\ t \in Queued
  BY <1>1, RunBasics DEF Queued, DoneInv
<1>3. \A f \in Files : f # Name(t) => Untouched(f)
  BY <1>1 DEF Untouched
<1>4. pc \in PastWalk /\ pc \in Working /\ pc' \in PastWalk
  BY <1>1 DEF PastWalk, Working
<1>5. raced = {} /\ run.cmd = "sync" => \A p \in Paths : file'[p] # Absent <=> file[p] # Absent
  BY <1>1, <1>2, <1>4, SyncThere DEF Exists
<1>6. t.op # "record" /\ t \notin done'
  BY <1>1, <1>2 DEF Copies
<1>7. ASSUME pc' = "record" PROVE Pair(task.slot)'
  <2>1. Completes(t)
    BY <1>7, CopyBegins
  <2>2. Settled(t.slot, t.slot)' /\ Settled(TargetFile(Name(t)), t.slot)'
    BY <2>1, CopyCompletes
  <2>3. TargetOf(task.slot)' = TargetFile(Name(t)) /\ task'.slot = t.slot
    BY <1>1, TaskFacts, PathFacts DEF TargetOf, Name
  <2>. QED
    BY <2>2, <2>3 DEF Settled, Pair, Exists, Same
<1>. QED
  BY <1>1, <1>2, <1>3, <1>4, <1>5, <1>6, <1>7, TaskWorks

(* Agreements, records, timestamps and removals                            *)
LEMMA RecordWorks ==
  ASSUME SafetyInv, RunInv, (\E t \in tasks : RecordOnly(t)) \/ Record
  PROVE  RunInv'
<1>1. ASSUME NEW t \in tasks, RecordOnly(t) PROVE RunInv'
  <2>1. /\ t \in AtHand /\ pc = "exec" /\ pc' = "record" /\ task' = t /\ t.op = "record"
        /\ UNCHANGED <<file, mem, run, raced, done, todo, blocked>>
        /\ tasks' = tasks \ {t} /\ AtHand' = AtHand /\ t \in Tasks
    BY <1>1, Begun, TasksAtHand DEF RecordOnly, AtHand
  <2>2. Queued' = Queued /\ done' \cap AtHand' = {} /\ t \notin done'
    BY <2>1, RunBasics DEF Queued, DoneInv
  <2>3. /\ \A f \in Files : f # Name(t) => Untouched(f)
        /\ pc \in PastWalk /\ pc \in Working /\ pc' \in PastWalk
    BY <2>1 DEF Untouched, PastWalk, Working
  <2>4. raced = {} => Pair(t.slot)' /\ Pair(task.slot)'
    <3>1. raced = {} => Pair(t.slot)
      BY <2>1, <2>3, RunBasics DEF DoneInv
    <3>2. task'.slot = t.slot /\ TargetOf(task.slot)' = TargetOf(t.slot)
          /\ TargetOf(t.slot)' = TargetOf(t.slot)
      BY <2>1 DEF TargetOf
    <3>. QED
      BY <2>1, <3>1, <3>2 DEF Pair, Exists, Same
  <2>. QED
    BY <2>1, <2>2, <2>3, <2>4, TaskWorks
<1>2. ASSUME Record PROVE RunInv'
  <2>. DEFINE t == task
              s == task.slot
  <2>1. /\ t \in AtHand /\ pc = "record" /\ pc' = "stamp" /\ task' = task /\ t \in Tasks
        /\ UNCHANGED <<file, run, raced, done, todo, blocked, tasks>> /\ AtHand' = AtHand
        /\ mem' = [mem EXCEPT ![s] = Recorded(s)] /\ s \in Slots /\ s[1] = Name(t)
    BY <1>2, Basics, InHand, TaskFacts DEF Record, AtHand, Name
  <2>2. Queued' = Queued /\ done' \cap AtHand' = {} /\ t \notin done'
    BY <2>1, RunBasics DEF Queued, DoneInv
  <2>3. \A u \in Slots : mem'[u] = IF u = s THEN Recorded(s) ELSE mem[u]
    BY <2>1, Basics
  <2>4. /\ \A f \in Files : f # Name(t) => Untouched(f)
        /\ pc \in PastWalk /\ pc \in Working /\ pc' \in PastWalk
    BY <2>1, <2>3 DEF Untouched, PastWalk, Working
  <2>5. raced = {} => Pair(task.slot)'
    <3>1. raced = {} => Pair(s)
      BY <2>1, RunBasics DEF DoneInv
    <3>. QED
      BY <2>1, <3>1 DEF Pair, Exists, Same, TargetOf
  <2>6. mem'[task'.slot].sha256 = file'[task'.slot].content
    BY <2>1, <2>3 DEF Recorded
  <2>7. /\ UNCHANGED <<run, raced, todo, blocked>> /\ done' \in {done, done \cup {task}}
        /\ pc' # "exec" /\ pc' # "commit" /\ pc' # "drop"
        /\ \A p \in Paths : file'[p] # Absent <=> file[p] # Absent
    BY <2>1
  <2>8. raced = {} /\ task \in AtHand' /\ task.op = "record" => Pair(task.slot)'
    BY <2>5
  <2>. QED
    BY <2>1, <2>2, <2>4, <2>5, <2>6, <2>7, <2>8, TaskWorks
<1>. QED
  BY <1>1, <1>2

(* Setting both mtimes brings the pair into sync.                          *)
LEMMA StampConverges ==
  ASSUME SafetyInv, RunInv, Stamp, raced = {}, NEW s, s = task.slot
  PROVE  Converged(s)'
<1>1. /\ s \in Slots /\ s \in Paths /\ TargetOf(s) \in Paths /\ TargetOf(s) # s
      /\ pc = "stamp" /\ mem' = mem
  BY Basics, InHand, TaskFacts, PathFacts DEF Stamp
<1>2. /\ Exists(s) /\ Exists(TargetOf(s))
      /\ file' = [file EXCEPT ![s].mtime = mem[s].mtime, ![TargetOf(s)].mtime = mem[s].mtime]
  BY DEF Stamp, Stamped
<1>3. mem[s] # Absent /\ mem[s].sha256 = file[s].content /\ Same(s, TargetOf(s))
  BY <1>1, RunBasics, Basics DEF TimeInv, DoneInv, Pair
<1>4. /\ file[s] \in Entries /\ file[TargetOf(s)] \in Entries
      /\ file \in [Paths -> Entries \cup {Absent}]
  BY <1>1, <1>2, Basics DEF Exists
<1>5. /\ file'[s] = [file[s] EXCEPT !.mtime = mem[s].mtime]
      /\ file'[TargetOf(s)] = [file[TargetOf(s)] EXCEPT !.mtime = mem[s].mtime]
  BY <1>1, <1>2, <1>4
<1>6. /\ file'[s].mtime = mem[s].mtime /\ file'[s].content = file[s].content
      /\ file'[TargetOf(s)].mtime = mem[s].mtime
      /\ file'[TargetOf(s)].content = file[TargetOf(s)].content
  BY <1>4, <1>5 DEF Entries
<1>7. file'[s] # Absent /\ file'[TargetOf(s)] # Absent
  <2>1. Restamp
    BY DEF Restamp
  <2>. QED
    BY <1>1, <1>2, <2>1, Basics, RestampIs DEF Exists
<1>. QED
  BY <1>1, <1>3, <1>6, <1>7 DEF Converged, Pair, Exists, Same

(* Ending a task                                                           *)
LEMMA StampWorks ==
  ASSUME SafetyInv, RunInv, Stamp
  PROVE  RunInv'
<1>. SUFFICES ASSUME NEW t, t = task PROVE RunInv'
  OBVIOUS
<1>1. /\ t \in AtHand /\ t \in Tasks /\ pc = "stamp" /\ tasks' = tasks
      /\ UNCHANGED <<run, raced, todo, blocked, mem>>
      /\ \/ pc' = "drop" /\ task' = t /\ done' = done /\ Encrypts(t)
         \/ pc' = "exec" /\ task' = NoTask /\ done' = done \cup {t}
  BY Basics, InHand, TaskFacts DEF Stamp, TaskDone, AtHand
<1>2. t \notin tasks /\ t \notin done /\ t # NoTask /\ done \cap AtHand = {}
  BY <1>1, RunBasics, Basics, TaskFacts DEF QueueInv, DoneInv
<1>3. Queued' = Queued /\ done' \cap AtHand' = {} /\ (t \in AtHand' => pc' = "drop")
  BY <1>1, <1>2 DEF Queued, AtHand
<1>4. \A p \in Paths : file'[p] # Absent <=> file[p] # Absent
  <2>1. Restamp
    BY DEF Restamp
  <2>. QED
    BY <2>1, Basics, RestampIs
<1>5. \A f \in Files : f # Name(t) => Untouched(f)
  <2>1. t.slot[1] = Name(t) /\ TargetOf(t.slot)[1] = Name(t)
    BY <1>1, TaskFacts, PathFacts DEF Name
  <2>2. \A p \in Paths \ {t.slot, TargetOf(t.slot)} : file'[p] = file[p]
    BY Basics DEF Stamp, Stamped
  <2>. QED
    BY <1>1, <2>1, <2>2 DEF Untouched
<1>6. raced = {} => Converged(t.slot)'
  <2>1. ASSUME NEW s, s = t.slot, raced = {} PROVE Converged(s)'
    BY <2>1, StampConverges
  <2>. QED
    BY <2>1
<1>7. raced = {} /\ pc' = "drop" => Converged(task.slot)'
  BY <1>1, <1>6 DEF Converged, Pair, Exists, Same, TargetOf
<1>8. /\ done' \in {done, done \cup {t}} /\ (pc' = "exec" => t \in done')
      /\ pc' \notin {"record", "stamp", "commit"}
      /\ ~(t \in AtHand' /\ t.op = "record")
  BY <1>1, <1>3, TaskFacts
<1>9. pc \in PastWalk /\ pc \in Working /\ pc' \in PastWalk
  BY <1>1 DEF PastWalk, Working
<1>. QED
  BY <1>1, <1>3, <1>4, <1>5, <1>6, <1>7, <1>8, <1>9, TaskWorks

(* The plain source an encrypted one replaces goes.                        *)
LEMMA DropWorks ==
  ASSUME SafetyInv, RunInv, DropPlain
  PROVE  RunInv'
<1>. SUFFICES ASSUME NEW t, t = task PROVE RunInv'
  OBVIOUS
<1>. DEFINE s == Plain(Name(t))
<1>1. /\ t \in AtHand /\ t \in Tasks /\ pc = "drop" /\ tasks' = tasks
      /\ UNCHANGED <<run, raced, todo, blocked>>
      /\ pc' = "exec" /\ task' = NoTask /\ done' = done \cup {t}
      /\ s \in Slots /\ s[1] = Name(t) /\ s[2] = "plain" /\ s \in Paths
  BY Basics, InHand, TaskFacts, PathFacts DEF DropPlain, TaskDone, AtHand
<1>2. t \notin tasks /\ t \notin done /\ t # NoTask /\ done \cap AtHand = {}
  BY <1>1, RunBasics, Basics, TaskFacts DEF QueueInv, DoneInv
<1>3. Queued' = Queued /\ done' \cap AtHand' = {} /\ t \in done' /\ t \notin AtHand'
  BY <1>1, <1>2 DEF Queued, AtHand
<1>4. run.cmd = "add" /\ Encrypts(t)
  BY <1>1, Basics DEF HandInv
<1>5. /\ \A p \in Paths : p # s => file'[p] = file[p]
      /\ \A u \in Slots : u # s => mem'[u] = mem[u]
  BY <1>1, Basics DEF DropPlain, Name
<1>6. \A f \in Files : f # Name(t) => Untouched(f)
  BY <1>1, <1>5 DEF Untouched
<1>7. raced = {} => Converged(t.slot)'
  <2>1. /\ t.slot \in Slots /\ t.slot \in Paths /\ TargetOf(t.slot) \in Paths
        /\ t.slot # s /\ TargetOf(t.slot) # s
    BY <1>1, <1>4, TaskFacts, PathFacts
  <2>2. raced = {} => Converged(t.slot)
    BY <1>1, RunBasics DEF DoneInv
  <2>3. /\ file'[t.slot] = file[t.slot] /\ file'[TargetOf(t.slot)] = file[TargetOf(t.slot)]
        /\ mem'[t.slot] = mem[t.slot]
    BY <1>5, <2>1
  <2>. QED
    BY <2>2, <2>3 DEF Converged, Pair, Exists, Same
<1>8. /\ done' \in {done, done \cup {t}} /\ (pc' = "exec" => t \in done')
      /\ pc' \notin {"record", "stamp", "commit", "drop"}
  BY <1>1, <1>3
<1>9. pc \in PastWalk /\ pc \in Working /\ pc' \in PastWalk
  BY <1>1 DEF PastWalk, Working
<1>. QED
  BY <1>1, <1>3, <1>4, <1>6, <1>7, <1>8, <1>9, TaskWorks

(* forget                                                                  *)
LEMMA DeleteWorks ==
  ASSUME SafetyInv, RunInv, NEW t \in tasks, Delete(t)
  PROVE  RunInv'
<1>1. /\ t \in AtHand /\ t \in Tasks /\ pc = "exec" /\ pc' = "exec" /\ tasks' = tasks \ {t}
      /\ UNCHANGED <<run, raced, todo, blocked, task>> /\ done' = done \cup {t}
      /\ t.slot \in Slots /\ t.slot[1] = Name(t) /\ t.op \in {"delete", "unlist"} /\ task = NoTask
  BY Basics, InHand, TaskFacts DEF Delete, AtHand, Name
<1>2. run.cmd = "forget" /\ done \cap AtHand = {}
  BY <1>1, TasksAtHand, RunBasics DEF DoneInv
<1>3. Queued' = Queued /\ done' \cap AtHand' = {} /\ t \in done'
  BY <1>1, <1>2 DEF Queued, AtHand
<1>4. /\ \A p \in Paths : p # t.slot => file'[p] = file[p]
      /\ \A u \in Slots : u # t.slot => mem'[u] = mem[u]
  BY <1>1, Basics DEF Delete
<1>5. \A f \in Files : f # Name(t) => Untouched(f)
  BY <1>1, <1>4 DEF Untouched
<1>6. pc \in PastWalk /\ pc \in Working /\ pc' \in PastWalk /\ ~MakesEqual(t) /\ t.op # "record"
  BY <1>1 DEF PastWalk, Working, MakesEqual
<1>. QED
  BY <1>1, <1>2, <1>3, <1>5, <1>6, TaskWorks

(* Every step keeps the invariant.                                         *)
LEMMA RunStep ==
  ASSUME NeverDenied, SafetyInv, RunInv, SafetyInv', [Next]_vars
  PROVE  RunInv'
<1>1. ASSUME NEW r \in Runs, Start(r) PROVE RunInv'
  BY <1>1, StartWorks
<1>2. ASSUME NEW p \in todo, Check(p) PROVE RunInv'
  BY <1>2, CheckWorks
<1>3. ASSUME Decide PROVE RunInv'
  BY <1>3, DecideWorks
<1>4. ASSUME NEW t \in tasks, BeginCopy(t) PROVE RunInv'
  BY <1>4, CopyWorks
<1>5. ASSUME NEW t \in tasks, Encrypt(t) PROVE RunInv'
  BY <1>5, CopyWorks DEF Completes
<1>6. ASSUME NEW t \in tasks, RecordOnly(t) PROVE RunInv'
  BY <1>6, RecordWorks
<1>7. ASSUME NEW t \in tasks, Delete(t) PROVE RunInv'
  BY <1>7, DeleteWorks
<1>8. ASSUME NEW t \in tasks, SkipTask(t) PROVE RunInv'
  BY <1>8 DEF SkipTask, NeverDenied
<1>9. ASSUME FinishCopy PROVE RunInv'
  BY <1>9, CopyWorks DEF Completes
<1>10. ASSUME Record PROVE RunInv'
  BY <1>10, RecordWorks
<1>11. ASSUME Stamp PROVE RunInv'
  BY <1>11, StampWorks
<1>12. ASSUME StampDenied PROVE RunInv'
  BY <1>12 DEF StampDenied, NeverDenied
<1>13. ASSUME DropPlain PROVE RunInv'
  BY <1>13, DropWorks
<1>14. ASSUME FailTask PROVE RunInv'
  <2>1. pc' = "failed" /\ done' = done /\ tasks' = tasks /\ task' = NoTask /\ run' = run
    BY <1>14 DEF FailTask
  <2>2. AtHand' \subseteq AtHand
    BY <2>1 DEF AtHand
  <2>. QED
    BY <2>1, <2>2, OverWorks DEF Working, PastWalk
<1>15. ASSUME TasksDone PROVE RunInv'
  <2>1. /\ pc = "exec" /\ pc' = "commit" /\ tasks = {} /\ task = NoTask
        /\ UNCHANGED <<file, disk, mem, run, todo, tasks, task, blocked, raced, done>>
    BY <1>15, Basics, InHand DEF TasksDone
  <2>2. AtHand = {} /\ AtHand' = {} /\ Queued' = Queued /\ Queued = done
    BY <2>1 DEF AtHand, Queued
  <2>3. /\ DoneInv /\ WalkInv
        /\ \A u \in Queued : /\ u \in Tasks /\ u.slot \in Slots /\ Name(u) \in Files
                             /\ u.slot \in Paths /\ TargetFile(Name(u)) \in Paths
    BY RunBasics, PathFacts
  <2>4. DoneInv'
    <3>1. \A u \in done : Alone(u)' => Alone(u)
      BY <2>1, <2>2 DEF Alone
    <3>. QED
      BY <2>1, <2>2, <2>3, <3>1, SameView DEF DoneInv, Working, PastWalk
  <2>5. WalkInv'
    <3>1. /\ pc \in PastWalk /\ pc' \in PastWalk /\ ~NothingDone'
      BY <2>1 DEF PastWalk, NothingDone
    <3>2. ASSUME raced' = {}, run'.cmd = "sync"
          PROVE  /\ \A u \in Queued' : /\ u.slot = Resolved(Name(u))'
                                      /\ Exists(u.slot)' /\ Exists(TargetFile(Name(u)))'
                 /\ \A f \in Files : Walked(f)' /\ Managing(f)' =>
                       \/ TargetFile(f) \in todo'
                       \/ blocked'
                       \/ Verdict(Resolved(f), mem)' = "NonModified"
                       \/ \E u \in Queued' : Name(u) = f
      <4>1. \A u \in Queued' : /\ u.slot = Resolved(Name(u))'
                               /\ Exists(u.slot)' /\ Exists(TargetFile(Name(u)))'
        BY <2>1, <2>2, <2>3, <3>1, <3>2, SameView DEF WalkInv
      <4>2. \A f \in Files : Walked(f)' /\ Managing(f)' =>
                       \/ TargetFile(f) \in todo'
                       \/ blocked'
                       \/ Verdict(Resolved(f), mem)' = "NonModified"
                       \/ \E u \in Queued' : Name(u) = f
        BY <2>1, <2>2, <2>3, <3>1, <3>2, SameView DEF WalkInv
      <4>. QED
        BY <4>1, <4>2
    <3>. QED
      BY <2>1, <2>2, <2>3, <3>1, <3>2 DEF WalkInv
  <2>. QED
    BY <2>4, <2>5 DEF RunInv
<1>16. ASSUME Commit \/ Fail \/ Crash PROVE RunInv'
  <2>1. pc' = "idle" /\ done' = {} /\ tasks' = {} /\ task' = NoTask
    BY <1>16 DEF Commit, Fail, Crash, Quit
  <2>2. AtHand' = {}
    BY <2>1 DEF AtHand
  <2>. QED
    BY <2>1, <2>2, OverWorks DEF Working, PastWalk
<1>17. ASSUME NEW p \in Paths, NEW c \in Contents, Edit(p, c) PROVE RunInv'
  BY <1>17, UserWorks DEF Edit
<1>18. ASSUME NEW p \in Paths, Remove(p) PROVE RunInv'
  BY <1>18, UserWorks DEF Remove
<1>19. ASSUME UNCHANGED vars PROVE RunInv'
  BY <1>19 DEF vars, RunInv, DoneInv, WalkInv, NothingDone, Working, PastWalk, AtHand, Queued,
     Alone,
         Pair, Converged, Walked, Managing, Verdict, Resolved, Exists, Same, TargetOf
<1>. QED
  BY StepsAre, <1>1, <1>2, <1>3, <1>4, <1>5, <1>6, <1>7, <1>8, <1>9, <1>10, <1>11,
     <1>12, <1>13, <1>14, <1>15, <1>16, <1>17, <1>18, <1>19 DEF Acts

(* A new installation has no run.                                          *)
LEMMA InitRun == Init => RunInv
BY DEF Init, RunInv, DoneInv, WalkInv, NothingDone, PastWalk, Working, AtHand, Queued

-----------------------------------------------------------------------------
(* What the runs achieve *)

(* The first write of a run of sync                                        *)
FirstWriteSpares ==
  ByDfm /\ run.cmd = "sync" /\ raced = {} /\ file' # file /\ task = NoTask /\ done = {}
    => IF run.force
       THEN \A f \in Files : SyncConflict(f) =>
              \A p \in Paths : p[1] = f => file'[p] = file[p]
       ELSE \A f \in Files : run.paths = {} \/ <<f, "target">> \in run.paths
              => ~SyncConflict(f)

(* It spares every name in conflict.                                       *)
LEMMA FirstWrite ==
  ASSUME NeverDenied, SafetyInv, RunInv, [Next]_vars
  PROVE  FirstWriteSpares
<1>. SUFFICES ASSUME ByDfm, run.cmd = "sync", raced = {}, file' # file, task = NoTask, done = {}
              PROVE  IF run.force
                     THEN \A f \in Files : SyncConflict(f) =>
                            \A p \in Paths : p[1] = f => file'[p] = file[p]
                     ELSE \A f \in Files : run.paths = {} \/ <<f, "target">> \in run.paths
                            => ~SyncConflict(f)
  BY DEF FirstWriteSpares
<1>0. /\ DoneInv /\ WalkInv /\ TypeOK /\ tasks \subseteq Tasks
      /\ \A u \in Queued : /\ u \in Tasks /\ u.slot \in Slots /\ Name(u) \in Files
  BY RunBasics, Basics
<1>1. pc \notin {"copy", "record", "stamp", "drop"} /\ Queued = tasks
  BY <1>0, InHand, TaskFacts DEF TypeOK, Queued, AtHand
<1>2. PICK t \in tasks : BeginCopy(t) \/ Encrypt(t)
  <2>1. ~(\E r \in Runs : Start(r)) /\ ~(\E p \in todo : Check(p)) /\ ~Decide /\ ~TasksDone
    BY DEF Start, Check, Decide, TasksDone
  <2>2. ~FinishCopy /\ ~Record /\ ~Stamp /\ ~StampDenied /\ ~DropPlain
    BY <1>1 DEF FinishCopy, Record, Stamp, StampDenied, DropPlain
  <2>3. ~FailTask
    BY <1>1 DEF FailTask
  <2>4. ~(Commit \/ Fail \/ Crash) /\ ~UNCHANGED vars
    BY DEF Commit, Fail, Crash, Quit, vars
  <2>5. /\ ~(\E p \in Paths, c \in Contents : Edit(p, c))
        /\ ~(\E p \in Paths : Remove(p))
    BY DEF Edit, Remove, Touch, ByDfm
  <2>6. ASSUME NEW t \in tasks PROVE ~RecordOnly(t) /\ ~SkipTask(t) /\ ~Delete(t)
    <3>1. t \in AtHand
      BY DEF AtHand
    <3>2. t.op \notin {"delete", "unlist"}
      BY <3>1, TasksAtHand
    <3>. QED
      BY <3>2 DEF RecordOnly, SkipTask, Delete
  <2>. QED
    BY <2>1, <2>2, <2>3, <2>4, <2>5, <2>6, StepsAre DEF Acts
<1>3. /\ pc = "exec" /\ t \in Tasks /\ To(t) \in Paths /\ To(t)[1] = Name(t)
      /\ \A q \in Paths \ {To(t)} : file'[q] = file[q]
  BY <1>0, <1>2, CopyBegins, CopyCompletes, TaskFacts DEF Completes, BeginCopy, Encrypt
<1>4. /\ mem = disk /\ todo = {} /\ (~run.force => ~blocked)
      /\ \A u \in tasks : u.slot = Resolved(Name(u)) /\ Verdict(u.slot, mem) # "BothModified"
      /\ \A f \in Files : Walked(f) /\ Managing(f) =>
            \/ blocked
            \/ Verdict(Resolved(f), mem) = "NonModified"
            \/ \E u \in tasks : Name(u) = f
  BY <1>0, <1>1, <1>3 DEF WalkInv, NothingDone, PastWalk
<1>5. \A f \in Files : SyncConflict(f) => ~\E u \in tasks : Name(u) = f
  BY <1>4 DEF SyncConflict
<1>6. \A f \in Files : SyncConflict(f) => Managing(f) /\ Verdict(Resolved(f), mem) = "BothModified"
  <2>1. \A f \in Files : Resolved(f) \in Slots
    BY PathFacts DEF Resolved
  <2>. QED
    BY <1>4, <2>1, NoRecordVerdict DEF SyncConflict, Managing, TargetFile
<1>7. CASE run.force
  BY <1>3, <1>5, <1>7
<1>8. CASE ~run.force
  BY <1>4, <1>5, <1>6, <1>8 DEF Walked, TargetFile
<1>. QED
  BY <1>7, <1>8

(* The invariant holds.                                                    *)
LEMMA RunsKept == NeverDenied => (Spec => [](SafetyInv /\ RunInv))
<1>. SUFFICES ASSUME NeverDenied PROVE Spec => [](SafetyInv /\ RunInv)
  OBVIOUS
<1>1. Init => SafetyInv /\ RunInv
  BY InitSafe, InitRun
<1>2. (SafetyInv /\ RunInv) /\ [Next]_vars => (SafetyInv /\ RunInv)'
  BY SafetyKept, RunStep
<1>. QED
  BY <1>1, <1>2, PTL DEF Spec

(* A run that succeeds leaves nothing to do for the pairs it made equal:   *)
(* with the state it is about to store each compares as not modified,      *)
(* unless the user interfered or two sources went to one target.  It holds *)
(* after any history of edits, errors and crashes in which no step is      *)
(* refused permission, a case in which the code skips the task.            *)
THEOREM RunsConverge ==
  ASSUME NeverDenied
  PROVE  Spec => []RunConverges
<1>1. SafetyInv /\ RunInv => RunConverges
  <2>. SUFFICES ASSUME SafetyInv, RunInv, pc = "commit", raced = {}, NEW t \in done, MakesEqual(t),
                       \A u \in done \ {t} : u.slot[1] # t.slot[1]
                PROVE  Verdict(t.slot, mem) = "NonModified"
    BY DEF RunConverges, MakesEqual
  <2>1. /\ DoneInv /\ WalkInv /\ t.slot \in Slots /\ Queued = done
    BY RunBasics DEF WalkInv, Queued
  <2>2. Alone(t)
    BY <2>1 DEF Alone, Name
  <2>. QED
    BY <2>1, <2>2, ConvergedMeans DEF DoneInv, PastWalk
<1>. QED
  BY <1>1, RunsKept, PTL

(* sync without PATH and --force leaves every managed pair unmodified,     *)
(* whatever was edited on either side before it, under the same condition. *)
THEOREM SyncLeavesAllConverged ==
  ASSUME NeverDenied
  PROVE  Spec => []SyncConverges
<1>1. SafetyInv /\ RunInv => SyncConverges
  <2>. SUFFICES ASSUME SafetyInv, RunInv, pc = "commit", raced = {}, run.cmd = "sync",
                       run.paths = {}, ~run.force, ~run.dryRun, NEW f \in Files,
                       Exists(TargetFile(f)), Exists(Resolved(f)), mem[Resolved(f)] # Absent
                PROVE  Verdict(Resolved(f), mem) = "NonModified"
    BY DEF SyncConverges, TargetFile
  <2>1. DoneInv /\ WalkInv /\ Queued = done /\ pc \in PastWalk
    BY RunBasics DEF WalkInv, Queued, PastWalk
  <2>2. \/ Verdict(Resolved(f), mem) = "NonModified"
        \/ \E t \in done : Name(t) = f /\ t.slot = Resolved(f)
    BY <2>1 DEF WalkInv, Walked, Managing
  <2>3. ASSUME NEW t \in done, t.slot = Resolved(f)
        PROVE  Verdict(Resolved(f), mem) = "NonModified"
    <3>1. OnePerName(run.cmd) /\ MakesEqual(t) /\ t.slot \in Slots
      BY <2>1, RunBasics DEF DoneInv, OnePerName, OpsOf, MakesEqual
    <3>2. Alone(t)
      BY <2>1, <3>1 DEF Alone, DoneInv
    <3>. QED
      BY <2>1, <2>3, <3>1, <3>2, ConvergedMeans DEF DoneInv
  <2>. QED
    BY <2>2, <2>3
<1>. QED
  BY <1>1, RunsKept, PTL

(* sync writes no file while a pair it walked over is in conflict, and     *)
(* with --force it leaves the conflicts alone, under the same condition: a *)
(* pair whose check is refused permission is not known to be in conflict.  *)
THEOREM ConflictsRespected ==
  ASSUME NeverDenied
  PROVE  Spec => SyncRespectsConflicts
<1>1. SafetyInv /\ RunInv /\ [Next]_vars => [FirstWriteSpares]_vars
  BY FirstWrite
<1>2. ASSUME [FirstWriteSpares]_vars
      PROVE  [/\ ByDfm /\ run.cmd = "sync" /\ raced = {} /\ file' # file
              /\ task = NoTask /\ done = {}
              => IF run.force
                 THEN \A f \in Files : SyncConflict(f) =>
                        \A p \in Paths : p[1] = f => file'[p] = file[p]
                 ELSE \A f \in Files : run.paths = {} \/ <<f, "target">> \in run.paths
                        => ~SyncConflict(f)]_vars
  BY <1>2 DEF FirstWriteSpares
<1>. QED
  BY <1>1, <1>2, RunsKept, PTL DEF Spec, SyncRespectsConflicts
-----------------------------------------------------------------------------
(* What status foretells                                                   *)

(* Status lists a record with a source unless its pair is up to date, and  *)
(* a target of which no source has a record.                               *)
LEMMA Listed ==
  ASSUME NEW f \in Files
  PROVE  /\ \A s \in Slots :
              s[1] = f /\ disk[s] # Absent /\ Exists(s) /\ Code(s) \in Codes \ {"UpToDate"}
                => Code(s) \in CodesOf(f)
         /\ Exists(TargetFile(f)) /\ "Unmanaged" \notin CodesOf(f)
              => \E s \in {Plain(f), Enc(f)} : disk[s] # Absent /\ Exists(s)
<1>1. Report({}) = {e \in ManagedEntries \cup UnmanagedEntries : e.code \in Codes \ {"UpToDate"}}
  BY DEF Report, Codes
<1>2. ASSUME NEW s \in Slots, s[1] = f, disk[s] # Absent, Exists(s),
             Code(s) \in Codes \ {"UpToDate"}
      PROVE  Code(s) \in CodesOf(f)
  <2>. DEFINE e == [code |-> Code(s), name |-> s[1], encrypted |-> s[2] = "enc"]
  <2>1. e \in ManagedEntries
    BY <1>2 DEF ManagedEntries, Reported, StateKeys
  <2>2. e.code = Code(s) /\ e.name = f
    BY <1>2
  <2>3. e \in Report({})
    BY <1>1, <1>2, <2>1, <2>2
  <2>. HIDE DEF e
  <2>. QED
    BY <2>2, <2>3 DEF CodesOf
<1>3. ASSUME Exists(TargetFile(f)), ~\E s \in {Plain(f), Enc(f)} : disk[s] # Absent /\ Exists(s)
      PROVE  "Unmanaged" \in CodesOf(f)
  <2>. DEFINE t == TargetFile(f)
              e == [code |-> "Unmanaged", name |-> t[1], encrypted |-> FALSE]
  <2>1. t \in Targets /\ t[1] = f
    BY DEF TargetFile, Targets
  <2>2. Plain(t[1]) \notin LiveKeys /\ Enc(t[1]) \notin LiveKeys
    BY <1>3, <2>1 DEF LiveKeys, Reported, StateKeys
  <2>3. e \in UnmanagedEntries
    BY <1>3, <2>1, <2>2 DEF UnmanagedEntries
  <2>4. e.code = "Unmanaged" /\ e.name = f
    BY <2>1
  <2>5. e \in Report({})
    BY <1>1, <2>3, <2>4 DEF Codes
  <2>. HIDE DEF e
  <2>. QED
    BY <2>4, <2>5 DEF CodesOf
<1>. QED
  BY <1>2, <1>3

(* The code status gives a record whose two files exist                    *)
LEMMA CodeIs ==
  ASSUME SafetyInv, pc = "check", ~StatusFails, NEW s \in Slots, mem[s] # Absent,
         Exists(s), Exists(TargetOf(s))
  PROVE  /\ mem = disk
         /\ Verdict(s, mem) \in Modified \cup {"NonModified"}
         /\ Verdict(s, mem) \in Modified => Verdict(s, mem) \in CodesOf(s[1])
<1>1. mem = disk
  BY Basics DEF MemInv
<1>2. Verdict(s, mem) \in Verdicts \ {"NeverSynchronized"}
  <2>1. Verdict(s, mem) \in Verdicts
    BY DEF Verdict, CompareFiles, CompareByContent, CompareByTimestamps, Verdicts
  <2>. QED
    BY <2>1, Basics, VerdictFacts
<1>3. Code(s) = IF Verdict(s, mem) = "NonModified" THEN "UpToDate" ELSE Verdict(s, mem)
  BY <1>1 DEF Code
<1>4. Code(s) # "Inconsistent"
  <2>. DEFINE e == [code |-> Code(s), name |-> s[1], encrypted |-> s[2] = "enc"]
  <2>1. e \in ManagedEntries
    BY <1>1 DEF ManagedEntries, Reported, StateKeys
  <2>2. e.code = Code(s)
    OBVIOUS
  <2>. HIDE DEF e
  <2>. QED
    BY <2>1, <2>2 DEF StatusFails
<1>5. Verdict(s, mem) \in Modified \cup {"NonModified"}
  BY <1>2, <1>3, <1>4 DEF Verdicts, Modified
<1>6. ASSUME Verdict(s, mem) \in Modified PROVE Verdict(s, mem) \in CodesOf(s[1])
  <2>1. Code(s) = Verdict(s, mem) /\ Code(s) \in Codes \ {"UpToDate"}
    BY <1>3, <1>6 DEF Modified, Codes
  <2>. QED
    BY <1>1, <2>1, Listed, PathFacts
<1>. QED
  BY <1>1, <1>5, <1>6

(* sync copies from the side status lists as modified, and refuses what it *)
(* lists as a conflict.                                                    *)
LEMMA SyncForetold ==
  ASSUME SafetyInv, pc = "check", ~StatusFails, NEW f \in Files
  PROVE  LET o == SyncTarget(f) IN Exists(TargetFile(f)) =>
         /\ o.blocks => "BothModified" \in CodesOf(f)
         /\ \A t \in o.queue : \/ t.op = "push" /\ "TargetModified" \in CodesOf(f)
                               \/ t.op = "pull" /\ "SourceModified" \in CodesOf(f)
         /\ CodesOf(f) \cap Modified = {} => o = Skip
<1>. DEFINE s == Resolved(f)
            v == Verdict(s, mem)
            o == SyncTarget(f)
<1>1. s \in Slots /\ s[1] = f /\ TargetOf(s) = TargetFile(f)
  BY PathFacts DEF Resolved
<1>2. CASE ~Exists(s) \/ mem[s] = Absent
  <2>1. o = Skip /\ Skip.queue = {} /\ Skip.blocks = FALSE
    BY <1>2 DEF SyncTarget, Skip
  <2>. QED
    BY <2>1
<1>3. ASSUME Exists(s), mem[s] # Absent, Exists(TargetFile(f))
      PROVE  /\ o.blocks => "BothModified" \in CodesOf(f)
             /\ \A t \in o.queue : \/ t.op = "push" /\ "TargetModified" \in CodesOf(f)
                                   \/ t.op = "pull" /\ "SourceModified" \in CodesOf(f)
             /\ CodesOf(f) \cap Modified = {} => o = Skip
  <2>1. /\ v \in Modified \cup {"NonModified"}
        /\ v \in Modified => v \in CodesOf(f)
    BY <1>1, <1>3, CodeIs
  <2>2. o = CASE v = "SourceModified" -> Queue("pull", s)
              [] v = "TargetModified" -> Queue("push", s)
              [] v = "BothModified" -> Blocked
              [] v = "NonModified" -> Skip
              [] OTHER -> Abort
    BY <1>3 DEF SyncTarget
  <2>3. /\ Skip.queue = {} /\ Skip.blocks = FALSE
        /\ Blocked.queue = {} /\ Blocked.blocks = TRUE
        /\ \A op : /\ Queue(op, s).queue = {[op |-> op, slot |-> s]}
                   /\ Queue(op, s).blocks = FALSE
    BY DEF Skip, Blocked, Queue
  <2>. HIDE DEF o, v, s
  <2>4. \/ v = "SourceModified" /\ o = Queue("pull", s)
        \/ v = "TargetModified" /\ o = Queue("push", s)
        \/ v = "BothModified" /\ o = Blocked
        \/ v = "NonModified" /\ o = Skip
    BY <2>1, <2>2 DEF Modified
  <2>. QED
    BY <2>1, <2>3, <2>4 DEF Modified
<1>. QED
  BY <1>2, <1>3

(* What status does not list, no command touches.                          *)
LEMMA UnlistedIsSkipped ==
  ASSUME SafetyInv, Undisturbed, pc = "check", ~StatusFails,
         run.cmd \in {"add", "pull", "sync"}, ~run.force, ~run.encrypt,
         NEW f \in Files \ ForceEncrypted,
         Exists(TargetFile(f)), CodesOf(f) = {}, ~BothSources(f)
  PROVE  /\ Foreseen(f) \subseteq {Skip}
         /\ Exists(Resolved(f)) /\ Same(Resolved(f), TargetFile(f))
<1>1. PICK s \in {Plain(f), Enc(f)} : disk[s] # Absent /\ Exists(s)
  BY Listed
<1>2. /\ s \in Slots /\ s[1] = f /\ TargetOf(s) = TargetFile(f)
      /\ s[2] = IF s = Enc(f) THEN "enc" ELSE "plain"
      /\ Plain(f) # Enc(f)
  <2>1. /\ Plain(f) \in Slots /\ Plain(f)[1] = f /\ Plain(f)[2] = "plain"
        /\ Enc(f) \in Slots /\ Enc(f)[1] = f /\ Enc(f)[2] = "enc"
        /\ TargetOf(Plain(f)) = TargetFile(f) /\ TargetOf(Enc(f)) = TargetFile(f)
    BY PathFacts
  <2>2. Plain(f) # Enc(f)
    BY <2>1
  <2>3. CASE s = Plain(f)
    BY <2>1, <2>2, <2>3
  <2>4. CASE s = Enc(f)
    BY <2>1, <2>2, <2>4
  <2>. QED
    BY <1>1, <2>3, <2>4
<1>3. \A u \in {Plain(f), Enc(f)} : Exists(u) <=> u = s
  BY <1>1, <1>2 DEF BothSources
<1>4. Resolved(f) = s
  BY <1>1, <1>3 DEF Resolved
<1>5. mem = disk /\ Verdict(s, mem) = "NonModified"
  <2>1. mem = disk
    BY Basics DEF MemInv
  <2>. QED
    BY <1>1, <1>2, <2>1, CodeIs
<1>6. Same(s, TargetFile(f))
  BY <1>1, <1>2, <1>5, UnmodifiedSame
<1>7. AddPair(s) = Skip
  BY <1>1, <1>5 DEF AddPair
<1>8. AddTarget(f) = Skip
  BY <1>2, <1>3, <1>7 DEF AddTarget
<1>9. s = Enc(f) => PullEncrypted(f) = Skip
  BY <1>5 DEF PullEncrypted
<1>10. PullExisting(f) = Skip
  BY <1>2, <1>3, <1>5, <1>9 DEF PullExisting
<1>11. PullTarget(f) = Skip
  BY <1>10 DEF PullTarget, TargetFile
<1>12. SyncTarget(f) = Skip
  BY <1>1, <1>4, <1>5 DEF SyncTarget
<1>13. ASSUME NEW p \in todo, p[1] = f, Exists(p) PROVE Outcome(p) = Skip
  <2>1. p \in Paths
    BY Basics DEF TypeOK
  <2>2. CASE p[2] = "target"
    BY <1>8, <1>11, <1>12, <1>13, <2>2 DEF Outcome, AddCheck, PullCheck, SyncCheck
  <2>3. CASE p[2] # "target"
    <3>1. p \in {Plain(f), Enc(f)}
      BY <1>13, <2>1, <2>3 DEF Paths, Targets, Slots, Plain, Enc
    <3>2. p = s
      BY <1>3, <1>13, <3>1
    <3>3. PullSource(p) = Skip
      BY <1>1, <1>2, <1>9, <1>11, <3>2 DEF PullSource
    <3>. QED
      BY <1>13, <2>3, <3>3 DEF Outcome, AddCheck, PullCheck, SyncCheck
  <2>. QED
    BY <2>2, <2>3
<1>. QED
  BY <1>1, <1>4, <1>6, <1>13 DEF Foreseen

(* What status says is what the commands do: of a target it does not list  *)
(* add, pull and sync find nothing to do and the source holds its content; *)
(* sync copies from the side listed as modified, and refuses what is listed*)
(* as a conflict - whatever happened before, if no pair is edited while it *)
(* is being recorded, or no source is encrypted and the edits are of the   *)
(* targets.                                                                *)
THEOREM StatusTellsTheTruth ==
  ASSUME Undisturbed
  PROVE  Spec => []StatusForetells
<1>1. SafetyInv => StatusForetells
  <2>. SUFFICES ASSUME SafetyInv, pc = "check", run.cmd \in {"add", "pull", "sync"},
                       ~run.force, ~run.encrypt, ~StatusFails,
                       NEW f \in Files \ ForceEncrypted
                PROVE  /\ Exists(<<f, "target">>) /\ CodesOf(f) = {} /\ ~BothSources(f)
                            => /\ Foreseen(f) \subseteq {Skip}
                               /\ Exists(Resolved(f)) /\ Same(Resolved(f), <<f, "target">>)
                       /\ run.cmd = "sync" => \A o \in Foreseen(f) :
                            /\ o.blocks => "BothModified" \in CodesOf(f)
                            /\ \A t \in o.queue :
                                 CASE t.op = "push" -> "TargetModified" \in CodesOf(f)
                                   [] t.op = "pull" -> "SourceModified" \in CodesOf(f)
                            /\ CodesOf(f) \subseteq {"Unmanaged", "Unpulled", "NeverSynchronized"}
                                 => o = Skip
    BY DEF StatusForetells
  <2>1. Exists(<<f, "target">>) /\ CodesOf(f) = {} /\ ~BothSources(f)
          => /\ Foreseen(f) \subseteq {Skip}
             /\ Exists(Resolved(f)) /\ Same(Resolved(f), <<f, "target">>)
    BY UnlistedIsSkipped DEF TargetFile
  <2>2. ASSUME run.cmd = "sync", NEW o \in Foreseen(f)
        PROVE  /\ o.blocks => "BothModified" \in CodesOf(f)
               /\ \A t \in o.queue :
                    CASE t.op = "push" -> "TargetModified" \in CodesOf(f)
                      [] t.op = "pull" -> "SourceModified" \in CodesOf(f)
               /\ CodesOf(f) \subseteq {"Unmanaged", "Unpulled", "NeverSynchronized"} => o = Skip
    <3>1. PICK p \in todo : p[1] = f /\ Exists(p) /\ o = Outcome(p)
      BY <2>2 DEF Foreseen
    <3>2. o = IF p[2] = "target" THEN SyncTarget(f) ELSE Skip
      BY <2>2, <3>1 DEF Outcome, SyncCheck
    <3>3. p[2] = "target" => p = TargetFile(f)
      BY <3>1, Basics, PathFacts DEF TypeOK
    <3>4. Skip.queue = {} /\ Skip.blocks = FALSE
      BY DEF Skip
    <3>5. /\ o.blocks => "BothModified" \in CodesOf(f)
          /\ \A t \in o.queue : \/ t.op = "push" /\ "TargetModified" \in CodesOf(f)
                                \/ t.op = "pull" /\ "SourceModified" \in CodesOf(f)
          /\ CodesOf(f) \cap Modified = {} => o = Skip
      BY <3>1, <3>2, <3>3, <3>4, SyncForetold
    <3>6. CodesOf(f) \subseteq {"Unmanaged", "Unpulled", "NeverSynchronized"}
            => CodesOf(f) \cap Modified = {}
      BY DEF Modified
    <3>. QED
      BY <3>5, <3>6
  <2>. QED
    BY <2>1, <2>2
<1>2. SafetyInv /\ [Next]_vars => SafetyInv'
  BY SafetyKept
<1>. QED
  BY <1>1, <1>2, InitSafe, PTL DEF Spec

-----------------------------------------------------------------------------
(* No run goes on for ever *)

(* How many steps a run may still take, at the most                        *)
Remaining ==
  CASE pc = "idle" -> 0
    [] pc = "check" -> 3 + 5 * Cardinality(Tasks) + Cardinality(todo)
    [] pc = "copy" -> 6 + 5 * Cardinality(tasks)
    [] pc = "record" -> 5 + 5 * Cardinality(tasks)
    [] pc = "stamp" -> 4 + 5 * Cardinality(tasks)
    [] pc = "drop" -> 3 + 5 * Cardinality(tasks)
    [] pc = "exec" -> 2 + 5 * Cardinality(tasks)
    [] OTHER -> 1

(* Finitely many files make finitely many tasks.                           *)
LEMMA TasksFinite ==
  ASSUME IsFiniteSet(Files)
  PROVE  IsFiniteSet(Tasks) /\ IsFiniteSet(Paths)
<1>. DEFINE ops == {"push", "pull", "record", "delete", "unlist"}
            f == [x \in ops \X Slots |-> [op |-> x[1], slot |-> x[2]]]
<1>1. IsFiniteSet({"plain", "enc"}) /\ IsFiniteSet({"target"}) /\ IsFiniteSet(ops)
  <2>1. \A x : IsFiniteSet({x})
    BY FS_Singleton
  <2>2. \A S : \A x : IsFiniteSet(S) => IsFiniteSet(S \cup {x})
    BY <2>1, FS_Union
  <2>3. IsFiniteSet({"plain"} \cup {"enc"})
    BY <2>1, <2>2
  <2>4. IsFiniteSet(((({"push"} \cup {"pull"}) \cup {"record"}) \cup {"delete"}) \cup {"unlist"})
    BY <2>1, <2>2
  <2>5. /\ {"plain", "enc"} = {"plain"} \cup {"enc"}
        /\ ops = ((({"push"} \cup {"pull"}) \cup {"record"}) \cup {"delete"}) \cup {"unlist"}
    OBVIOUS
  <2>. QED
    BY <2>1, <2>3, <2>4, <2>5
<1>2. IsFiniteSet(Slots) /\ IsFiniteSet(Targets)
  BY <1>1, FS_Product DEF Slots, Targets
<1>3. IsFiniteSet(Paths)
  BY <1>2, FS_Union DEF Paths
<1>4. IsFiniteSet(ops \X Slots)
  BY <1>1, <1>2, FS_Product
<1>. HIDE DEF ops
<1>5. f \in Surjection(ops \X Slots, Tasks)
  <2>1. \A x \in ops \X Slots : f[x] \in Tasks
    BY DEF Tasks, ops
  <2>2. ASSUME NEW t \in Tasks PROVE \E x \in ops \X Slots : f[x] = t
    <3>1. <<t.op, t.slot>> \in ops \X Slots /\ t = [op |-> t.op, slot |-> t.slot]
      BY DEF Tasks, ops
    <3>. QED
      BY <3>1
  <2>. QED
    BY <2>1, <2>2 DEF Surjection
<1>. QED
  BY <1>3, <1>4, <1>5, FS_Surjection

(* What is on the lists can be counted.                                    *)
LEMMA ListsCounted ==
  ASSUME IsFiniteSet(Files), TypeOK
  PROVE  /\ IsFiniteSet(tasks) /\ IsFiniteSet(todo)
         /\ Cardinality(tasks) \in Nat /\ Cardinality(todo) \in Nat
         /\ Cardinality(Tasks) \in Nat /\ Cardinality(tasks) <= Cardinality(Tasks)
         /\ \A t \in tasks : Cardinality(tasks \ {t}) = Cardinality(tasks) - 1
         /\ \A p \in todo : Cardinality(todo \ {p}) = Cardinality(todo) - 1
<1>1. tasks \in SUBSET Tasks /\ todo \in SUBSET Paths
  BY DEF TypeOK
<1>2. /\ IsFiniteSet(tasks) /\ IsFiniteSet(todo)
      /\ Cardinality(tasks) <= Cardinality(Tasks)
  BY <1>1, TasksFinite, FS_Subset
<1>. QED
  BY <1>2, TasksFinite, FS_CardinalityType, FS_RemoveElement

(* Every step of a run brings its end nearer, and the user cannot put it   *)
(* off.                                                                    *)
Advances == pc # "idle" => /\ Remaining \in Nat /\ Remaining' \in Nat
                           /\ Process \/ Crash => Remaining' < Remaining
                           /\ User => Remaining' = Remaining
LEMMA StepsAdvance ==
  ASSUME IsFiniteSet(Files), TypeInv, TypeInv', [Next]_vars
  PROVE  Advances
<1>. DEFINE n == Cardinality(tasks)
            m == Cardinality(tasks')
            N == Cardinality(Tasks)
<1>. SUFFICES ASSUME pc # "idle" PROVE Advances
  BY DEF Advances
<1>0. /\ pc \in Phases /\ pc' \in Phases
      /\ n \in Nat /\ m \in Nat /\ N \in Nat /\ m <= N
      /\ Cardinality(todo) \in Nat /\ Cardinality(todo') \in Nat
      /\ \A t \in tasks : Cardinality(tasks \ {t}) = n - 1 /\ n # 0
      /\ \A p \in todo : Cardinality(todo \ {p}) = Cardinality(todo) - 1
  <2>1. TypeOK /\ TypeOK'
    BY DEF TypeInv
  <2>2. /\ m \in Nat /\ m <= N /\ Cardinality(todo') \in Nat
    BY <2>1, TasksFinite, FS_Subset, FS_CardinalityType DEF TypeOK
  <2>3. \A t \in tasks : n # 0
    BY <2>1, ListsCounted, FS_EmptySet
  <2>. QED
    BY <2>1, <2>2, <2>3, ListsCounted DEF TypeOK
<1>1. /\ Remaining \in Nat /\ Remaining' \in Nat /\ Remaining > 0
      /\ pc = "check" => Remaining = 3 + 5 * N + Cardinality(todo)
      /\ pc' = "check" => Remaining' = 3 + 5 * N + Cardinality(todo')
      /\ pc = "copy" => Remaining = 6 + 5 * n
      /\ pc = "record" => Remaining = 5 + 5 * n
      /\ pc = "stamp" => Remaining = 4 + 5 * n
      /\ pc = "drop" => Remaining = 3 + 5 * n
      /\ pc = "exec" => Remaining = 2 + 5 * n
      /\ pc \in {"commit", "failed"} => Remaining = 1
      /\ pc' = "copy" => Remaining' = 6 + 5 * m
      /\ pc' = "record" => Remaining' = 5 + 5 * m
      /\ pc' = "stamp" => Remaining' = 4 + 5 * m
      /\ pc' = "drop" => Remaining' = 3 + 5 * m
      /\ pc' = "exec" => Remaining' = 2 + 5 * m
      /\ pc' \in {"commit", "failed"} => Remaining' = 1
      /\ pc' = "idle" => Remaining' = 0
  BY <1>0 DEF Remaining, Phases
<1>. HIDE DEF n, m, N
<1>20. ASSUME NEW t \in tasks, tasks' = tasks \ {t}, pc = "exec",
              pc' \in {"copy", "record", "exec"}
       PROVE  Remaining' < Remaining
  BY <1>0, <1>1, <1>20 DEF m
<1>21. ASSUME tasks' = tasks,
              \/ pc = "copy" /\ pc' = "record"
              \/ pc = "record" /\ pc' = "stamp"
              \/ pc = "stamp" /\ pc' = "drop"
              \/ pc \in {"stamp", "drop"} /\ pc' = "exec"
       PROVE  Remaining' < Remaining
  BY <1>0, <1>1, <1>21 DEF n, m
<1>22. ASSUME pc \in {"check", "exec", "copy", "record", "stamp", "drop"},
              pc' \in {"commit", "failed"}
       PROVE  Remaining' < Remaining
  BY <1>0, <1>1, <1>22
<1>23. pc' = "idle" => Remaining' < Remaining
  BY <1>1
<1>2. ASSUME NEW p \in todo, Check(p) PROVE Remaining' < Remaining
  <2>1. pc = "check" /\ pc' \in {"check", "failed"} /\ todo' = todo \ {p}
    BY <1>2 DEF Check
  <2>. QED
    BY <1>0, <1>1, <1>22, <2>1
<1>3. ASSUME Decide PROVE Remaining' < Remaining
  <2>1. pc = "check" /\ pc' \in {"failed", "commit", "exec"}
    BY <1>3 DEF Decide
  <2>. QED
    BY <1>0, <1>1, <1>22, <2>1
<1>4. ASSUME NEW t \in tasks, BeginCopy(t) \/ Encrypt(t) \/ RecordOnly(t) \/ Delete(t) \/ SkipTask(t)
      PROVE  Remaining' < Remaining
  BY <1>4, <1>20 DEF BeginCopy, Encrypt, RecordOnly, Delete, SkipTask
<1>5. ASSUME FinishCopy \/ Record \/ Stamp \/ DropPlain PROVE Remaining' < Remaining
  BY <1>5, <1>21 DEF FinishCopy, Record, Stamp, DropPlain, TaskDone
<1>6. ASSUME StampDenied PROVE Remaining' < Remaining
  BY <1>6, <1>21, <1>22 DEF StampDenied
<1>7. ASSUME FailTask \/ TasksDone PROVE Remaining' < Remaining
  BY <1>7, <1>22 DEF FailTask, TasksDone
<1>8. ASSUME Commit \/ Fail \/ Crash PROVE Remaining' < Remaining
  BY <1>8, <1>23 DEF Commit, Fail, Crash, Quit
<1>9. ASSUME User PROVE Remaining' = Remaining
  <2>1. UNCHANGED <<pc, tasks, todo>>
    BY <1>9 DEF User, Edit, Remove, Touch
  <2>. QED
    BY <2>1 DEF Remaining
<1>10. Process \/ Crash => Remaining' < Remaining
  BY <1>2, <1>3, <1>4, <1>5, <1>6, <1>7, <1>8 DEF Process, Execute
<1>. QED
  BY <1>1, <1>9, <1>10 DEF Advances

(* No run goes on for ever: whatever the user does meanwhile and whatever  *)
(* fails, every step of a run leaves it fewer to take, and no edit adds    *)
(* one.  It is the part of RunEnds that does not need ENABLED.             *)
THEOREM RunsAreBounded ==
  ASSUME IsFiniteSet(Files)
  PROVE  Spec => [][Advances]_vars
<1>1. Init => TypeInv
  BY InitTyped
<1>2. TypeInv /\ [Next]_vars => TypeInv'
  BY TypeInvKept
<1>3. TypeInv /\ TypeInv' /\ [Next]_vars => [Advances]_vars
  BY StepsAdvance
<1>. QED
  BY <1>1, <1>2, <1>3, PTL DEF Spec
=============================================================================
