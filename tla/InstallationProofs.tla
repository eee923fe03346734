------------------------- MODULE InstallationProofs -------------------------
(***************************************************************************)
(* Theorems about the files of an installation, for any number of          *)
(* processes, commands, faults and any bound on the runs.                  *)
(***************************************************************************)
EXTENDS Installation, FiniteSetTheorems, TLAPS

-----------------------------------------------------------------------------
(* The type invariant and what makes it inductive *)

(* A run adds at most one to a count, when it leaves "work": the counts are
   bounded by the runs that have left it. *)
Working == {p \in Procs : pc[p] = "work"}
Room == runs - Cardinality(Working)
Bounded(t, n) == \A k \in Keys : t.val[k] <= n
Counts == /\ Room >= 0
          /\ \A n \in Names : Bounded(disk[n], Room) /\ Bounded(tmp[n], Room)
          /\ \A p \in Procs : Bounded(text[p], Room)

(* What a process knows of its command *)
ProcOK(p) ==
  /\ Active(p) => cmd[p] \in Commands /\ result[p] = "none"
  /\ pc[p] \in {"check", "task", "root"} => cmd[p].op = "init"
  /\ pc[p] = "work" => cmd[p].op # "init"
  /\ Active(p) /\ cmd[p].op # "init" =>
       file[p] = IF StateCommand(cmd[p]) THEN "state" ELSE "config"
  /\ pc[p] \in {"idle", "check"} \/ cmd[p].op # "init" => appended[p] = 0
  /\ "ignore" \in todo[p] => appended[p] < MaxRecords /\ pc[p] \in {"task", "root"}

TypeInv == InstallationTypeOK /\ Counts /\ \A p \in Procs : ProcOK(p)

(* A file no two processes have been replacing at once: at most one is at
   it, it holds the only open temporary file, and that is what it renames. *)
Tidy(n) ==
  /\ disk[n].is \notin {"empty", "torn"}
  /\ \A p, q \in Procs : Replacing(p, n) /\ Replacing(q, n) => p = q
  /\ \A p \in Procs : /\ pc[p] = "write" /\ file[p] = n => fd[p] = "tmp" /\ tmp[n] = Empty
                      /\ pc[p] = "rename" /\ file[p] = n => tmp[n].is = "whole"
TornInv == \A n \in Names \ raced : Tidy(n)

(* A list of ignored files that is there in part is being written, unless
   an init was stopped at it. *)
CutInv == ignored \in 1..(MaxRecords - 1) =>
            cut \/ \E p \in Procs : "ignore" \in todo[p] /\ appended[p] = ignored

(* A process that has the installation for itself: what it has read and made
   is about what is on the disk now, and only it holds a temporary file. *)
OwnText(p) ==
  LET d == disk[file[p]] IN
  IF cmd[p].op = "init" THEN d = Absent /\ text[p] = Whole(Nothing)
  ELSE \/ text[p] \in {Whole(v) : v \in Changed(cmd[p], d.val)}
       \/ text[p] = d
Creating(p, n) == pc[p] \in {"open", "write", "rename"} /\ file[p] = n
InitAtWork(p) ==
  /\ root # "dot" => "root" \in todo[p]
  /\ ignored = MaxRecords \/ (ignored > 0 /\ cut) \/ "ignore" \in todo[p]
  /\ \A n \in Names : disk[n] = Absent => n \in todo[p] \/ Creating(p, n)
  /\ \A n \in Names : n \in todo[p] => disk[n] = Absent /\ ~Creating(p, n)
Lone(p) ==
  /\ \A q \in Procs \ {p} : ~Active(q)
  /\ pc[p] = "work" => text[p] = disk["state"]
  /\ pc[p] \in {"open", "write", "rename"} => OwnText(p)
  /\ pc[p] = "write" => fd[p] = "tmp" /\ tmp[file[p]] = Empty
  /\ pc[p] = "rename" => tmp[file[p]] = text[p]
  /\ cmd[p].op = "init" /\ pc[p] # "check" => InitAtWork(p)
AloneInv == \A p \in Procs : alone[p] /\ Active(p) => Lone(p)

-----------------------------------------------------------------------------
(* What a text of a file is made of.                                       *)
LEMMA TextForms ==
  /\ Nothing \in Listings
  /\ \A t \in Texts : /\ t.val \in Listings
                      /\ t.is \in {"absent", "empty", "torn", "whole"}
                      /\ t.is = "whole" => t = Whole(t.val)
                      /\ t.is # "whole" => t.val = Nothing
                      /\ t.is = "absent" <=> t = Absent
                      /\ t.is = "empty" <=> t = Empty
  /\ \A v \in Listings : /\ Whole(v) \in Texts
                         /\ Whole(v).val = v /\ Whole(v).is = "whole"
  /\ Absent \in Texts /\ Empty \in Texts /\ Torn \in Texts
<1>1. Nothing \in Listings
  BY InstallationAssumption DEF Listings, Nothing
<1>2. ASSUME NEW v \in Listings
      PROVE  /\ Whole(v) \in Texts
             /\ Whole(v).val = v /\ Whole(v).is = "whole"
  BY DEF Texts, Whole
<1>3. Absent \in Texts /\ Empty \in Texts /\ Torn \in Texts
  BY DEF Texts
<1>4. ASSUME NEW t \in Texts
      PROVE  /\ t.val \in Listings
             /\ t.is \in {"absent", "empty", "torn", "whole"}
             /\ t.is = "whole" => t = Whole(t.val)
             /\ t.is # "whole" => t.val = Nothing
             /\ t.is = "absent" <=> t = Absent
             /\ t.is = "empty" <=> t = Empty
  <2>1. CASE t \in {Absent, Empty, Torn}
    BY <1>1, <2>1 DEF Absent, Empty, Torn
  <2>2. ASSUME NEW v \in Listings, t = Whole(v)
        PROVE  t.val = v /\ t.is = "whole" /\ t = Whole(t.val)
    BY <2>2 DEF Whole
  <2>. QED
    BY <2>1, <2>2 DEF Texts, Absent, Empty, Torn, Whole
<1>. QED
  BY <1>1, <1>2, <1>3, <1>4, Zenon

(* What a command makes of a text has the same keys, and no count grows by
   more than one. *)
LEMMA ChangedType ==
  ASSUME NEW c \in Commands, NEW r \in 0..MaxRuns, r < MaxRuns,
         NEW u \in Listings, \A k \in Keys : u[k] <= r,
         NEW v \in Changed(c, u)
  PROVE  v \in Listings /\ \A k \in Keys : v[k] <= r + 1
<1>. c \in CommandType
  BY InstallationAssumption
<1>1. CASE c.op \in {"record", "forget", "add", "rm"}
  BY <1>1, InstallationAssumption DEF CommandType, Changed, Listings
<1>2. CASE c.op = "rmi"
  BY <1>2, InstallationAssumption DEF CommandType, Changed, Listings
<1>3. CASE c.op = "init"
  BY <1>3 DEF Changed
<1>. QED
  BY <1>1, <1>2, <1>3 DEF CommandType

(* A write, whole, short or over another text, leaves a text with counts of
   the two at most. *)
LEMMA WrittenType ==
  ASSUME NEW old \in Texts, NEW v \in Listings, NEW r \in Nat,
         Bounded(old, r), \A k \in Keys : v[k] <= r,
         NEW t \in Over(old, v) \cup Short(v)
  PROVE  t \in Texts /\ Bounded(t, r) /\ t # Absent
<1>1. t \in {Empty, Torn} \/ \E u \in Listings : t = Whole(u) /\ \A k \in Keys : u[k] <= v[k] \/ u[k] <= old.val[k]
  BY InstallationAssumption DEF Over, Short, Within, Listings
<1>2. CASE t \in {Empty, Torn}
  BY <1>2 DEF Bounded, Texts, Empty, Torn, Nothing, Absent
<1>3. ASSUME NEW u \in Listings, t = Whole(u), \A k \in Keys : u[k] <= v[k] \/ u[k] <= old.val[k]
      PROVE  t \in Texts /\ Bounded(t, r) /\ t # Absent
  <2>1. t.val = u /\ t.is = "whole" /\ t \in Texts
    BY <1>3 DEF Whole, Texts
  <2>2. \A k \in Keys : u[k] <= r
    BY <1>3, TextForms, InstallationAssumption DEF Bounded, Listings
  <2>. QED
    BY <2>1, <2>2 DEF Bounded, Absent
<1>. QED
  BY <1>1, <1>2, <1>3
(* How the bound on the counts moves: it grows by one when a process leaves
   "work", and never shrinks. *)
LEMMA RoomType ==
  ASSUME InstallationTypeOK
  PROVE  /\ IsFiniteSet(Working) /\ Room \in Int /\ Room <= runs
         /\ \A p \in Procs : pc[p] = "work" => Room < runs
<1>1. IsFiniteSet(Working)
  BY FS_Subset, InstallationAssumption DEF Working
<1>2. Cardinality(Working) \in Nat
  BY <1>1, FS_CardinalityType
<1>3. ASSUME NEW p \in Working PROVE Cardinality(Working) # 0
  BY <1>1, <1>3, FS_EmptySet
<1>. QED
  <2>1. runs \in Nat
    BY InstallationAssumption DEF InstallationTypeOK
  <2>2. \A p \in Procs : pc[p] = "work" => p \in Working
    BY DEF Working
  <2>. QED
    BY <1>1, <1>2, <1>3, <2>1, <2>2 DEF Room

(* how a step of one process moves it                                      *)
LEMMA RoomMoves ==
  ASSUME InstallationTypeOK, InstallationTypeOK', NEW p \in Procs,
         NEW x, pc' = [pc EXCEPT ![p] = x]
  PROVE  /\ pc[p] # "work" /\ x # "work" /\ runs' = runs => Room' = Room
         /\ pc[p] = "work" /\ x # "work" /\ runs' = runs => Room' = Room + 1
         /\ pc[p] # "work" /\ runs' = runs + 1 => Room' >= Room
<1>1. /\ IsFiniteSet(Working) /\ Cardinality(Working) \in Nat
      /\ runs \in Int /\ runs' \in Int
  BY RoomType, FS_CardinalityType DEF InstallationTypeOK
<1>2. \A q \in Procs : pc'[q] = IF q = p THEN x ELSE pc[q]
  BY DEF InstallationTypeOK
<1>3. CASE pc[p] # "work" /\ x # "work"
  <2>1. Working' = Working
    BY <1>2, <1>3 DEF Working
  <2>. QED
    BY <1>1, <1>3, <2>1 DEF Room
<1>4. CASE pc[p] = "work" /\ x # "work"
  <2>1. Working' = Working \ {p} /\ p \in Working
    BY <1>2, <1>4 DEF Working
  <2>2. Cardinality(Working') = Cardinality(Working) - 1
    BY <1>1, <2>1, FS_RemoveElement
  <2>. QED
    BY <1>1, <1>4, <2>2 DEF Room
<1>5. CASE pc[p] # "work" /\ x = "work"
  <2>1. Working' = Working \cup {p} /\ p \notin Working
    BY <1>2, <1>5 DEF Working
  <2>2. Cardinality(Working') = Cardinality(Working) + 1
    BY <1>1, <2>1, FS_AddElement
  <2>. QED
    BY <1>1, <1>5, <2>2 DEF Room
<1>6. CASE pc[p] = "work" /\ x = "work"
  <2>1. Working' = Working
    BY <1>2, <1>6 DEF Working
  <2>. QED
    BY <1>1, <1>6, <2>1 DEF Room
<1>. QED
  BY <1>3, <1>4, <1>5, <1>6

(* What a command writes from the text it has read.                        *)
LEMMA WorkText ==
  ASSUME TypeInv, NEW p \in Procs, pc[p] = "work",
         NEW v \in Changed(cmd[p], Base(p).val) \cup {Base(p).val}
  PROVE  v \in Listings /\ \A k \in Keys : v[k] <= Room + 1
<1>1. Room \in 0..MaxRuns /\ Room < MaxRuns
  BY RoomType, InstallationAssumption DEF TypeInv, Counts, InstallationTypeOK
<1>2. Base(p) \in Texts /\ Bounded(Base(p), Room)
  BY DEF Base, TypeInv, Counts, InstallationTypeOK, Names
<1>3. Base(p).val \in Listings /\ \A k \in Keys : Base(p).val[k] <= Room
  BY <1>2, TextForms DEF Bounded
<1>4. cmd[p] \in Commands
  BY DEF TypeInv, ProcOK, Active
<1>5. CASE v \in Changed(cmd[p], Base(p).val)
  BY <1>1, <1>3, <1>4, <1>5, ChangedType
<1>6. CASE v = Base(p).val
  <2>1. \A k \in Keys : v[k] \in Int
    BY <1>3, <1>6, InstallationAssumption DEF Listings
  <2>. QED
    BY <1>1, <1>3, <1>6, <2>1
<1>. QED
  BY <1>5, <1>6

(* The end of a command keeps the types, when what it leaves on the disk is
   typed. *)
LEMMA EndType ==
  ASSUME InstallationTypeOK, NEW p \in Procs,
         NEW r \in {"ok", "failed", "crashed"}, End(p, r),
         disk' \in [Names -> Texts], tmp' \in [Names -> Texts],
         UNCHANGED <<root, ignored, cmd, file, runs, alone, raced>>
  PROVE  InstallationTypeOK'
BY InstallationAssumption, TextForms DEF InstallationTypeOK, End, InitTasks, PhaseOK

(* Every step keeps the types.                                             *)
LEMMA TypeStep ==
  ASSUME TypeInv, [Next]_vars
  PROVE  InstallationTypeOK'
<1>. USE InstallationAssumption DEF InstallationTypeOK, TypeInv, PhaseOK, installed
<1>0. ASSUME NEW p \in Procs PROVE ProcOK(p)
  OBVIOUS
<1>1. ASSUME NEW p \in Procs, Begin(p) PROVE InstallationTypeOK'
  <2>1. /\ cmd' \in [Procs -> Commands \cup {NoCommand}]
        /\ file' \in [Procs -> Names] /\ text' \in [Procs -> Texts]
    BY <1>1 DEF Begin, Names
  <2>2. runs' \in 0..MaxRuns /\ UNCHANGED <<disk, tmp, root, ignored, fd, todo, appended, raced, cut>>
    BY <1>1 DEF Begin
  <2>5. alone' \in [Procs -> BOOLEAN]
    <3>1. \A q \in Procs : alone[q] \in BOOLEAN
      OBVIOUS
    <3>2. alone' = [q \in Procs |-> IF q = p THEN \A r \in Procs \ {p} : ~Active(r)
                                     ELSE alone[q] /\ ~Active(q)]
      BY <1>1 DEF Begin
    <3>. HIDE DEF InstallationTypeOK
    <3>. QED
      BY <3>1, <3>2, Zenon
  <2>3. /\ pc' \in [Procs -> {"idle", "check", "task", "root", "work", "open", "write", "rename"}]
        /\ result' \in [Procs -> {"none", "ok", "failed", "crashed"}]
        /\ pc[p] = "idle" /\ pc'[p] \in {"check", "work"}
        /\ \A q \in Procs \ {p} : pc'[q] = pc[q] /\ text'[q] = text[q]
    BY <1>1 DEF Begin
  <2>4. \A q \in Procs : PhaseOK(q)'
    BY <2>2, <2>3 DEF PhaseOK
  <2>. QED
    BY <2>1, <2>2, <2>3, <2>4, <2>5
<1>2. ASSUME NEW p \in Procs, InitCheck(p) PROVE InstallationTypeOK'
  <2>1. Missing \in SUBSET InitTasks
    BY DEF Missing, InitTasks, Names
  <2>. QED
    BY <1>2, <2>1 DEF InitCheck
<1>3. ASSUME NEW p \in Procs, InvalidPointer(p) PROVE InstallationTypeOK'
  BY <1>3, EndType DEF InvalidPointer
<1>4. ASSUME NEW p \in Procs, TaskFails(p) PROVE InstallationTypeOK'
  BY <1>4, EndType DEF TaskFails
<1>5. ASSUME NEW p \in Procs, CreateRoot(p) PROVE InstallationTypeOK'
  <2>1. "root" \in todo[p]
    BY <1>5 DEF CreateRoot, NextTask
  <2>. QED
    BY <1>5, <2>1 DEF CreateRoot
<1>6. ASSUME NEW p \in Procs, WriteRoot(p) PROVE InstallationTypeOK'
  BY <1>6 DEF WriteRoot
<1>7. ASSUME NEW p \in Procs, AppendRecord(p) PROVE InstallationTypeOK'
  <2>1. "ignore" \in todo[p]
    BY <1>7 DEF AppendRecord, NextTask
  <2>2. appended[p] < MaxRecords /\ appended[p] \in 0..MaxRecords
    BY <1>0, <2>1 DEF ProcOK
  <2>3. appended' \in [Procs -> 0..MaxRecords] /\ ignored' \in 0..MaxRecords
    BY <1>7, <2>2 DEF AppendRecord
  <2>4. todo' \in [Procs -> SUBSET InitTasks]
    BY <1>7 DEF AppendRecord
  <2>5. \A q \in Procs : todo'[q] = todo[q] \/ (q = p /\ pc[q] = "task")
    BY <1>7 DEF AppendRecord
  <2>. QED
    BY <1>7, <2>3, <2>4, <2>5 DEF AppendRecord
<1>8. ASSUME NEW p \in Procs, CreateFile(p) PROVE InstallationTypeOK'
  BY <1>8, TextForms DEF CreateFile
<1>9. ASSUME NEW p \in Procs, InitDone(p) PROVE InstallationTypeOK'
  BY <1>9, EndType DEF InitDone
<1>10. ASSUME NEW p \in Procs, Work(p) PROVE InstallationTypeOK'
  <2>1. PICK v \in Changed(cmd[p], Base(p).val) : text' = [text EXCEPT ![p] = Whole(v)]
    BY <1>10 DEF Work
  <2>2. Whole(v) \in Texts /\ Whole(v).is = "whole"
    BY <1>10, WorkText, TextForms DEF Work
  <2>. QED
    BY <1>10, <2>1, <2>2 DEF Work
<1>11. ASSUME NEW p \in Procs, Refuse(p) PROVE InstallationTypeOK'
  BY <1>11, EndType DEF Refuse
<1>12. ASSUME NEW p \in Procs, WorkFails(p) PROVE InstallationTypeOK'
  <2>1. CASE cmd[p].op = "forget"
    <3>1. PICK v \in Changed(cmd[p], Base(p).val) \cup {Base(p).val} :
            text' = [text EXCEPT ![p] = Whole(v)]
      BY <1>12, <2>1 DEF WorkFails
    <3>2. Whole(v) \in Texts /\ Whole(v).is = "whole"
      BY <1>12, WorkText, TextForms DEF WorkFails
    <3>. QED
      BY <1>12, <2>1, <3>1, <3>2 DEF WorkFails
  <2>2. CASE cmd[p].op # "forget"
    BY <1>12, <2>2, EndType DEF WorkFails
  <2>. QED
    BY <2>1, <2>2
<1>13. ASSUME NEW p \in Procs, Open(p) PROVE InstallationTypeOK'
  <2>1. tmp' \in [Names -> Texts]
    BY <1>13, TextForms DEF Open
  <2>2. raced' \subseteq Names
    BY <1>13 DEF Open
  <2>3. /\ pc' \in [Procs -> {"idle", "check", "task", "root", "work", "open", "write", "rename"}]
        /\ fd' \in [Procs -> {"tmp", "disk", "gone"}]
        /\ UNCHANGED <<text, todo>> /\ pc[p] = "open" /\ pc'[p] = "write"
        /\ \A q \in Procs \ {p} : pc'[q] = pc[q] /\ fd'[q] = fd[q]
    BY <1>13 DEF Open
  <2>4. \A q \in Procs : PhaseOK(q)'
    BY <2>3 DEF PhaseOK
  <2>. QED
    BY <1>13, <2>1, <2>2, <2>3, <2>4 DEF Open
<1>14. ASSUME NEW p \in Procs, Write(p) PROVE InstallationTypeOK'
  <2>1. PICK t \in Over(Behind(p), text[p].val) : Put(p, t)
    BY <1>14 DEF Write
  <2>2. Behind(p) \in Texts /\ Bounded(Behind(p), Room) /\ Room \in Nat
    BY TextForms, RoomType DEF Behind, Counts, Bounded, Empty, Nothing
  <2>3. text[p].val \in Listings /\ \A k \in Keys : text[p].val[k] <= Room
    BY TextForms DEF Counts, Bounded
  <2>4. t \in Texts
    BY <2>1, <2>2, <2>3, WrittenType
  <2>5. disk' \in [Names -> Texts] /\ tmp' \in [Names -> Texts]
    BY <2>1, <2>4 DEF Put
  <2>6. /\ pc' \in [Procs -> {"idle", "check", "task", "root", "work", "open", "write", "rename"}]
        /\ fd' \in [Procs -> {"tmp", "disk", "gone"}]
        /\ UNCHANGED <<text, todo>>
        /\ pc[p] = "write" /\ pc'[p] = "rename" /\ fd'[p] = "gone"
        /\ \A q \in Procs \ {p} : pc'[q] = pc[q] /\ fd'[q] = fd[q]
    BY <1>14 DEF Write
  <2>7. \A q \in Procs : PhaseOK(q)'
    BY <2>6 DEF PhaseOK
  <2>. QED
    BY <1>14, <2>5, <2>6, <2>7 DEF Write
<1>15. ASSUME NEW p \in Procs, WriteFails(p) PROVE InstallationTypeOK'
  <2>1. PICK t \in Short(text[p].val) : Put(p, t)
    BY <1>15 DEF WriteFails
  <2>2. t \in Texts
    BY <2>1, TextForms DEF Short
  <2>3. disk' \in [Names -> Texts] /\ tmp' \in [Names -> Texts]
    BY <2>1, <2>2 DEF Put
  <2>. QED
    BY <1>15, <2>3, EndType DEF WriteFails
<1>16. ASSUME NEW p \in Procs, Rename(p) PROVE InstallationTypeOK'
  <2>1. disk' \in [Names -> Texts] /\ tmp' \in [Names -> Texts]
    BY <1>16, TextForms DEF Rename
  <2>2. /\ fd' \in [Procs -> {"tmp", "disk", "gone"}]
        /\ \A q \in Procs : fd'[q] # "gone" => fd[q] # "gone"
    BY <1>16 DEF Rename
  <2>3. CASE cmd[p].op = "init"
    BY <1>16, <2>1, <2>2, <2>3 DEF Rename
  <2>4. CASE cmd[p].op # "init"
    <3>1. /\ pc' = [pc EXCEPT ![p] = "idle"] /\ result' = [result EXCEPT ![p] = "ok"]
          /\ text' = [text EXCEPT ![p] = Absent] /\ fd'[p] = "gone"
          /\ UNCHANGED <<todo, appended>>
      BY <1>16, <2>4 DEF Rename
    <3>2. \A q \in Procs : PhaseOK(q)'
      BY <2>2, <3>1 DEF PhaseOK
    <3>. QED
      BY <1>16, <2>1, <2>2, <3>1, <3>2, TextForms DEF Rename
  <2>. QED
    BY <2>3, <2>4
<1>17. ASSUME NEW p \in Procs, RenameFails(p) PROVE InstallationTypeOK'
  BY <1>17, EndType DEF RenameFails
<1>18. ASSUME NEW p \in Procs, Crash(p) PROVE InstallationTypeOK'
  BY <1>18, EndType DEF Crash
<1>. QED
  BY <1>1, <1>2, <1>3, <1>4, <1>5, <1>6, <1>7, <1>8, <1>9, <1>10, <1>11, <1>12, <1>13, <1>14,
     <1>15, <1>16, <1>17, <1>18 DEF Next, Steps, Rest, vars
(* A process that ends keeps what it knows of its command.                 *)
LEMMA EndProcess ==
  ASSUME TypeInv, NEW p \in Procs, NEW r, End(p, r), UNCHANGED <<cmd, file>>
  PROVE  \A q \in Procs : ProcOK(q)'
BY InstallationAssumption DEF TypeInv, InstallationTypeOK, End, ProcOK, Active, StateCommand

(* So does one that takes any other step.                                  *)
LEMMA ProcessStep ==
  ASSUME TypeInv, [Next]_vars
  PROVE  \A q \in Procs : ProcOK(q)'
<1>. USE InstallationAssumption DEF InstallationTypeOK, TypeInv, ProcOK, Active, StateCommand, installed
<1>1. ASSUME NEW p \in Procs, Begin(p) PROVE \A q \in Procs : ProcOK(q)'
  BY <1>1 DEF Begin, Active, StateCommand
<1>2. ASSUME NEW p \in Procs, InitCheck(p) PROVE \A q \in Procs : ProcOK(q)'
  BY <1>2 DEF InitCheck
<1>3. ASSUME NEW p \in Procs, InvalidPointer(p) PROVE \A q \in Procs : ProcOK(q)'
  BY <1>3, EndProcess DEF InvalidPointer
<1>4. ASSUME NEW p \in Procs, TaskFails(p) PROVE \A q \in Procs : ProcOK(q)'
  BY <1>4, EndProcess DEF TaskFails
<1>5. ASSUME NEW p \in Procs, CreateRoot(p) PROVE \A q \in Procs : ProcOK(q)'
  BY <1>5 DEF CreateRoot
<1>6. ASSUME NEW p \in Procs, WriteRoot(p) PROVE \A q \in Procs : ProcOK(q)'
  BY <1>6 DEF WriteRoot
<1>7. ASSUME NEW p \in Procs, AppendRecord(p) PROVE \A q \in Procs : ProcOK(q)'
  BY <1>7 DEF AppendRecord, NextTask
<1>8. ASSUME NEW p \in Procs, CreateFile(p) PROVE \A q \in Procs : ProcOK(q)'
  BY <1>8 DEF CreateFile, NextTask, Names
<1>9. ASSUME NEW p \in Procs, InitDone(p) PROVE \A q \in Procs : ProcOK(q)'
  BY <1>9, EndProcess DEF InitDone
<1>10. ASSUME NEW p \in Procs, Work(p) PROVE \A q \in Procs : ProcOK(q)'
  BY <1>10 DEF Work
<1>11. ASSUME NEW p \in Procs, Refuse(p) PROVE \A q \in Procs : ProcOK(q)'
  BY <1>11, EndProcess DEF Refuse
<1>12. ASSUME NEW p \in Procs, WorkFails(p) PROVE \A q \in Procs : ProcOK(q)'
  BY <1>12, EndProcess DEF WorkFails
<1>13. ASSUME NEW p \in Procs, Open(p) PROVE \A q \in Procs : ProcOK(q)'
  BY <1>13 DEF Open
<1>14. ASSUME NEW p \in Procs, Write(p) PROVE \A q \in Procs : ProcOK(q)'
  BY <1>14 DEF Write
<1>15. ASSUME NEW p \in Procs, WriteFails(p) PROVE \A q \in Procs : ProcOK(q)'
  BY <1>15, EndProcess DEF WriteFails
<1>16. ASSUME NEW p \in Procs, Rename(p) PROVE \A q \in Procs : ProcOK(q)'
  BY <1>16 DEF Rename
<1>17. ASSUME NEW p \in Procs, RenameFails(p) PROVE \A q \in Procs : ProcOK(q)'
  BY <1>17, EndProcess DEF RenameFails
<1>18. ASSUME NEW p \in Procs, Crash(p) PROVE \A q \in Procs : ProcOK(q)'
  BY <1>18, EndProcess DEF Crash
<1>. QED
  BY <1>1, <1>2, <1>3, <1>4, <1>5, <1>6, <1>7, <1>8, <1>9, <1>10, <1>11, <1>12, <1>13, <1>14,
     <1>15, <1>16, <1>17, <1>18 DEF Next, Steps, Rest, vars

(* A step moves one process, and the bound never shrinks.                  *)
LEMMA RoomGrows ==
  ASSUME TypeInv, [Next]_vars, InstallationTypeOK'
  PROVE  /\ Room \in Nat /\ Room' \in Int /\ Room' >= Room
         /\ \A p \in Procs : Work(p) \/ (WorkFails(p) /\ cmd[p].op = "forget")
                              => Room' = Room + 1
<1>. USE DEF TypeInv
<1>1. Room \in Nat /\ Room' \in Int
  <2>1. IsFiniteSet(Working') /\ Cardinality(Working') \in Nat
    BY FS_Subset, FS_CardinalityType, InstallationAssumption DEF Working
  <2>2. Room' \in Int
    BY <2>1 DEF Room, InstallationTypeOK
  <2>. QED
    BY <2>2, RoomType DEF Counts
<1>2. ASSUME NEW p \in Procs, Begin(p) PROVE Room' >= Room
  <2>1. /\ runs' = runs + 1 /\ pc[p] # "work"
        /\ \E x : pc' = [pc EXCEPT ![p] = x]
    BY <1>2 DEF Begin
  <2>. QED
    BY <2>1, RoomMoves
<1>3. ASSUME NEW p \in Procs, Steps(p) \/ Crash(p) PROVE Room' >= Room
  <2>1. /\ runs' = runs
        /\ \/ pc' = pc
           \/ \E x : x # "work" /\ pc' = [pc EXCEPT ![p] = x]
    BY <1>3 DEF Steps, InitCheck, InvalidPointer, TaskFails, CreateRoot, WriteRoot,
       AppendRecord, CreateFile, InitDone, Work, Refuse, WorkFails, Open, Write,
       WriteFails, Rename, RenameFails, Crash, End
  <2>2. CASE pc' = pc
    BY <1>1, <2>1, <2>2 DEF Room, Working
  <2>3. CASE \E x : x # "work" /\ pc' = [pc EXCEPT ![p] = x]
    <3>1. PICK x : x # "work" /\ pc' = [pc EXCEPT ![p] = x]
      BY <2>3
    <3>2. Room' = Room \/ Room' = Room + 1
      BY <2>1, <3>1, RoomMoves
    <3>. QED
      BY <1>1, <3>2
  <2>. QED
    BY <2>1, <2>2, <2>3
<1>4. ASSUME NEW p \in Procs, Work(p) \/ (WorkFails(p) /\ cmd[p].op = "forget")
      PROVE  Room' = Room + 1
  <2>1. /\ runs' = runs /\ pc[p] = "work"
        /\ \E x : x # "work" /\ pc' = [pc EXCEPT ![p] = x]
    BY <1>4 DEF Work, WorkFails
  <2>2. PICK x : x # "work" /\ pc' = [pc EXCEPT ![p] = x]
    BY <2>1
  <2>. QED
    BY <2>1, <2>2, RoomMoves
<1>5. UNCHANGED vars => Room' = Room
  BY DEF vars, Room, Working
<1>. QED
  BY <1>1, <1>2, <1>3, <1>4, <1>5 DEF Next, Rest

(* Most steps only move texts that are there, or make an empty one.        *)
Known(t) == \/ t \in {Absent, Empty, Whole(Nothing)}
            \/ \E n \in Names : t = disk[n] \/ t = tmp[n]
            \/ \E q \in Procs : t = text[q]
AllKnown == /\ \A n \in Names : Known(disk'[n]) /\ Known(tmp'[n])
            /\ \A q \in Procs : Known(text'[q])
(* every step but those that work or write                                 *)
LEMMA KnownTexts ==
  ASSUME InstallationTypeOK, NEW p \in Procs
  PROVE  /\ (Steps(p) \/ Begin(p) \/ Crash(p))
              => Work(p) \/ WorkFails(p) \/ Write(p) \/ WriteFails(p) \/ AllKnown
         /\ UNCHANGED vars => AllKnown
<1>. USE DEF Known, InstallationTypeOK, installed
<1>1. Begin(p) => AllKnown
  BY DEF AllKnown, Begin, End, Names
<1>2. InitCheck(p) => AllKnown
  BY DEF AllKnown, InitCheck, End, Names
<1>3. InvalidPointer(p) => AllKnown
  BY DEF AllKnown, InvalidPointer, End, Names
<1>4. TaskFails(p) => AllKnown
  BY DEF AllKnown, TaskFails, End, Names
<1>5. CreateRoot(p) => AllKnown
  BY DEF AllKnown, CreateRoot, End, Names
<1>6. WriteRoot(p) => AllKnown
  BY DEF AllKnown, WriteRoot, End, Names
<1>7. AppendRecord(p) => AllKnown
  BY DEF AllKnown, AppendRecord, End, Names
<1>8. CreateFile(p) => AllKnown
  BY DEF AllKnown, CreateFile, End, Names
<1>9. InitDone(p) => AllKnown
  BY DEF AllKnown, InitDone, End, Names
<1>10. Refuse(p) => AllKnown
  BY DEF AllKnown, Refuse, End, Names
<1>11. Open(p) => AllKnown
  BY DEF AllKnown, Open, End, Names
<1>12. Rename(p) => AllKnown
  BY DEF AllKnown, Rename, End, Names
<1>13. RenameFails(p) => AllKnown
  BY DEF AllKnown, RenameFails, End, Names
<1>14. Crash(p) => AllKnown
  BY DEF AllKnown, Crash, End, Names
<1>15. UNCHANGED vars => AllKnown
  BY DEF AllKnown, vars
<1>. QED
  BY <1>1, <1>2, <1>3, <1>4, <1>5, <1>6, <1>7, <1>8, <1>9, <1>10, <1>11, <1>12, <1>13, <1>14,
     <1>15 DEF Steps

(* The counts stay bounded by the runs that have done their work.          *)
LEMMA CountsStep ==
  ASSUME TypeInv, [Next]_vars, InstallationTypeOK'
  PROVE  Counts'
<1>. USE DEF TypeInv
<1>1. Room \in Nat /\ Room' \in Int /\ Room' >= Room
  BY RoomGrows
<1>2. ASSUME NEW t \in Texts, Bounded(t, Room) PROVE Bounded(t, Room')
  <2>1. \A k \in Keys : t.val[k] \in Int
    BY TextForms, InstallationAssumption DEF Listings
  <2>. QED
    BY <1>1, <1>2, <2>1 DEF Bounded
<1>3. ASSUME NEW t, Known(t) PROVE Bounded(t, Room')
  <2>1. CASE t \in {Absent, Empty, Whole(Nothing)}
    <3>1. t.val = Nothing
      BY <2>1 DEF Absent, Empty, Whole
    <3>. QED
      BY <1>1, <3>1 DEF Bounded, Nothing
  <2>2. ASSUME NEW n \in Names, t = disk[n] \/ t = tmp[n] PROVE Bounded(t, Room')
    BY <1>2, <2>2 DEF Counts, InstallationTypeOK
  <2>3. ASSUME NEW q \in Procs, t = text[q] PROVE Bounded(t, Room')
    BY <1>2, <2>3 DEF Counts, InstallationTypeOK
  <2>. QED
    BY <1>3, <2>1, <2>2, <2>3 DEF Known
<1>4. AllKnown => Counts'
  BY <1>1, <1>3 DEF AllKnown, Counts
<1>5. ASSUME NEW p \in Procs, Work(p) PROVE Counts'
  <2>1. PICK v \in Changed(cmd[p], Base(p).val) : text' = [text EXCEPT ![p] = Whole(v)]
    BY <1>5 DEF Work
  <2>2. Bounded(Whole(v), Room')
    BY <1>5, WorkText, RoomGrows DEF Work, Bounded, Whole
  <2>3. /\ \A n \in Names : Known(disk'[n]) /\ Known(tmp'[n])
        /\ \A q \in Procs : q # p => Known(text'[q])
        /\ text'[p] = Whole(v)
    BY <1>5, <2>1 DEF Work, Known, installed, InstallationTypeOK
  <2>. QED
    BY <1>1, <1>3, <2>2, <2>3 DEF Counts
<1>6. ASSUME NEW p \in Procs, WorkFails(p) PROVE Counts'
  <2>1. CASE cmd[p].op = "forget"
    <3>1. PICK v \in Changed(cmd[p], Base(p).val) \cup {Base(p).val} :
            text' = [text EXCEPT ![p] = Whole(v)]
      BY <1>6, <2>1 DEF WorkFails
    <3>2. Bounded(Whole(v), Room')
      BY <1>6, <2>1, WorkText, RoomGrows DEF WorkFails, Bounded, Whole
    <3>3. /\ \A n \in Names : Known(disk'[n]) /\ Known(tmp'[n])
          /\ \A q \in Procs : q # p => Known(text'[q])
          /\ text'[p] = Whole(v)
      BY <1>6, <3>1 DEF WorkFails, Known, installed, InstallationTypeOK
    <3>. QED
      BY <1>1, <1>3, <3>2, <3>3 DEF Counts
  <2>2. CASE cmd[p].op # "forget"
    <3>1. AllKnown
      BY <1>6, <2>2 DEF WorkFails, End, AllKnown, Known, installed, InstallationTypeOK
    <3>. QED
      BY <1>4, <3>1
  <2>. QED
    BY <2>1, <2>2
<1>7. ASSUME NEW p \in Procs, Write(p) \/ WriteFails(p) PROVE Counts'
  <2>1. /\ pc[p] = "write"
        /\ \E t \in Over(Behind(p), text[p].val) \cup Short(text[p].val) : Put(p, t)
    BY <1>7 DEF Write, WriteFails
  <2>2. PICK t \in Over(Behind(p), text[p].val) \cup Short(text[p].val) : Put(p, t)
    BY <2>1
  <2>3. Behind(p) \in Texts /\ Bounded(Behind(p), Room)
    BY <1>1, TextForms DEF Behind, Counts, Bounded, Empty, Nothing, InstallationTypeOK
  <2>4. text[p].val \in Listings /\ \A k \in Keys : text[p].val[k] <= Room
    BY TextForms DEF Counts, Bounded, InstallationTypeOK
  <2>5. Bounded(t, Room')
    BY <1>1, <1>2, <2>2, <2>3, <2>4, WrittenType
  <2>6. /\ \A n \in Names : /\ Known(disk'[n]) \/ disk'[n] = t
                            /\ Known(tmp'[n]) \/ tmp'[n] = t
        /\ \A q \in Procs : Known(text'[q])
    BY <1>7, <2>2 DEF Put, Write, WriteFails, End, Known, InstallationTypeOK
  <2>. QED
    BY <1>1, <1>3, <2>5, <2>6 DEF Counts
<1>. QED
  <2>1. ASSUME NEW p \in Procs, Steps(p) \/ Begin(p) \/ Crash(p) PROVE Counts'
    BY <1>4, <1>5, <1>6, <1>7, <2>1, KnownTexts
  <2>2. ASSUME UNCHANGED vars PROVE Counts'
    BY <2>2 DEF vars, Counts, Bounded, Room, Working
  <2>. QED
    BY <2>1, <2>2 DEF Next, Rest

(* The types, and the bound on the counts that they rest on, hold in every
   reachable state. *)
LEMMA TypeInvHolds == Spec => []TypeInv
<1>1. Init => TypeInv
  <2>. SUFFICES ASSUME Init PROVE TypeInv
    OBVIOUS
  <2>1. InstallationTypeOK
    <3>1. disk \in [Names -> Texts] /\ tmp \in [Names -> Texts]
      BY TextForms DEF Init
    <3>2. (root = "absent" /\ ignored = 0) \/ (root = "dot" /\ ignored = MaxRecords)
      BY DEF Init
    <3>3. ignored \in 0..MaxRecords /\ root \in {"absent", "empty", "dot"}
      BY <3>2, InstallationAssumption
    <3>4. cut \in BOOLEAN
      BY Zenon DEF Init
    <3>. QED
      BY <3>1, <3>3, <3>4, InstallationAssumption, TextForms DEF Init, InstallationTypeOK, PhaseOK, Names
  <2>2. Counts
    <3>1. Room = 0
      <4>1. Working = {}
        BY DEF Init, Working
      <4>. QED
        BY <4>1, FS_EmptySet DEF Init, Room
    <3>2. \A t \in {Absent, Whole(Nothing)} : Bounded(t, 0)
      BY DEF Bounded, Absent, Whole, Nothing
    <3>. QED
      BY <3>1, <3>2 DEF Init, Counts
  <2>3. ASSUME NEW p \in Procs PROVE ProcOK(p)
    BY InstallationAssumption DEF Init, ProcOK, Active, NoCommand
  <2>. QED
    BY <2>1, <2>2, <2>3 DEF TypeInv
<1>2. TypeInv /\ [Next]_vars => TypeInv'
  BY TypeStep, ProcessStep, CountsStep DEF TypeInv
<1>. QED
  BY <1>1, <1>2, PTL DEF Spec

(* The installation is well-typed in every reachable state, however many
   processes replace its files at once. *)
THEOREM TypeCorrect == Spec => []InstallationTypeOK
<1>1. TypeInv => InstallationTypeOK
  BY DEF TypeInv
<1>. QED
  BY <1>1, TypeInvHolds, PTL

-----------------------------------------------------------------------------
(* A file is never torn but by a race *)

(* A step that leaves the file, its temporary name and who is replacing it
   alone, or only takes a process off it. *)
LEMMA TidyKept ==
  ASSUME NEW n \in Names, Tidy(n), UNCHANGED <<disk, tmp>>,
         \A p \in Procs : Replacing(p, n)' => /\ Replacing(p, n) /\ pc'[p] = pc[p]
                                              /\ fd'[p] = fd[p]
  PROVE  Tidy(n)'
BY DEF Tidy, Replacing

(* Every step keeps the files tidy that are not raced for.                 *)
LEMMA TornStep ==
  ASSUME TypeInv, TornInv, [Next]_vars
  PROVE  TornInv'
<1>. USE DEF TypeInv, InstallationTypeOK, installed
<1>. SUFFICES ASSUME NEW n \in Names \ raced' PROVE Tidy(n)'
  BY DEF TornInv
<1>0. n \notin raced /\ Tidy(n)
  <2>1. ASSUME NEW p \in Procs, Open(p) PROVE raced \subseteq raced'
    BY <2>1 DEF Open
  <2>2. ASSUME NEW p \in Procs, Begin(p) \/ Steps(p) \/ Crash(p), ~Open(p)
        PROVE  raced' = raced
    BY <2>2, Zenon DEF Begin, Steps, Crash, InitCheck, InvalidPointer, TaskFails,
       CreateRoot, WriteRoot, AppendRecord, CreateFile, InitDone, Work, Refuse,
       WorkFails, Write, WriteFails, Rename, RenameFails
  <2>3. UNCHANGED vars => raced' = raced
    BY DEF vars
  <2>4. raced \subseteq raced'
    BY <2>1, <2>2, <2>3 DEF Next, Rest
  <2>. QED
    BY <2>4 DEF TornInv
<1>1. ASSUME NEW p \in Procs, Begin(p) PROVE Tidy(n)'
  BY <1>1, <1>0, TidyKept DEF Begin, End, Replacing
<1>2. ASSUME NEW p \in Procs, InitCheck(p) PROVE Tidy(n)'
  BY <1>2, <1>0, TidyKept DEF InitCheck, End, Replacing
<1>3. ASSUME NEW p \in Procs, InvalidPointer(p) PROVE Tidy(n)'
  BY <1>3, <1>0, TidyKept DEF InvalidPointer, End, Replacing
<1>4. ASSUME NEW p \in Procs, TaskFails(p) PROVE Tidy(n)'
  BY <1>4, <1>0, TidyKept DEF TaskFails, End, Replacing
<1>5. ASSUME NEW p \in Procs, CreateRoot(p) PROVE Tidy(n)'
  BY <1>5, <1>0, TidyKept DEF CreateRoot, End, Replacing
<1>6. ASSUME NEW p \in Procs, WriteRoot(p) PROVE Tidy(n)'
  BY <1>6, <1>0, TidyKept DEF WriteRoot, End, Replacing
<1>7. ASSUME NEW p \in Procs, AppendRecord(p) PROVE Tidy(n)'
  BY <1>7, <1>0, TidyKept DEF AppendRecord, End, Replacing
<1>8. ASSUME NEW p \in Procs, CreateFile(p) PROVE Tidy(n)'
  BY <1>8, <1>0, TidyKept DEF CreateFile, End, Replacing
<1>9. ASSUME NEW p \in Procs, InitDone(p) PROVE Tidy(n)'
  BY <1>9, <1>0, TidyKept DEF InitDone, End, Replacing
<1>10. ASSUME NEW p \in Procs, Work(p) PROVE Tidy(n)'
  BY <1>10, <1>0, TidyKept DEF Work, End, Replacing
<1>11. ASSUME NEW p \in Procs, Refuse(p) PROVE Tidy(n)'
  BY <1>11, <1>0, TidyKept DEF Refuse, End, Replacing
<1>12. ASSUME NEW p \in Procs, WorkFails(p) PROVE Tidy(n)'
  BY <1>12, <1>0, TidyKept DEF WorkFails, End, Replacing
<1>13. ASSUME NEW p \in Procs, RenameFails(p) PROVE Tidy(n)'
  BY <1>13, <1>0, TidyKept DEF RenameFails, End, Replacing
<1>14. ASSUME NEW p \in Procs, Crash(p) PROVE Tidy(n)'
  BY <1>14, <1>0, TidyKept DEF Crash, End, Replacing
<1>15. ASSUME NEW p \in Procs, Open(p) PROVE Tidy(n)'
  <2>1. CASE file[p] # n
    BY <1>15, <2>1, <1>0 DEF Open, Tidy, Replacing
  <2>2. CASE file[p] = n
    <3>1. \A q \in Procs \ {p} : ~Replacing(q, n)
      BY <1>15, <2>2 DEF Open
    <3>. QED
      BY <1>15, <2>2, <3>1, <1>0 DEF Open, Tidy, Replacing
  <2>. QED
    BY <2>1, <2>2
<1>16. ASSUME NEW p \in Procs, Write(p) PROVE Tidy(n)'
  <2>1. PICK t \in Over(Behind(p), text[p].val) : Put(p, t)
    BY <1>16 DEF Write
  <2>2. CASE file[p] # n
    BY <1>16, <2>1, <2>2, <1>0 DEF Write, Put, Tidy, Replacing
  <2>3. CASE file[p] = n
    <3>1. fd[p] = "tmp" /\ tmp[n] = Empty
      BY <1>16, <2>3, <1>0 DEF Write, Tidy
    <3>2. t.is = "whole"
      BY <2>1, <2>3, <3>1 DEF Behind, Over, Empty, Whole
    <3>3. \A q \in Procs \ {p} : ~Replacing(q, n)
      BY <1>16, <2>3, <1>0 DEF Write, Tidy, Replacing
    <3>. QED
      BY <1>16, <2>1, <2>3, <3>1, <3>2, <3>3, <1>0 DEF Write, Put, Tidy, Replacing
  <2>. QED
    BY <2>2, <2>3
<1>17. ASSUME NEW p \in Procs, WriteFails(p) PROVE Tidy(n)'
  <2>1. PICK t \in Short(text[p].val) : Put(p, t)
    BY <1>17 DEF WriteFails
  <2>2. CASE file[p] # n
    BY <1>17, <2>1, <2>2, <1>0 DEF WriteFails, End, Put, Tidy, Replacing
  <2>3. CASE file[p] = n
    <3>1. fd[p] = "tmp"
      BY <1>17, <2>3, <1>0 DEF WriteFails, Tidy
    <3>2. \A q \in Procs \ {p} : ~Replacing(q, n)
      BY <1>17, <2>3, <1>0 DEF WriteFails, Tidy, Replacing
    <3>. QED
      BY <1>17, <2>1, <2>3, <3>1, <3>2, <1>0 DEF WriteFails, End, Put, Tidy, Replacing
  <2>. QED
    BY <2>2, <2>3
<1>18. ASSUME NEW p \in Procs, Rename(p) PROVE Tidy(n)'
  <2>1. CASE file[p] # n
    <3>1. disk'[n] = disk[n] /\ tmp'[n] = tmp[n]
      BY <1>18, <2>1 DEF Rename
    <3>2. \A q \in Procs : Replacing(q, n)' => Replacing(q, n) /\ pc'[q] = pc[q] /\ fd'[q] = fd[q]
      BY <1>18, <2>1 DEF Rename, Replacing
    <3>. QED
      BY <3>1, <3>2, <1>0 DEF Tidy, Replacing
  <2>2. CASE file[p] = n
    <3>1. disk'[n].is = "whole"
      BY <1>18, <2>2, <1>0 DEF Rename, Tidy
    <3>2. \A q \in Procs : ~Replacing(q, n)'
      BY <1>18, <2>2, <1>0 DEF Rename, Tidy, Replacing
    <3>. QED
      BY <3>1, <3>2 DEF Tidy, Replacing
  <2>. QED
    BY <2>1, <2>2
<1>19. UNCHANGED vars => Tidy(n)'
  BY <1>0 DEF vars, Tidy, Replacing
<1>. QED
  BY <1>1, <1>2, <1>3, <1>4, <1>5, <1>6, <1>7, <1>8, <1>9, <1>10, <1>11, <1>12, <1>13, <1>14,
     <1>15, <1>16, <1>17, <1>18, <1>19 DEF Next, Steps, Rest

(* lib.rs:92, "A crash mid-write can no longer leave a truncated
   `state.toml`": whatever number of processes run, die and fail, and
   whatever leftover they find under the temporary name, a file is truncated
   or mixed only after two processes were inside atomic_write of it at once. *)
THEOREM NeverTornAlone == Spec => []TornOnlyByRace
<1>1. Init => TornInv
  BY TextForms DEF Init, TornInv, Tidy, Replacing, Absent, Whole
<1>2. TypeInv /\ TornInv /\ [Next]_vars => TornInv'
  BY TornStep
<1>3. TornInv => TornOnlyByRace
  BY DEF TornInv, Tidy, TornOnlyByRace
<1>. QED
  BY <1>1, <1>2, <1>3, TypeInvHolds, PTL DEF Spec
-----------------------------------------------------------------------------
(* A process that has the installation for itself *)

(* A process that takes a step of its command is active, moves only itself
   and leaves the history of the others alone. *)
LEMMA Movers ==
  ASSUME InstallationTypeOK, NEW p \in Procs, Steps(p) \/ Crash(p)
  PROVE  /\ Active(p) /\ alone' = alone
         /\ UNCHANGED cmd
         /\ \A q \in Procs \ {p} : pc'[q] = pc[q]
BY DEF InstallationTypeOK, Active, Steps, End,
       InitCheck, InvalidPointer, TaskFails, CreateRoot, WriteRoot, AppendRecord,
       CreateFile, InitDone, Work, Refuse, WorkFails, Open, Write, WriteFails,
       Rename, RenameFails, Crash

(* While a process is alone, the only step another one takes is its start,
   and that ends it. *)
LEMMA OthersStart ==
  ASSUME TypeInv, AloneInv, NEW q \in Procs, alone[q], Active(q),
         NEW p \in Procs \ {q}, Begin(p) \/ Steps(p) \/ Crash(p)
  PROVE  Begin(p) /\ ~alone'[q]
<1>1. ~Active(p)
  BY DEF AloneInv, Lone
<1>2. Begin(p)
  BY <1>1, Movers DEF TypeInv
<1>. QED
  BY <1>2 DEF Begin, TypeInv, InstallationTypeOK

(* A list in part stays somebody's work, or is known to have been cut.     *)
LEMMA CutStep ==
  ASSUME TypeInv, CutInv, [Next]_vars
  PROVE  CutInv'
<1>. USE InstallationAssumption DEF TypeInv, InstallationTypeOK, installed
<1>1. ASSUME NEW p \in Procs, AppendRecord(p) PROVE CutInv'
  <2>1. /\ "ignore" \in todo[p] /\ appended[p] \in Nat /\ appended[p] < MaxRecords
        /\ ignored \in Nat /\ cut' = cut
    BY <1>1 DEF AppendRecord, NextTask, ProcOK
  <2>2. /\ appended'[p] = appended[p] + 1
        /\ \A q \in Procs \ {p} : appended'[q] = appended[q] /\ todo'[q] = todo[q]
        /\ appended[p] + 1 < MaxRecords => "ignore" \in todo'[p]
    BY <1>1, <2>1 DEF AppendRecord
  <2>3. CASE appended[p] < ignored
    <3>1. ignored' = ignored
      BY <1>1, <2>3 DEF AppendRecord
    <3>. QED
      BY <2>1, <2>2, <2>3, <3>1 DEF CutInv
  <2>4. CASE ~(appended[p] < ignored)
    <3>1. ignored' = appended[p] + 1
      BY <1>1, <2>4 DEF AppendRecord
    <3>. QED
      BY <2>1, <2>2, <3>1 DEF CutInv
  <2>. QED
    BY <2>3, <2>4
<1>2. ASSUME NEW p \in Procs, NEW r, End(p, r), UNCHANGED ignored PROVE CutInv'
  <2>1. \A q \in Procs \ {p} : appended'[q] = appended[q] /\ todo'[q] = todo[q]
    BY <1>2 DEF End
  <2>2. cut \/ ("ignore" \in todo[p] /\ appended[p] > 0) => cut'
    BY <1>2, Zenon DEF End
  <2>3. ignored' = ignored /\ ignored \in Nat
    BY <1>2
  <2>. HIDE DEF TypeInv, InstallationTypeOK
  <2>. QED
    BY <2>1, <2>2, <2>3 DEF CutInv
<1>3. ASSUME UNCHANGED <<ignored, appended, cut>>,
             \A q \in Procs : "ignore" \in todo[q] => "ignore" \in todo'[q]
      PROVE  CutInv'
  BY <1>3 DEF CutInv
<1>4. ASSUME NEW p \in Procs,
             Begin(p) \/ CreateRoot(p) \/ Work(p) \/ Open(p) \/ Write(p) \/ Rename(p)
      PROVE  CutInv'
  BY <1>3, <1>4 DEF Begin, CreateRoot, Work, Open, Write, Rename
<1>5. ASSUME NEW p \in Procs, InitCheck(p) \/ WriteRoot(p) \/ CreateFile(p) PROVE CutInv'
  <2>1. /\ UNCHANGED <<ignored, appended, cut>>
        /\ \A q \in Procs \ {p} : todo'[q] = todo[q]
    BY <1>5 DEF InitCheck, WriteRoot, CreateFile
  <2>2. "ignore" \in todo[p] => "ignore" \in todo'[p]
    BY <1>5 DEF InitCheck, WriteRoot, CreateFile, NextTask, ProcOK, Names
  <2>. QED
    BY <1>3, <2>1, <2>2
<1>6. ASSUME NEW p \in Procs, WorkFails(p) PROVE CutInv'
  BY <1>2, <1>3, <1>6 DEF WorkFails
<1>7. ASSUME NEW p \in Procs,
             \/ InvalidPointer(p) \/ TaskFails(p) \/ InitDone(p) \/ Refuse(p)
             \/ WriteFails(p) \/ RenameFails(p) \/ Crash(p)
      PROVE  CutInv'
  BY <1>2, <1>7 DEF InvalidPointer, TaskFails, InitDone, Refuse, WriteFails, RenameFails, Crash
<1>8. UNCHANGED vars => CutInv'
  BY <1>3 DEF vars
<1>. QED
  BY <1>1, <1>4, <1>5, <1>6, <1>7, <1>8 DEF Next, Steps, Rest

(* What a lone process has read and made stays about what is on the disk.  *)
LEMMA AloneStep ==
  ASSUME TypeInv, CutInv, AloneInv, [Next]_vars, TypeInv'
  PROVE  AloneInv'
<1>. USE DEF TypeInv, InstallationTypeOK, installed
<1>. SUFFICES ASSUME NEW q \in Procs, alone'[q], Active(q)'
              PROVE  Lone(q)'
  BY DEF AloneInv
<1>1. ASSUME NEW p \in Procs, p # q, Begin(p) \/ Steps(p) \/ Crash(p)
      PROVE  FALSE
  <2>1. CASE alone[q] /\ Active(q)
    BY <1>1, <2>1, OthersStart
  <2>2. CASE ~(alone[q] /\ Active(q))
    <3>1. CASE Begin(p)
      BY <1>1, <2>2, <3>1 DEF Begin, Active
    <3>2. CASE Steps(p) \/ Crash(p)
      BY <1>1, <2>2, <3>2, Movers DEF Active
    <3>. QED
      BY <1>1, <3>1, <3>2
  <2>. QED
    BY <2>1, <2>2
<1>2. ASSUME Begin(q) PROVE Lone(q)'
  <2>1. \A r \in Procs \ {q} : ~Active(r)
    BY <1>2 DEF Begin
  <2>2. \A r \in Procs \ {q} : ~Active(r)'
    BY <1>2, <2>1 DEF Begin, Active
  <2>3. /\ pc'[q] \in {"check", "work"} /\ text'[q] = disk["state"] /\ disk' = disk
        /\ pc'[q] = "work" => cmd'[q].op # "init"
    BY <1>2 DEF Begin
  <2>. QED
    BY <2>2, <2>3 DEF Lone
<1>3. ASSUME Steps(q) \/ Crash(q) PROVE Lone(q)'
  <2>. USE <1>3
  <2>1. alone[q] /\ Active(q) /\ Lone(q) /\ UNCHANGED cmd
    BY Movers DEF AloneInv
  <2>2. /\ \A r \in Procs \ {q} : ~Active(r)'
        /\ pc[q] # "check" /\ cmd[q].op = "init" => InitAtWork(q)
    BY <2>1, Movers DEF Lone, Active
  <2>3. ~(InvalidPointer(q) \/ InitDone(q) \/ Refuse(q) \/ RenameFails(q) \/ Crash(q) \/ TaskFails(q) \/ WriteFails(q))
    BY DEF InvalidPointer, InitDone, Refuse, RenameFails, Crash, TaskFails, WriteFails, End, Active
  <2>4. ASSUME InitCheck(q) PROVE Lone(q)'
    <3>1. /\ pc'[q] = "task" /\ todo'[q] = Missing
          /\ UNCHANGED <<disk, root, ignored, cut>> /\ root # "empty"
      BY <2>4 DEF InitCheck
    <3>2. \A r \in Procs : "ignore" \notin todo[r]
      BY <2>1, <2>4 DEF InitCheck, Lone, Active, ProcOK
    <3>3. ignored = MaxRecords \/ (ignored > 0 /\ cut) \/ ignored = 0
      BY <3>2, InstallationAssumption DEF CutInv
    <3>4. InitAtWork(q)'
      BY <3>1, <3>3 DEF InitAtWork, Creating, Missing, Names
    <3>. QED
      BY <2>2, <3>1, <3>4 DEF Lone
  <2>5. ASSUME CreateRoot(q) PROVE Lone(q)'
    <3>1. /\ pc[q] = "task" /\ pc'[q] = "root" /\ "root" \in todo[q]
          /\ UNCHANGED <<disk, ignored, todo, file, cut>> /\ cmd[q].op = "init"
      BY <2>5 DEF CreateRoot, NextTask, ProcOK
    <3>2. InitAtWork(q)'
      BY <2>2, <3>1 DEF InitAtWork, Creating
    <3>. QED
      BY <2>2, <3>1, <3>2 DEF Lone
  <2>6. ASSUME WriteRoot(q) PROVE Lone(q)'
    <3>1. /\ pc[q] = "root" /\ pc'[q] = "task" /\ todo'[q] = todo[q] \ {"root"}
          /\ UNCHANGED <<disk, ignored, file, cut>> /\ root' = "dot" /\ cmd[q].op = "init"
      BY <2>6 DEF WriteRoot, ProcOK
    <3>2. InitAtWork(q)'
      BY <2>2, <3>1 DEF InitAtWork, Creating, Names
    <3>. QED
      BY <2>2, <3>1, <3>2 DEF Lone
  <2>7. ASSUME AppendRecord(q) PROVE Lone(q)'
    <3>1. /\ pc[q] = "task" /\ pc' = pc /\ appended[q] \in Nat /\ ignored \in Nat
          /\ UNCHANGED <<disk, root, file, cut>> /\ cmd[q].op = "init"
          /\ "ignore" \in todo[q] /\ appended[q] < MaxRecords
      BY <2>7, InstallationAssumption DEF AppendRecord, NextTask, ProcOK
    <3>2. \A t \in InitTasks \ {"ignore"} : t \in todo'[q] <=> t \in todo[q]
      BY <2>7 DEF AppendRecord, InitTasks
    <3>3. ignored' = MaxRecords \/ "ignore" \in todo'[q]
      BY <2>7, <3>1, InstallationAssumption DEF AppendRecord
    <3>4. InitAtWork(q)'
      BY <2>2, <3>1, <3>2, <3>3 DEF InitAtWork, Creating, Names, InitTasks
    <3>. QED
      BY <2>2, <3>1, <3>4 DEF Lone
  <2>8. ASSUME CreateFile(q) PROVE Lone(q)'
    <3>. DEFINE n == NextTask(q)
    <3>1. /\ pc[q] = "task" /\ n \in Names /\ n \in todo[q] /\ cmd[q].op = "init"
      BY <2>8 DEF CreateFile, NextTask, ProcOK, InitTasks, Names
    <3>2. /\ pc'[q] = "open" /\ file'[q] = n /\ todo'[q] = todo[q] \ {n}
          /\ text'[q] = Whole(Nothing) /\ UNCHANGED <<disk, root, ignored, cmd, cut>>
      BY <2>8 DEF CreateFile
    <3>. HIDE DEF n
    <3>3. disk[n] = Absent
      BY <2>2, <3>1 DEF InitAtWork
    <3>4. InitAtWork(q)'
      BY <2>2, <3>1, <3>2 DEF InitAtWork, Creating, Names
    <3>5. OwnText(q)'
      BY <3>1, <3>2, <3>3 DEF OwnText
    <3>. QED
      BY <2>2, <3>2, <3>4, <3>5 DEF Lone
  <2>9. ASSUME Work(q) PROVE Lone(q)'
    <3>. DEFINE d == disk[file[q]]
    <3>1. /\ pc[q] = "work" /\ cmd[q].op # "init" /\ Base(q) = d
      BY <2>1, <2>9 DEF Work, ProcOK, Lone, Base
    <3>2. PICK v \in Changed(cmd[q], d.val) : text' = [text EXCEPT ![q] = Whole(v)]
      BY <2>9, <3>1 DEF Work
    <3>3. pc'[q] = "open" /\ text'[q] = Whole(v) /\ UNCHANGED <<disk, file>>
      BY <2>9, <3>2 DEF Work
    <3>4. OwnText(q)'
      BY <2>1, <3>1, <3>2, <3>3, Zenon DEF OwnText
    <3>. QED
      BY <2>1, <2>2, <3>1, <3>3, <3>4 DEF Lone
  <2>10. ASSUME WorkFails(q) PROVE Lone(q)'
    <3>. DEFINE d == disk[file[q]]
    <3>1. /\ pc[q] = "work" /\ cmd[q].op # "init" /\ Base(q) = d
      BY <2>1, <2>10 DEF WorkFails, ProcOK, Lone, Base
    <3>2. /\ cmd[q].op = "forget" /\ pc'[q] = "open" /\ UNCHANGED <<disk, file>>
          /\ \E v \in Changed(cmd[q], Base(q).val) \cup {Base(q).val} :
                text' = [text EXCEPT ![q] = Whole(v)]
      BY <2>10, <2>1 DEF WorkFails, End, Active
    <3>3. PICK v \in Changed(cmd[q], d.val) \cup {d.val} :
            text' = [text EXCEPT ![q] = Whole(v)]
      BY <3>1, <3>2
    <3>4. text'[q] = Whole(v)
      BY <3>3
    <3>5. d.is = "whole" /\ d = Whole(d.val)
      BY <2>10, <3>1, <3>2, TextForms DEF WorkFails, Parses, ProcOK, Active, StateCommand
    <3>6. OwnText(q)'
      <4>1. CASE v \in Changed(cmd[q], d.val)
        BY <2>1, <3>1, <3>2, <3>4, <4>1, Zenon DEF OwnText
      <4>2. CASE v = d.val
        BY <2>1, <3>1, <3>2, <3>4, <3>5, <4>2 DEF OwnText
      <4>. QED
        BY <4>1, <4>2
    <3>. QED
      BY <2>1, <2>2, <3>1, <3>2, <3>6 DEF Lone
  <2>11. ASSUME Open(q) PROVE Lone(q)'
    <3>1. /\ pc[q] = "open" /\ pc'[q] = "write" /\ OwnText(q)
          /\ fd'[q] = "tmp" /\ tmp'[file[q]] = Empty
          /\ UNCHANGED <<disk, root, ignored, cmd, file, text, todo, cut>>
      BY <2>1, <2>11 DEF Open, Lone
    <3>2. OwnText(q)'
      BY <3>1 DEF OwnText
    <3>3. cmd[q].op = "init" => InitAtWork(q)'
      BY <2>2, <3>1 DEF InitAtWork, Creating
    <3>. QED
      BY <2>2, <3>1, <3>2, <3>3 DEF Lone
  <2>12. ASSUME Write(q) PROVE Lone(q)'
    <3>1. /\ fd[q] = "tmp" /\ tmp[file[q]] = Empty /\ pc[q] = "write" /\ OwnText(q)
          /\ Behind(q) = Empty /\ text[q] = Whole(text[q].val)
      BY <2>1, <2>12, TextForms DEF Write, Lone, Behind, PhaseOK
    <3>2. /\ Put(q, text[q]) /\ pc'[q] = "rename"
          /\ UNCHANGED <<root, ignored, cmd, file, text, todo, cut>>
      BY <2>12, <3>1 DEF Write, Over, Empty
    <3>3. disk' = disk /\ tmp'[file[q]] = text[q]
      BY <3>1, <3>2 DEF Put
    <3>4. OwnText(q)'
      BY <2>1, <3>1, <3>2, <3>3 DEF OwnText
    <3>5. cmd[q].op = "init" => InitAtWork(q)'
      BY <2>2, <3>1, <3>2, <3>3 DEF InitAtWork, Creating
    <3>. QED
      BY <2>1, <2>2, <3>2, <3>3, <3>4, <3>5 DEF Lone
  <2>13. ASSUME Rename(q) PROVE Lone(q)'
    <3>1. cmd[q].op = "init"
      BY <2>13 DEF Rename, Active
    <3>2. /\ pc[q] = "rename" /\ pc'[q] = "task"
          /\ tmp[file[q]] = Whole(Nothing)
          /\ disk' = [disk EXCEPT ![file[q]] = tmp[file[q]]]
          /\ UNCHANGED <<root, ignored, cmd, file, todo, cut>>
      BY <2>1, <2>13, <3>1 DEF Rename, Lone, OwnText
    <3>3. disk'[file[q]] # Absent /\ file[q] \notin todo[q]
      BY <2>2, <3>1, <3>2 DEF Whole, Absent, InitAtWork, Creating
    <3>4. InitAtWork(q)'
      BY <2>2, <3>1, <3>2, <3>3 DEF InitAtWork, Creating
    <3>. QED
      BY <2>2, <3>2, <3>4 DEF Lone
  <2>. QED
    BY <1>3, <2>3, <2>4, <2>5, <2>6, <2>7, <2>8, <2>9, <2>10, <2>11, <2>12, <2>13 DEF Steps
<1>4. ASSUME UNCHANGED vars PROVE Lone(q)'
  <2>1. Lone(q)
    BY <1>4 DEF vars, AloneInv, Active
  <2>. QED
    BY <1>4, <2>1 DEF vars, Lone, OwnText, InitAtWork, Creating, Active
<1>. QED
  BY <1>1, <1>2, <1>3, <1>4 DEF Next, Rest
(* and so in every reachable state                                         *)
LEMMA AloneHolds == Spec => [](TypeInv /\ AloneInv)
<1>1. Init => AloneInv /\ CutInv
  BY InstallationAssumption DEF Init, AloneInv, CutInv, Active
<1>2. TypeInv /\ TypeInv' /\ AloneInv /\ CutInv /\ [Next]_vars => AloneInv' /\ CutInv'
  BY AloneStep, CutStep
<1>. QED
  BY <1>1, <1>2, TypeInvHolds, PTL DEF Spec

(* What a lone process makes of a file, as LoneRunIsExact says it          *)
Exact(p) ==
  \A n \in Names : disk'[n] # disk[n] =>
    IF cmd[p].op = "init" THEN disk[n] = Absent /\ disk'[n] = Whole(Nothing)
    ELSE disk'[n] \in {Whole(v) : v \in Changed(cmd[p], disk[n].val)}
(* A process that has the installation for itself loses nothing of what the
   others have listed: it replaces a file only by what its command makes of
   the text that is there, whoever died or failed before it, and init only
   creates what does not exist. *)
THEOREM LoneRunsAreExact == Spec => LoneRunIsExact
<1>1. ASSUME TypeInv, AloneInv, [Next]_vars, NEW q \in Procs, alone[q], Active(q)
      PROVE  Exact(q)
  <2>. USE DEF TypeInv, InstallationTypeOK, installed
  <2>1. Lone(q)
    BY <1>1 DEF AloneInv
  <2>2. ASSUME NEW p \in Procs, Begin(p) PROVE UNCHANGED disk
    BY <2>2 DEF Begin
  <2>3. ASSUME Rename(q) PROVE Exact(q)
    <3>1. /\ pc[q] = "rename" /\ tmp[file[q]] = text[q] /\ OwnText(q)
          /\ disk' = [disk EXCEPT ![file[q]] = text[q]]
      BY <2>1, <2>3 DEF Rename, Lone
    <3>2. \A n \in Names : disk'[n] # disk[n] => n = file[q] /\ disk'[n] = text[q]
      BY <3>1
    <3>. QED
      BY <3>1, <3>2 DEF Exact, OwnText
  <2>4. ASSUME Steps(q) \/ Crash(q), ~Rename(q) PROVE UNCHANGED disk
    <3>1. CASE Write(q) \/ WriteFails(q)
      BY <2>1, <3>1 DEF Write, WriteFails, Put, Lone
    <3>2. CASE ~(Write(q) \/ WriteFails(q))
      BY <2>4, <3>2, Zenon DEF Steps, Crash, InitCheck, InvalidPointer, TaskFails,
         CreateRoot, WriteRoot, AppendRecord, CreateFile, InitDone, Work, Refuse,
         WorkFails, Open, RenameFails
    <3>. QED
      BY <3>1, <3>2
  <2>5. ASSUME NEW p \in Procs \ {q}, Steps(p) \/ Crash(p) PROVE UNCHANGED disk
    BY <1>1, <2>2, <2>5, OthersStart
  <2>6. UNCHANGED disk => Exact(q)
    BY DEF Exact
  <2>. QED
    BY <1>1, <2>2, <2>3, <2>4, <2>5, <2>6 DEF Next, Rest, vars
<1>2. TypeInv /\ AloneInv /\ [Next]_vars =>
        [\A p \in Procs : alone[p] /\ Active(p) =>
           \A n \in Names : disk'[n] # disk[n] =>
             IF cmd[p].op = "init" THEN disk[n] = Absent /\ disk'[n] = Whole(Nothing)
             ELSE disk'[n] \in {Whole(v) : v \in Changed(cmd[p], disk[n].val)}]_vars
  BY <1>1 DEF Exact
<1>. QED
  BY <1>2, AloneHolds, PTL DEF Spec, LoneRunIsExact

(* README.md:68: an init that succeeds with the installation for itself has
   left every part of it in place, also over the remains of others, and the
   whole list of ignored files unless one was stopped between two records.
   From InitAtWork: what is missing is still to do; and from CutInv: what is
   there of the list is all of it, or what a stopped init has left. *)
THEOREM InitsComplete == Spec => InitCompletes
<1>1. ASSUME TypeInv, AloneInv, [Next]_vars, NEW q \in Procs,
             alone[q], cmd[q].op = "init", Active(q), result'[q] = "ok"
      PROVE  /\ root' = "dot" /\ \A n \in Names : disk'[n] # Absent
             /\ ignored' > 0 /\ (ignored' = MaxRecords \/ cut)
  <2>. USE DEF TypeInv, InstallationTypeOK, installed
  <2>1. Lone(q) /\ result[q] = "none"
    BY <1>1 DEF AloneInv, ProcOK
  <2>2. ASSUME NEW p \in Procs \ {q}, Begin(p) \/ Steps(p) \/ Crash(p) PROVE FALSE
    <3>1. Begin(p)
      BY <1>1, <2>2, OthersStart
    <3>. QED
      BY <1>1, <2>1, <3>1 DEF Begin
  <2>3. ASSUME Begin(q) \/ ((Steps(q) \/ Crash(q)) /\ ~InitDone(q)) PROVE FALSE
    BY <1>1, <2>1, <2>3 DEF Begin, Steps, Crash, InitCheck, InvalidPointer, TaskFails,
       CreateRoot, WriteRoot, AppendRecord, CreateFile, Work, Refuse, WorkFails,
       Open, Write, WriteFails, Rename, RenameFails, End
  <2>4. InitDone(q)
    BY <1>1, <2>1, <2>2, <2>3 DEF Next, Rest, vars
  <2>5. pc[q] = "task" /\ todo[q] = {} /\ UNCHANGED <<disk, root, ignored>>
    BY <2>4 DEF InitDone
  <2>6. InitAtWork(q)
    BY <1>1, <2>1, <2>5 DEF Lone
  <2>7. ignored = MaxRecords \/ (ignored > 0 /\ cut)
    BY <2>5, <2>6 DEF InitAtWork
  <2>. QED
    BY <2>5, <2>6, <2>7, InstallationAssumption DEF InitAtWork, Creating
<1>2. TypeInv /\ AloneInv /\ [Next]_vars =>
        [\A p \in Procs :
           /\ alone[p] /\ cmd[p].op = "init" /\ Active(p) /\ result'[p] = "ok"
           => /\ root' = "dot" /\ \A n \in Names : disk'[n] # Absent
              /\ ignored' > 0 /\ (ignored' = MaxRecords \/ cut)]_vars
  BY <1>1
<1>. QED
  BY <1>2, AloneHolds, PTL DEF Spec, InitCompletes
=============================================================================
