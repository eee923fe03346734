-------------------------- MODULE EditToolsProofs --------------------------
(***************************************************************************)
(* Theorems about merge and diff -e, for every set of files, invocations   *)
(* and faults.                                                             *)
(***************************************************************************)
EXTENDS EditTools, TLAPS

-----------------------------------------------------------------------------
(* The invariant                                                           *)

AtWork == {"tool", "write", "write2", "sync"}

KnowsInv ==
  /\ pc = "idle" => excused = {} /\ merged = {}
  /\ pc # "idle" => mem \in [Files -> SyncRecords]
  /\ pc \in AtWork => copies \in [Sides -> AllContents]
  /\ pc \in AtWork \ {"tool"} => saved \in [Sides -> AllContents]
  /\ pc = "sync" \/ (pc \in {"write", "write2"} /\ run.cmd = "merge") =>
       saved["target"] = saved["source"]
  /\ pc = "commit" => todo = {}
  /\ current \notin todo
  /\ unseen # {} => current \in excused
TypeInv == ToolsTypeOK /\ KnowsInv

(* Files whose sides are of an age are equal, but for those overlooked:    *)
(* every write is a moment of its own.                                     *)
AgeInv ==
  /\ \A f \in Files, s \in Sides : Exists(f, s) => file[<<f, s>>].mtime <= clock
  /\ \A f \in Files \ overlooked :
       BothExist(f) /\ file[<<f, "target">>].mtime = file[<<f, "source">>].mtime
         => Equal(f)

(* What a side of the pair in hand holds, unless the user has been at it   *)
(* since: what was copied out until it is saved, and then what was saved.  *)
FirstSide == IF run.cmd = "merge" THEN "source" ELSE "target"
Saves == {s \in Sides : pc = "sync" \/ (pc = "write2" /\ s = FirstSide)}
Holds(s) ==
  /\ Exists(current, s)
  /\ file[<<current, s>>].content = IF s \in Saves THEN saved[s] ELSE copies[s]
HandInv == pc \in AtWork => \A s \in Sides \ unseen : Holds(s)

(* What a merge that goes on has come to                                   *)
Merging == pc \notin {"idle", "failed"} /\ run.cmd = "merge" /\ ~run.dryRun
InSync(f) == BothExist(f) /\ Verdict(f, mem) = "NonModified"
Unconflicted(f) == BothExist(f) => Verdict(f, mem) # "BothModified"
MergeInv ==
  Merging =>
    /\ \A f \in Files : f \in todo \/ f = current => mem[f] = disk[f] /\ f \notin merged
    /\ run.files = {} => \A f \in Files \ excused :
                           f \in todo \/ f = current \/ Unconflicted(f)
    /\ \A f \in merged \ excused : InSync(f)

ToolsInv == TypeInv /\ AgeInv /\ HandInv /\ MergeInv
-----------------------------------------------------------------------------
(* What the steps do to the files                                          *)

(* An entry is there, and is a content and a time.                         *)
LEMMA EntriesAre ==
  \A e \in Entries : e # Absent /\ e.content \in AllContents /\ e.mtime \in Nat
BY ToolsAssumption DEF Entries

(* A pair that both exist, as entries.                                     *)
LEMMA PairTypes ==
  ASSUME ToolsTypeOK, NEW f \in Files, NEW s \in Sides
  PROVE  /\ file[<<f, s>>] \in Entries \cup {Absent}
         /\ Exists(f, s) => file[<<f, s>>] \in Entries
BY DEF ToolsTypeOK, Exists

(* A write of one side of one file.                                        *)
Puts(f, s, e) == file' = [file EXCEPT ![<<f, s>>] = e]

(* A change of one side changes that side only.                            *)
LEMMA OneSideChanges ==
  ASSUME NEW h \in [Files \X Sides -> Entries \cup {Absent}],
         NEW f \in Files, NEW s \in Sides, NEW e \in Entries \cup {Absent}
  PROVE  LET h2 == [h EXCEPT ![<<f, s>>] = e] IN
         /\ h2 \in [Files \X Sides -> Entries \cup {Absent}]
         /\ \A g \in Files, t \in Sides :
              h2[<<g, t>>] = IF g = f /\ t = s THEN e ELSE h[<<g, t>>]
OBVIOUS

(* It changes that side only.                                              *)
LEMMA PutChanges ==
  ASSUME ToolsTypeOK, NEW f \in Files, NEW s \in Sides,
         NEW e \in Entries \cup {Absent}, Puts(f, s, e)
  PROVE  /\ file' \in [Files \X Sides -> Entries \cup {Absent}]
         /\ \A g \in Files, t \in Sides :
              file'[<<g, t>>] = IF g = f /\ t = s THEN e ELSE file[<<g, t>>]
BY OneSideChanges DEF ToolsTypeOK, Puts

(* The run saves a side of the file in hand, or leaves it cut short.       *)
Stamped(c) == [content |-> c, mtime |-> clock + 1]
Saving(c) ==
  /\ pc \in {"write", "write2"} /\ Rewritten(Side)
  /\ Puts(current, Side, Stamped(c)) /\ clock' = clock + 1

(* While a run has a file in hand, that file, the side and what is saved   *)
(* there are what they should be.                                          *)
LEMMA InHand ==
  ASSUME TypeInv, pc \in {"copy"} \cup AtWork
  PROVE  /\ current \in Files /\ run \in RunType /\ Side \in Sides
         /\ pc \in AtWork \ {"tool"} => saved[Side] \in AllContents
BY ToolsAssumption DEF TypeInv, ToolsTypeOK, KnowsInv, AtWork, Side, Sides

(* What is stamped is an entry.                                            *)
LEMMA StampedIs ==
  ASSUME TypeInv, NEW c \in AllContents
  PROVE  /\ Stamped(c) \in Entries
         /\ Stamped(c).content = c /\ Stamped(c).mtime = clock + 1
BY DEF TypeInv, ToolsTypeOK, Stamped, Entries

(* A step that fails or is interrupted leaves the files as they were, or   *)
(* the one being saved cut short.                                          *)
LEMMA CutShortIs ==
  ASSUME TypeInv, file' \in CutShort, clock' = clock + 1
  PROVE  UNCHANGED file \/ Saving(Torn)
BY DEF CutShort, Saving, Puts, Stamped, InPlace

(* A side is saved, or left as it was if the tool left it.                 *)
LEMMA SaveIs ==
  ASSUME TypeInv, SaveSide
  PROVE  /\ ~Rewritten(Side) => UNCHANGED <<file, clock>>
         /\ Rewritten(Side) => Saving(saved[Side])
BY DEF SaveSide, Saving, Puts, Stamped, InPlace

(* A synchronized pair gets the time of its record, its contents stay.     *)
LEMMA SynchronizeIs ==
  ASSUME TypeInv, Synchronize
  PROVE  /\ current \in Files /\ BothExist(current)
         /\ Recorded(current) \in SyncRecords
         /\ mem' = [mem EXCEPT ![current] = Recorded(current)]
         /\ file' \in [Files \X Sides -> Entries \cup {Absent}]
         /\ \A g \in Files, t \in Sides :
              file'[<<g, t>>] =
                IF g = current
                THEN [content |-> file[<<g, t>>].content, mtime |-> clock]
                ELSE file[<<g, t>>]
<1>. ToolsTypeOK
  BY DEF TypeInv
<1>1. current \in Files /\ pc = "sync" /\ BothExist(current) /\ mem \in [Files -> SyncRecords]
  BY InHand DEF Synchronize, AtWork, TypeInv, KnowsInv
<1>2. /\ file[<<current, "source">>] \in Entries
      /\ file[<<current, "target">>] \in Entries
  BY <1>1, PairTypes DEF BothExist, Sides
<1>3. Recorded(current) \in SyncRecords /\ Recorded(current).mtime = clock
  BY <1>2, EntriesAre DEF Recorded, SyncRecords, ToolsTypeOK
<1>4. mem' = [mem EXCEPT ![current] = Recorded(current)]
  BY DEF Synchronize
<1>5. mem'[current].mtime = clock
  BY <1>1, <1>3, <1>4
<1>6. file' = [file EXCEPT ![<<current, "target">>].mtime = clock,
                           ![<<current, "source">>].mtime = clock]
  BY <1>5 DEF Synchronize
<1>7. \A e \in Entries : [e EXCEPT !.mtime = clock] = [content |-> e.content, mtime |-> clock]
                         /\ [e EXCEPT !.mtime = clock] \in Entries
  BY DEF Entries, ToolsTypeOK
<1>. DEFINE Set(e) == [e EXCEPT !.mtime = clock]
            h1 == [file EXCEPT ![<<current, "target">>] = Set(file[<<current, "target">>])]
            h2 == [h1 EXCEPT ![<<current, "source">>] = Set(h1[<<current, "source">>])]
<1>8. file' = h2
  BY <1>6
<1>9. file \in [Files \X Sides -> Entries \cup {Absent}]
  BY DEF ToolsTypeOK
<1>10. Set(file[<<current, "target">>]) \in Entries
  BY <1>2, <1>7
<1>11. /\ h1 \in [Files \X Sides -> Entries \cup {Absent}]
       /\ \A g \in Files, t \in Sides :
            h1[<<g, t>>] = IF g = current /\ t = "target"
                           THEN Set(file[<<current, "target">>]) ELSE file[<<g, t>>]
  BY <1>1, <1>9, <1>10, OneSideChanges DEF Sides
<1>12. h1[<<current, "source">>] = file[<<current, "source">>]
  BY <1>1, <1>11 DEF Sides
<1>13. Set(h1[<<current, "source">>]) \in Entries
  BY <1>2, <1>7, <1>12
<1>. HIDE DEF h1
<1>14. /\ h2 \in [Files \X Sides -> Entries \cup {Absent}]
       /\ \A g \in Files, t \in Sides :
            h2[<<g, t>>] = IF g = current /\ t = "source"
                           THEN Set(h1[<<current, "source">>]) ELSE h1[<<g, t>>]
  BY <1>1, <1>11, <1>13, OneSideChanges DEF Sides
<1>. HIDE DEF h2
<1>15. \A g \in Files, t \in Sides :
         file'[<<g, t>>] =
           IF g = current
           THEN [content |-> file[<<g, t>>].content, mtime |-> clock]
           ELSE file[<<g, t>>]
  <2>. SUFFICES ASSUME NEW g \in Files, NEW t \in Sides
                PROVE  file'[<<g, t>>] =
                         IF g = current
                         THEN [content |-> file[<<g, t>>].content, mtime |-> clock]
                         ELSE file[<<g, t>>]
    OBVIOUS
  <2>1. CASE g # current
    BY <2>1, <1>8, <1>11, <1>14
  <2>2. CASE g = current
    <3>1. file[<<g, t>>] \in Entries
      BY <1>2, <2>2 DEF Sides
    <3>2. file'[<<g, t>>] = Set(file[<<g, t>>])
      BY <1>8, <1>11, <1>12, <1>14, <2>2 DEF Sides
    <3>. QED
      BY <1>7, <2>2, <3>1, <3>2
  <2>. QED
    BY <2>1, <2>2
<1>. QED
  BY <1>1, <1>3, <1>4, <1>8, <1>14, <1>15

(* The files a step may leave, and when: the ways the rest of the proofs   *)
(* distinguish.                                                            *)
Still == UNCHANGED file /\ (clock' = clock \/ clock' = clock + 1)
Touching(f, s) ==
  /\ excused' = IF pc = "idle" THEN {} ELSE excused \cup {f}
  /\ unseen' = IF f = current /\ pc # "copy" THEN unseen \cup {s} ELSE unseen
  /\ overlooked' = overlooked \ {f}
  /\ UNCHANGED <<disk, mem, run, pc, todo, current, copies, saved, merged>>
  /\ \/ Puts(f, s, Absent) /\ clock' = clock
     \/ \E c \in Contents : Puts(f, s, Stamped(c)) /\ clock' = clock + 1

(* Every step is one of them.                                              *)
LEMMA FileSteps ==
  ASSUME TypeInv, [Next]_vars
  PROVE  \/ Still
         \/ \E c \in AllContents : Saving(c)
         \/ Synchronize /\ clock' = clock
         \/ \E f \in Files, s \in Sides : Touching(f, s)
<1>. Torn \in AllContents
  BY DEF AllContents
<1>1. ASSUME NEW r \in Runs, Start(r)
     PROVE  Still \/ \E g \in Files, t \in Sides : Touching(g, t)
  BY <1>1 DEF Start, Still
<1>2. ASSUME NEW f \in todo, Pick(f)
     PROVE  Still \/ \E g \in Files, t \in Sides : Touching(g, t)
  BY <1>2 DEF Pick, Still
<1>3. CASE CopyOut
  BY <1>3 DEF CopyOut, Still
<1>4. CASE ToolExits
  BY <1>4 DEF ToolExits, Still
<1>5. CASE SaveSide
  <2>1. saved[Side] \in AllContents
    BY <1>5, InHand DEF SaveSide, AtWork
  <2>. QED
    BY <1>5, <2>1, SaveIs DEF Still
<1>6. CASE Synchronize
  BY <1>6 DEF Synchronize
<1>7. CASE FailStep
  BY <1>7, CutShortIs DEF FailStep, Still
<1>8. CASE DenyStep
  BY <1>8 DEF DenyStep, Still
<1>9. CASE AllPicked
  BY <1>9 DEF AllPicked, Still
<1>10. CASE Commit
  BY <1>10 DEF Commit, Still
<1>11. CASE Fail
  BY <1>11 DEF Fail, Still
<1>12. CASE Crash
  BY <1>12, CutShortIs DEF Crash, Still
<1>13. ASSUME NEW f \in Files, NEW s \in Sides, NEW c \in Contents, Edit(f, s, c)
      PROVE  Still \/ \E g \in Files, t \in Sides : Touching(g, t)
  BY <1>13 DEF Edit, Touch, Touching, Puts, Stamped
<1>14. ASSUME NEW f \in Files, NEW s \in Sides, Remove(f, s)
      PROVE  Still \/ \E g \in Files, t \in Sides : Touching(g, t)
  BY <1>14 DEF Remove, Touch, Touching, Puts
<1>15. CASE Rest
  BY <1>15 DEF Rest, vars, Still
<1>16. CASE UNCHANGED vars
  BY <1>16 DEF vars, Still
<1>. QED
  BY <1>1, <1>2, <1>3, <1>4, <1>5, <1>6, <1>7, <1>8, <1>9, <1>10, <1>11, <1>12,
     <1>13, <1>14, <1>15, <1>16
     DEF Next, Process, User

-----------------------------------------------------------------------------
(* The types                                                               *)

(* The installation starts with every pair equal and of an age.            *)
LEMMA InitHolds == Init => ToolsInv
<1>. SUFFICES ASSUME Init PROVE ToolsInv
  OBVIOUS
<1>1. PICK c \in [Files -> Contents] :
        /\ file = [p \in Files \X Sides |-> [content |-> c[p[1]], mtime |-> 0]]
        /\ disk = [f \in Files |-> [mtime |-> 0, sha256 |-> c[f]]]
  BY DEF Init
<1>2. \A f \in Files, s \in Sides :
        /\ file[<<f, s>>] \in Entries
        /\ file[<<f, s>>].content = c[f] /\ file[<<f, s>>].mtime = 0
  BY <1>1 DEF Entries, AllContents
<1>3. /\ blob = [f \in Encrypted |-> "target"] /\ mem = [f \in Files |-> Absent]
      /\ clock = 0 /\ run = Absent /\ pc = "idle" /\ todo = {} /\ current = Absent
      /\ copies = NoCopies /\ saved = NoCopies /\ excused = {} /\ merged = {}
      /\ unseen = {} /\ overlooked = {}
  BY DEF Init
<1>4. file \in [Files \X Sides -> Entries \cup {Absent}]
  BY <1>1 DEF Entries, AllContents
<1>5. disk \in [Files -> SyncRecords]
  BY <1>1 DEF SyncRecords, AllContents
<1>6. ToolsTypeOK
  BY <1>3, <1>4, <1>5 DEF ToolsTypeOK, Phases, NoCopies
<1>7. KnowsInv
  BY <1>3 DEF KnowsInv, AtWork
<1>8. AgeInv
  BY <1>2, <1>3 DEF AgeInv, Equal, Sides
<1>9. HandInv /\ MergeInv
  BY <1>3 DEF HandInv, MergeInv, Merging, AtWork
<1>. QED
  BY <1>6, <1>7, <1>8, <1>9 DEF ToolsInv, TypeInv

(* The files keep their types, whoever writes them.                        *)
LEMMA FileTypes ==
  ASSUME TypeInv, [Next]_vars
  PROVE  file' \in [Files \X Sides -> Entries \cup {Absent}] /\ clock' \in Nat
<1>. ToolsTypeOK
  BY DEF TypeInv
<1>1. CASE Still
  BY <1>1 DEF Still, ToolsTypeOK
<1>2. ASSUME NEW c \in AllContents, Saving(c)
      PROVE  file' \in [Files \X Sides -> Entries \cup {Absent}] /\ clock' \in Nat
  BY <1>2, InHand, StampedIs, PutChanges DEF Saving, AtWork, ToolsTypeOK
<1>3. CASE Synchronize /\ clock' = clock
  BY <1>3, SynchronizeIs DEF ToolsTypeOK
<1>4. ASSUME NEW f \in Files, NEW s \in Sides, Touching(f, s)
      PROVE  file' \in [Files \X Sides -> Entries \cup {Absent}] /\ clock' \in Nat
  <2>1. \A c \in Contents : Stamped(c) \in Entries
    BY StampedIs DEF AllContents
  <2>. QED
    BY <1>4, <2>1, PutChanges DEF Touching, ToolsTypeOK
<1>. QED
  BY <1>1, <1>2, <1>3, <1>4, FileSteps

(* A source's blob says who wrote it.                                      *)
LEMMA BlobTypes ==
  ASSUME ToolsTypeOK, NEW f, NEW s, NEW by \in {"target", "result"}, Described(f, s, by)
  PROVE  blob' \in [Encrypted -> {"target", "result"}]
BY DEF Described, ToolsTypeOK

(* What a run ends with.                                                   *)
LEMMA QuitTypes ==
  ASSUME Quit
  PROVE  /\ pc' = "idle" /\ run' = Absent /\ todo' = {} /\ current' = Absent
         /\ mem' \in [Files -> SyncRecords \cup {Absent}]
         /\ copies' = NoCopies /\ saved' = NoCopies
         /\ excused' = {} /\ merged' = {} /\ unseen' = {} /\ overlooked' = overlooked
BY DEF Quit

(* Every step keeps the types and what a run knows.                        *)
LEMMA TypeStep ==
  ASSUME TypeInv, [Next]_vars
  PROVE  TypeInv'
<1>. DEFINE Rest1 ==
       /\ blob \in [Encrypted -> {"target", "result"}]
       /\ disk \in [Files -> SyncRecords]
       /\ mem \in [Files -> SyncRecords \cup {Absent}]
       /\ run \in Runs \cup {Absent} /\ pc \in Phases
       /\ todo \subseteq Files /\ current \in Files \cup {Absent}
       /\ copies \in [Sides -> AllContents \cup {Absent}]
       /\ saved \in [Sides -> AllContents \cup {Absent}]
       /\ excused \subseteq Files /\ merged \subseteq Files
       /\ unseen \subseteq Sides /\ overlooked \subseteq Files
       /\ pc = "idle" <=> run = Absent
       /\ current # Absent <=> pc \in {"copy", "tool", "write", "write2", "sync"}
       /\ copies # NoCopies \/ unseen # {} => current # Absent
<1>0. SUFFICES Rest1' /\ KnowsInv'
  BY FileTypes DEF TypeInv, ToolsTypeOK
<1>. ToolsTypeOK /\ KnowsInv
  BY DEF TypeInv
<1>. Absent \notin Files /\ Absent \notin Runs
  BY ToolsAssumption
<1>. NoCopies \in [Sides -> AllContents \cup {Absent}]
  BY DEF NoCopies
<1>1. ASSUME NEW r \in Runs, Start(r)
     PROVE  Rest1' /\ KnowsInv'
  <2>1. todo' \subseteq Files
    BY <1>1, ToolsAssumption DEF Start, RunType
  <2>. QED
    BY <1>1, <2>1 DEF Start, ToolsTypeOK, KnowsInv, Phases, AtWork
<1>2. ASSUME NEW f \in todo, Pick(f)
     PROVE  Rest1' /\ KnowsInv'
  BY <1>2 DEF Pick, ToolsTypeOK, KnowsInv, Phases, AtWork
<1>3. CASE CopyOut
  <2>1. copies' \in [Sides -> AllContents]
    BY <1>3, PairTypes, EntriesAre, InHand DEF CopyOut, CopiesOf, BothExist, Sides
  <2>. QED
    BY <1>3, <2>1 DEF CopyOut, ToolsTypeOK, KnowsInv, Phases, AtWork
<1>4. CASE ToolExits
  <2>1. CASE GiveUp /\ UNCHANGED <<file, blob, disk, mem, clock, run, todo, excused, merged, overlooked>>
    BY <1>4, <2>1 DEF ToolExits, GiveUp, ToolsTypeOK, KnowsInv, Phases, AtWork
  <2>2. CASE NextCandidate /\ UNCHANGED <<file, blob, disk, mem, clock, run, todo, excused, merged, overlooked>>
    BY <1>4, <2>2 DEF ToolExits, NextCandidate, ToolsTypeOK, KnowsInv, Phases, AtWork
  <2>3. ASSUME NEW c \in [Sides -> Contents \cup {copies[s] : s \in Sides}],
               run.cmd = "merge" => c["target"] = c["source"],
               saved' = c, pc' = "write", UNCHANGED <<current, copies, unseen>>,
               UNCHANGED <<file, blob, disk, mem, clock, run, todo, excused, merged, overlooked>>
        PROVE  Rest1' /\ KnowsInv'
    <3>1. copies \in [Sides -> AllContents]
      BY <1>4 DEF ToolExits, KnowsInv, AtWork
    <3>2. c \in [Sides -> AllContents]
      BY <2>3, <3>1 DEF AllContents
    <3>. QED
      BY <1>4, <2>3, <3>2 DEF ToolExits, ToolsTypeOK, KnowsInv, Phases, AtWork
  <2>. QED
    BY <1>4, <2>1, <2>2, <2>3 DEF ToolExits
<1>5. CASE SaveSide
  <2>1. blob' \in [Encrypted -> {"target", "result"}]
    BY <1>5, BlobTypes DEF SaveSide, DescribedBy, ToolsTypeOK
  <2>2. CASE NextCandidate
    BY <1>5, <2>1, <2>2 DEF SaveSide, NextCandidate, ToolsTypeOK, KnowsInv, Phases, AtWork
  <2>3. CASE /\ UNCHANGED <<current, copies, saved, unseen>>
             /\ pc' = AfterSave /\ AfterSave # "pick"
    <3>1. pc' = "write2" \/ (pc' = "sync" /\ saved["target"] = saved["source"])
      BY <1>5, <2>3 DEF SaveSide, AfterSave, KnowsInv
    <3>. QED
      BY <1>5, <2>1, <2>3, <3>1 DEF SaveSide, ToolsTypeOK, KnowsInv, Phases, AtWork
  <2>. QED
    BY <1>5, <2>2, <2>3 DEF SaveSide
<1>6. CASE Synchronize
  <2>1. mem' \in [Files -> SyncRecords] /\ current \in Files
    BY <1>6, SynchronizeIs DEF Synchronize, KnowsInv
  <2>. QED
    BY <1>6, <2>1 DEF Synchronize, NextCandidate, ToolsTypeOK, KnowsInv, Phases, AtWork
<1>7. CASE FailStep
  BY <1>7 DEF FailStep, GiveUp, ToolsTypeOK, KnowsInv, Phases, AtWork
<1>8. CASE DenyStep
  <2>1. current \in Files /\ mem \in [Files -> SyncRecords]
    BY <1>8 DEF DenyStep, ToolsTypeOK, KnowsInv
  <2>2. mem' \in [Files -> SyncRecords]
    <3>1. Exists(current, "source") => Recorded(current) \in SyncRecords
      BY <2>1, PairTypes, EntriesAre DEF Recorded, SyncRecords, Sides, ToolsTypeOK
    <3>. QED
      BY <1>8, <2>1, <3>1 DEF DenyStep
  <2>. QED
    BY <1>8, <2>1, <2>2 DEF DenyStep, NextCandidate, GiveUp, ToolsTypeOK, KnowsInv, Phases, AtWork
<1>9. CASE AllPicked
  BY <1>9 DEF AllPicked, ToolsTypeOK, KnowsInv, Phases, AtWork
<1>10. CASE Commit
  <2>1. disk' \in [Files -> SyncRecords]
    BY <1>10 DEF Commit, KnowsInv
  <2>. QED
    BY <1>10, <2>1, QuitTypes DEF Commit, ToolsTypeOK, KnowsInv, Phases, AtWork
<1>11. CASE Fail
  BY <1>11, QuitTypes DEF Fail, ToolsTypeOK, KnowsInv, Phases, AtWork
<1>12. CASE Crash
  BY <1>12, QuitTypes DEF Crash, ToolsTypeOK, KnowsInv, Phases, AtWork
<1>13. ASSUME NEW f \in Files, NEW s \in Sides, NEW c \in Contents, Edit(f, s, c)
      PROVE  Rest1' /\ KnowsInv'
  <2>1. blob' \in [Encrypted -> {"target", "result"}]
    BY <1>13, BlobTypes DEF Edit
  <2>. QED
    BY <1>13, <2>1 DEF Edit, Touch, ToolsTypeOK, KnowsInv, Phases, AtWork
<1>14. ASSUME NEW f \in Files, NEW s \in Sides, Remove(f, s)
      PROVE  Rest1' /\ KnowsInv'
  BY <1>14 DEF Remove, Touch, ToolsTypeOK, KnowsInv, Phases, AtWork
<1>15. CASE Rest
  BY <1>15 DEF Rest, vars, ToolsTypeOK, KnowsInv
<1>16. CASE UNCHANGED vars
  BY <1>16 DEF vars, ToolsTypeOK, KnowsInv
<1>. QED
  BY <1>1, <1>2, <1>3, <1>4, <1>5, <1>6, <1>7, <1>8, <1>9, <1>10, <1>11, <1>12,
     <1>13, <1>14, <1>15, <1>16
     DEF Next, Process, User

-----------------------------------------------------------------------------
(* Ages                                                                    *)

(* A write later than every file leaves files of an age equal.             *)
LEMMA PutKeepsAges ==
  ASSUME TypeInv, AgeInv, NEW f \in Files, NEW s \in Sides, NEW c \in AllContents,
         Puts(f, s, Stamped(c)), clock' = clock + 1, overlooked \subseteq overlooked' \cup {f}
  PROVE  AgeInv'
<1>. ToolsTypeOK /\ clock \in Nat
  BY DEF TypeInv, ToolsTypeOK
<1>1. Stamped(c) \in Entries /\ Stamped(c).mtime = clock + 1
  BY StampedIs
<1>2. \A g \in Files, t \in Sides :
        file'[<<g, t>>] = IF g = f /\ t = s THEN Stamped(c) ELSE file[<<g, t>>]
  <2>1. Stamped(c) \in Entries \cup {Absent}
    BY <1>1
  <2>. QED
    BY <2>1, PutChanges DEF Puts
<1>3. \A g \in Files, t \in Sides : Exists(g, t) => file[<<g, t>>].mtime <= clock
                                                    /\ file[<<g, t>>].mtime \in Nat
  BY PairTypes, EntriesAre DEF AgeInv
<1>4. \A g \in Files, t \in Sides : Exists(g, t)' => file'[<<g, t>>].mtime <= clock'
  BY <1>1, <1>2, <1>3 DEF Exists
<1>5. ASSUME NEW g \in Files, BothExist(g)',
             file'[<<g, "target">>].mtime = file'[<<g, "source">>].mtime
      PROVE  g # f
  BY <1>1, <1>2, <1>3, <1>5 DEF BothExist, Exists, Sides
<1>6. ASSUME NEW g \in Files \ overlooked', BothExist(g)',
             file'[<<g, "target">>].mtime = file'[<<g, "source">>].mtime
      PROVE  Equal(g)'
  BY <1>2, <1>5, <1>6 DEF BothExist, Exists, Sides, AgeInv, Equal
<1>. QED
  BY <1>4, <1>6 DEF AgeInv

(* No step but the synchronization of a pair and the user's own overlooks  *)
(* one, or takes one back.                                                 *)
LEMMA OverlooksOnly ==
  ASSUME [Next]_vars
  PROVE  overlooked' = overlooked \/ Synchronize \/ \E f \in Files, s \in Sides : Touching(f, s)
BY DEF Next, Process, User, Start, Pick, CopyOut, ToolExits, SaveSide, FailStep, DenyStep,
       AllPicked, Commit, Fail, Crash, Quit, Edit, Remove, Touch, Touching, Puts, Stamped,
       Rest, vars

(* Every step keeps files of an age equal.                                 *)
LEMMA AgeStep ==
  ASSUME TypeInv, AgeInv, HandInv, [Next]_vars
  PROVE  AgeInv'
<1>. ToolsTypeOK /\ clock \in Nat
  BY DEF TypeInv, ToolsTypeOK
<1>1. CASE Still /\ overlooked' = overlooked
  <2>1. \A g \in Files, t \in Sides : Exists(g, t) => file[<<g, t>>].mtime \in Nat
    BY PairTypes, EntriesAre
  <2>. QED
    BY <1>1, <2>1 DEF Still, AgeInv, Exists, BothExist, Equal
<1>2. ASSUME NEW c \in AllContents, Saving(c), overlooked' = overlooked PROVE AgeInv'
  BY <1>2, InHand, PutKeepsAges DEF Saving, AtWork
<1>3. CASE Synchronize /\ clock' = clock
  <2>1. current \in Files /\ (current \notin overlooked' => Equal(current))
    <3>1. pc = "sync" /\ pc \in AtWork
      BY <1>3 DEF Synchronize, AtWork
    <3>2. current \notin overlooked' => unseen = {}
      BY <1>3 DEF Synchronize
    <3>3. Saves = Sides /\ saved["target"] = saved["source"]
      BY <3>1 DEF Saves, TypeInv, KnowsInv
    <3>. QED
      BY <1>3, <3>1, <3>2, <3>3, SynchronizeIs DEF HandInv, Holds, Equal, Sides
  <2>2. \A g \in Files, t \in Sides :
          file'[<<g, t>>] = IF g = current
                            THEN [content |-> file[<<g, t>>].content, mtime |-> clock]
                            ELSE file[<<g, t>>]
    BY <1>3, SynchronizeIs
  <2>3. \A t \in Sides : Exists(current, t)
    BY <1>3, SynchronizeIs DEF BothExist, Sides
  <2>4. \A g \in Files, t \in Sides : Exists(g, t)' => Exists(g, t)
    BY <2>2, <2>3 DEF Exists
  <2>5. \A g \in Files, t \in Sides : Exists(g, t)' => file'[<<g, t>>].mtime <= clock'
    <3>1. \A g \in Files, t \in Sides :
            \/ file'[<<g, t>>].mtime = clock
            \/ file'[<<g, t>>] = file[<<g, t>>]
      <4>1. ASSUME NEW g \in Files, NEW t \in Sides, g = current
            PROVE  file'[<<g, t>>].mtime = clock
        <5>1. file'[<<g, t>>] = [content |-> file[<<g, t>>].content, mtime |-> clock]
          BY <2>2, <4>1
        <5>. QED
          BY <5>1
      <4>. QED
        BY <2>2, <4>1
    <3>. QED
      BY <1>3, <2>4, <3>1 DEF AgeInv
  <2>6. ASSUME NEW g \in Files \ overlooked', BothExist(g)',
               file'[<<g, "target">>].mtime = file'[<<g, "source">>].mtime
        PROVE  Equal(g)'
    <3>1. CASE g = current
      BY <2>1, <2>2, <2>6, <3>1 DEF Equal, Sides
    <3>2. CASE g # current
      <4>1. g \notin overlooked
        BY <1>3, <2>6, <3>2 DEF Synchronize
      <4>. QED
        BY <2>2, <2>6, <3>2, <4>1 DEF Equal, Sides, AgeInv, BothExist, Exists
    <3>. QED
      BY <3>1, <3>2
  <2>. QED
    BY <2>5, <2>6 DEF AgeInv
<1>4. ASSUME NEW f \in Files, NEW s \in Sides, Touching(f, s) PROVE AgeInv'
  <2>0. overlooked' = overlooked \ {f}
    BY <1>4 DEF Touching
  <2>1. CASE Puts(f, s, Absent) /\ clock' = clock
    <3>1. \A g \in Files, t \in Sides : file'[<<g, t>>] \in {file[<<g, t>>], Absent}
      <4>1. Absent \in Entries \cup {Absent}
        OBVIOUS
      <4>2. \A g \in Files, t \in Sides :
              file'[<<g, t>>] = IF g = f /\ t = s THEN Absent ELSE file[<<g, t>>]
        BY <2>1, <4>1, PutChanges DEF Puts
      <4>. QED
        BY <4>2
    <3>2. ~BothExist(f)'
      <4>1. file'[<<f, s>>] = Absent
        BY <2>1, PutChanges DEF Puts
      <4>. QED
        BY <4>1 DEF BothExist, Exists, Sides
    <3>. QED
      BY <2>0, <2>1, <3>1, <3>2 DEF AgeInv, Exists, BothExist, Equal, Sides
  <2>2. ASSUME NEW c \in Contents, Puts(f, s, Stamped(c)), clock' = clock + 1
        PROVE  AgeInv'
    BY <2>0, <2>2, PutKeepsAges DEF AllContents
  <2>. QED
    BY <1>4, <2>1, <2>2 DEF Touching
<1>5. Synchronize => clock' = clock
  BY DEF Synchronize
<1>. QED
  BY <1>1, <1>2, <1>3, <1>4, <1>5, FileSteps, OverlooksOnly

-----------------------------------------------------------------------------
(* The pair in hand                                                        *)

(* Of the pair in hand a step of the user's leaves the sides alone, unless *)
(* the pair is excused.                                                    *)
LEMMA HandUntouched ==
  ASSUME TypeInv, NEW f \in Files, NEW s \in Sides, Touching(f, s)
  PROVE  \A g \in Files, t \in Sides : g # f => file'[<<g, t>>] = file[<<g, t>>]
<1>1. \A c \in Contents : Stamped(c) \in Entries \cup {Absent}
  BY StampedIs DEF AllContents
<1>2. PICK e \in Entries \cup {Absent} : Puts(f, s, e)
  BY <1>1 DEF Touching
<1>. QED
  BY <1>2, PutChanges DEF Puts, TypeInv

(* A side that is saved holds what was saved, and the other one what it    *)
(* did, as long as the user leaves them alone.                             *)
LEMMA SavedHolds ==
  ASSUME TypeInv, SaveSide, NEW t \in Sides, Holds(t)
  PROVE  /\ file'[<<current, t>>] # Absent
         /\ file'[<<current, t>>].content =
              IF t = Side THEN saved[Side] ELSE file[<<current, t>>].content
<1>. ToolsTypeOK
  BY DEF TypeInv
<1>1. current \in Files /\ Side \in Sides /\ saved[Side] \in AllContents
  BY InHand DEF SaveSide, AtWork
<1>2. file[<<current, t>>] # Absent
  BY DEF Holds, Exists
<1>3. CASE Rewritten(Side)
  <2>1. Stamped(saved[Side]) \in Entries /\ Stamped(saved[Side]).content = saved[Side]
    BY <1>1, StampedIs
  <2>2. Stamped(saved[Side]) # Absent
    BY <2>1, EntriesAre
  <2>3. Puts(current, Side, Stamped(saved[Side]))
    BY <1>3, SaveIs DEF Saving
  <2>4. \A g \in Files, u \in Sides :
          file'[<<g, u>>] = IF g = current /\ u = Side THEN Stamped(saved[Side])
                                                      ELSE file[<<g, u>>]
    BY <1>1, <2>1, <2>3, PutChanges DEF Puts
  <2>. QED
    BY <1>1, <1>2, <2>1, <2>2, <2>4
<1>4. CASE ~Rewritten(Side)
  <2>1. file' = file
    BY <1>4, SaveIs
  <2>2. saved[Side] = copies[Side] /\ run.cmd # "merge"
    BY <1>4 DEF Rewritten
  <2>3. Side \notin Saves
    BY <2>2 DEF Side, Saves, FirstSide, SaveSide
  <2>. QED
    BY <1>1, <1>2, <2>1, <2>2, <2>3 DEF Holds
<1>. QED
  BY <1>3, <1>4

(* Every step keeps the pair in hand: what it holds is what was copied or  *)
(* saved.                                                                  *)
LEMMA HandStep ==
  ASSUME TypeInv, HandInv, [Next]_vars
  PROVE  HandInv'
<1>. ToolsTypeOK
  BY DEF TypeInv
<1>0. ASSUME pc' \notin AtWork PROVE HandInv'
  BY <1>0 DEF HandInv
<1>still. ASSUME pc \in AtWork, NEW t \in Sides, Holds(t), Saves' = Saves,
                UNCHANGED <<current, copies, saved>>, file'[<<current, t>>] = file[<<current, t>>]
         PROVE  Holds(t)'
  BY <1>still DEF Holds, Exists
<1>same. ASSUME NEW f \in Files, NEW s \in Sides, Touching(f, s) PROVE HandInv'
  <2>. SUFFICES ASSUME pc' \in AtWork, NEW t \in Sides \ unseen' PROVE Holds(t)'
    BY DEF HandInv
  <2>1. /\ pc \in AtWork /\ UNCHANGED <<pc, run, current, copies, saved>>
        /\ unseen' = IF f = current THEN unseen \cup {s} ELSE unseen
    BY <1>same DEF Touching, AtWork
  <2>2. Holds(t) /\ Saves' = Saves /\ current \in Files
    BY <2>1, InHand DEF HandInv, Saves, FirstSide
  <2>3. file'[<<current, t>>] = file[<<current, t>>]
    <3>1. \A c \in Contents : Stamped(c) \in Entries \cup {Absent}
      BY StampedIs DEF AllContents
    <3>2. PICK e \in Entries \cup {Absent} : Puts(f, s, e)
      BY <1>same, <3>1 DEF Touching
    <3>3. f # current \/ t # s
      BY <2>1
    <3>. QED
      BY <2>2, <3>2, <3>3, PutChanges DEF Puts
  <2>. QED
    BY <1>still, <2>1, <2>2, <2>3
<1>1. ASSUME NEW r \in Runs, Start(r)
     PROVE  HandInv'
  BY <1>1, <1>0 DEF Start, AtWork
<1>2. ASSUME NEW f \in todo, Pick(f)
     PROVE  HandInv'
  <2>1. pc' \notin AtWork
    BY <1>2 DEF Pick, AtWork
  <2>. QED
    BY <1>0, <2>1
<1>3. CASE CopyOut
  <2>1. \A t \in Sides : copies'[t] = file[<<current, t>>].content
    BY <1>3 DEF CopyOut, CopiesOf
  <2>2. BothExist(current) /\ UNCHANGED <<file, current>> /\ pc' = "tool"
    BY <1>3 DEF CopyOut
  <2>3. Saves' = {}
    BY <2>2 DEF Saves
  <2>. QED
    BY <2>1, <2>2, <2>3 DEF HandInv, Holds, BothExist, Exists, Sides
<1>4. CASE ToolExits
  <2>1. pc' \in AtWork => /\ pc = "tool" /\ pc' = "write"
                         /\ UNCHANGED <<file, current, copies, unseen>>
    BY <1>4 DEF ToolExits, GiveUp, NextCandidate, AtWork
  <2>2. pc' \in AtWork => Saves = {} /\ Saves' = {}
    BY <2>1 DEF Saves
  <2>. QED
    BY <2>1, <2>2 DEF HandInv, Holds, Exists, AtWork
<1>5. CASE SaveSide
  <2>. SUFFICES ASSUME pc' \in AtWork, NEW t \in Sides \ unseen' PROVE Holds(t)'
    BY DEF HandInv
  <2>1. /\ UNCHANGED <<current, copies, saved, run, unseen>>
        /\ \/ pc = "write" /\ pc' = "write2"
           \/ pc = "write2" /\ pc' = "sync"
    BY <1>5 DEF SaveSide, AfterSave, NextCandidate, AtWork
  <2>2. Holds(t)
    BY <2>1 DEF HandInv, AtWork
  <2>3. /\ file'[<<current, t>>] # Absent
        /\ file'[<<current, t>>].content =
             IF t = Side THEN saved[Side] ELSE file[<<current, t>>].content
    BY <1>5, <2>2, SavedHolds
  <2>4. Side \in Sides /\ Saves' = Saves \cup {Side}
    BY <2>1 DEF Side, Saves, FirstSide, Sides
  <2>. QED
    BY <2>1, <2>2, <2>3, <2>4 DEF Holds, Exists
<1>6. CASE Synchronize
  BY <1>6, <1>0 DEF Synchronize, NextCandidate, AtWork
<1>7. CASE FailStep
  BY <1>7, <1>0 DEF FailStep, GiveUp, AtWork
<1>8. CASE DenyStep
  BY <1>8, <1>0 DEF DenyStep, GiveUp, NextCandidate, AtWork
<1>9. CASE AllPicked
  BY <1>9, <1>0 DEF AllPicked, AtWork
<1>10. CASE Commit
  BY <1>10, <1>0 DEF Commit, Quit, AtWork
<1>11. CASE Fail
  BY <1>11, <1>0 DEF Fail, Quit, AtWork
<1>12. CASE Crash
  BY <1>12, <1>0 DEF Crash, Quit, AtWork
<1>13. ASSUME NEW f \in Files, NEW s \in Sides, NEW c \in Contents, Edit(f, s, c)
      PROVE  HandInv'
  BY <1>13, <1>same DEF Edit, Touch, Touching, Puts, Stamped
<1>14. ASSUME NEW f \in Files, NEW s \in Sides, Remove(f, s)
      PROVE  HandInv'
  BY <1>14, <1>same DEF Remove, Touch, Touching, Puts
<1>15. CASE Rest
  BY <1>15 DEF Rest, vars, HandInv, Holds, Exists, Saves, FirstSide, AtWork
<1>16. CASE UNCHANGED vars
  BY <1>16 DEF vars, HandInv, Holds, Exists, Saves, FirstSide, AtWork
<1>. QED
  BY <1>1, <1>2, <1>3, <1>4, <1>5, <1>6, <1>7, <1>8, <1>9, <1>10, <1>11, <1>12,
     <1>13, <1>14, <1>15, <1>16
     DEF Next, Process, User

-----------------------------------------------------------------------------
(* What a merge has come to                                                *)

(* A pair and a record that stay as they are compare as they did.          *)
LEMMA SameVerdict ==
  ASSUME NEW g \in Files, mem'[g] = mem[g],
         \A t \in Sides : file'[<<g, t>>] = file[<<g, t>>]
  PROVE  (InSync(g)' <=> InSync(g)) /\ (Unconflicted(g)' <=> Unconflicted(g))
BY DEF InSync, Unconflicted, BothExist, Exists, Verdict, Sides

(* A pair that has been synchronized compares as not modified.             *)
LEMMA SynchronizedInSync ==
  ASSUME TypeInv, Synchronize, \A s \in Sides : Holds(s), NEW g \in Files, g = current
  PROVE  InSync(g)' /\ Unconflicted(g)'
<1>1. BothExist(g) /\ saved["target"] = saved["source"] /\ pc = "sync"
  BY SynchronizeIs DEF Synchronize, TypeInv, KnowsInv
<1>2. file[<<g, "target">>].content = file[<<g, "source">>].content
  BY <1>1 DEF Holds, Saves, Sides
<1>3. \A t \in Sides :
        file'[<<g, t>>] = [content |-> file[<<g, "source">>].content, mtime |-> clock]
  BY <1>2, SynchronizeIs DEF Sides
<1>4. mem'[g] = [mtime |-> clock, sha256 |-> file[<<g, "source">>].content]
  BY SynchronizeIs DEF TypeInv, ToolsTypeOK, Recorded
<1>. DEFINE e == [content |-> file[<<g, "source">>].content, mtime |-> clock]
            r == [mtime |-> clock, sha256 |-> file[<<g, "source">>].content]
<1>5. e \in Entries /\ r \in SyncRecords
  <2>1. file[<<g, "source">>] \in Entries /\ clock \in Nat
    BY <1>1, PairTypes DEF BothExist, Sides, TypeInv, ToolsTypeOK
  <2>. QED
    BY <2>1, EntriesAre DEF Entries, SyncRecords
<1>6. r # Absent /\ r.mtime = clock /\ r.sha256 = e.content /\ e.mtime = clock
  BY <1>5, ToolsAssumption
<1>7. CompareFiles(IF g \in Encrypted THEN "enc" ELSE "plain", e, e, r) = "NonModified"
  <2>1. clock \in Nat
    BY DEF TypeInv, ToolsTypeOK
  <2>2. CompareByContent(e, e, r) = "NonModified"
    BY <1>6 DEF CompareByContent
  <2>3. CompareByTimestamps(e, e, r) = "NonModified"
    BY <1>6, <2>1 DEF CompareByTimestamps, BothNewer
  <2>. QED
    BY <2>2, <2>3 DEF CompareFiles
<1>8. /\ file'[<<g, "target">>] = e /\ file'[<<g, "source">>] = e
      /\ mem'[g] = r /\ e # Absent
  BY <1>3, <1>4, <1>5, EntriesAre DEF Sides
<1>9. Verdict(g, mem)' = "NonModified"
  BY <1>7, <1>8 DEF Verdict
<1>. QED
  BY <1>8, <1>9 DEF InSync, Unconflicted, BothExist, Exists

(* Every step keeps what a merge has come to.                              *)
LEMMA MergeStep ==
  ASSUME TypeInv, HandInv, MergeInv, [Next]_vars
  PROVE  MergeInv'
<1>. ToolsTypeOK /\ KnowsInv
  BY DEF TypeInv
<1>0. ASSUME ~Merging' PROVE MergeInv'
  BY <1>0 DEF MergeInv
<1>same. ASSUME Merging, todo' = todo, current' = current,
              UNCHANGED <<file, disk, mem, run, merged, excused>>
       PROVE  MergeInv'
  <2>1. \A g \in Files : (InSync(g)' <=> InSync(g)) /\ (Unconflicted(g)' <=> Unconflicted(g))
    BY <1>same, SameVerdict
  <2>2. \A g \in Files : g \in todo' \/ g = current' => mem'[g] = disk'[g] /\ g \notin merged'
    BY <1>same DEF MergeInv
  <2>3. run'.files = {} => \A g \in Files \ excused' :
          g \in todo' \/ g = current' \/ Unconflicted(g)'
    BY <1>same, <2>1 DEF MergeInv
  <2>4. \A g \in merged' \ excused' : InSync(g)'
    BY <1>same, <2>1 DEF MergeInv, ToolsTypeOK
  <2>. QED
    BY <2>2, <2>3, <2>4 DEF MergeInv
<1>user. ASSUME NEW f \in Files, NEW s \in Sides, Touching(f, s) PROVE MergeInv'
  <2>. SUFFICES ASSUME Merging' PROVE MergeInv'
    BY <1>0
  <2>1. /\ Merging /\ UNCHANGED <<disk, mem, run, todo, current, merged>>
        /\ excused' = excused \cup {f}
    BY <1>user DEF Touching, Merging
  <2>2. \A g \in Files : g # f =>
          (InSync(g)' <=> InSync(g)) /\ (Unconflicted(g)' <=> Unconflicted(g))
    BY <1>user, <2>1, HandUntouched, SameVerdict
  <2>3. \A g \in Files : g \in todo' \/ g = current' => mem'[g] = disk'[g] /\ g \notin merged'
    BY <2>1 DEF MergeInv
  <2>4. run'.files = {} => \A g \in Files \ excused' :
          g \in todo' \/ g = current' \/ Unconflicted(g)'
    BY <2>1, <2>2 DEF MergeInv
  <2>5. \A g \in merged' \ excused' : InSync(g)'
    BY <2>1, <2>2 DEF MergeInv, ToolsTypeOK
  <2>. QED
    BY <2>3, <2>4, <2>5 DEF MergeInv
<1>1. ASSUME NEW r \in Runs, Start(r)
     PROVE  MergeInv'
  <2>1. /\ merged' = {} /\ excused' = {} /\ mem' = disk /\ disk' = disk /\ run' = r
        /\ r.files = {} => todo' = Files
    BY <1>1 DEF Start, KnowsInv
  <2>. QED
    BY <2>1 DEF MergeInv
<1>2. ASSUME NEW f \in todo, Pick(f)
     PROVE  MergeInv'
  <2>. SUFFICES ASSUME Merging' PROVE MergeInv'
    BY <1>0
  <2>1. /\ Merging /\ current = Absent /\ f \in Files
        /\ UNCHANGED <<file, disk, mem, run, merged>> /\ todo' = todo \ {f}
        /\ current' \in {Absent, f} /\ excused \subseteq excused'
    BY <1>2 DEF Pick, Merging, ToolsTypeOK
  <2>2. \A g \in Files : (InSync(g)' <=> InSync(g)) /\ (Unconflicted(g)' <=> Unconflicted(g))
    BY <2>1, SameVerdict
  <2>3. mem[f] = disk[f] /\ f \notin merged
    BY <2>1 DEF MergeInv
  <2>4. run.files = {} /\ f \notin excused' => f = current' \/ Unconflicted(f)
    <3>1. ASSUME run.files = {}, ~Wanted(f) PROVE Unconflicted(f)
      BY <2>1, <2>3, <3>1 DEF Wanted, Unconflicted, Merging, Verdict
    <3>2. f \in excused' \/ f = current' \/ ~Wanted(f)
      BY <1>2, <2>1 DEF Pick, Merging
    <3>. QED
      BY <3>1, <3>2
  <2>5. \A g \in Files : g \in todo' \/ g = current' => g \in todo /\ mem'[g] = disk'[g] /\ g \notin merged'
    BY <2>1, <2>3, ToolsAssumption DEF MergeInv
  <2>6. ASSUME NEW g \in Files \ excused', run'.files = {}
        PROVE  g \in todo' \/ g = current' \/ Unconflicted(g)'
    <3>1. CASE g = f
      BY <2>1, <2>2, <2>4, <2>6, <3>1
    <3>2. CASE g # f
      <4>1. g \in todo \/ Unconflicted(g)
        BY <2>1, <2>6, ToolsAssumption DEF MergeInv
      <4>. QED
        BY <2>1, <2>2, <3>2, <4>1
    <3>. QED
      BY <3>1, <3>2
  <2>7. \A g \in merged' \ excused' : InSync(g)'
    BY <2>1, <2>2 DEF MergeInv, ToolsTypeOK
  <2>. QED
    BY <2>5, <2>6, <2>7 DEF MergeInv
<1>3. CASE CopyOut
  BY <1>3, <1>same DEF CopyOut, Merging, MergeInv
<1>4. CASE ToolExits
  <2>1. Merging' => Merging /\ current' = current
    BY <1>4 DEF ToolExits, GiveUp, NextCandidate, Merging, KnowsInv
  <2>. QED
    BY <1>4, <1>0, <1>same, <2>1 DEF ToolExits
<1>5. CASE SaveSide
  <2>. SUFFICES ASSUME Merging' PROVE MergeInv'
    BY <1>0
  <2>1. /\ Merging /\ UNCHANGED <<disk, mem, run, todo, excused, merged, current>>
        /\ current \in Files
    BY <1>5, InHand DEF SaveSide, AfterSave, NextCandidate, Merging, AtWork
  <2>2. \A g \in Files, t \in Sides : g # current => file'[<<g, t>>] = file[<<g, t>>]
    <3>1. Rewritten(Side)
      BY <2>1 DEF Rewritten, Merging
    <3>2. Side \in Sides /\ saved[Side] \in AllContents
      BY <1>5, InHand DEF SaveSide, AtWork
    <3>3. Puts(current, Side, Stamped(saved[Side])) /\ Stamped(saved[Side]) \in Entries
      BY <1>5, <3>1, <3>2, SaveIs, StampedIs DEF Saving
    <3>. QED
      BY <2>1, <3>2, <3>3, PutChanges DEF Puts
  <2>3. \A g \in Files : g # current =>
          (InSync(g)' <=> InSync(g)) /\ (Unconflicted(g)' <=> Unconflicted(g))
    BY <2>1, <2>2, SameVerdict
  <2>4. \A g \in Files : g \in todo' \/ g = current' => mem'[g] = disk'[g] /\ g \notin merged'
    BY <2>1 DEF MergeInv
  <2>5. run'.files = {} => \A g \in Files \ excused' :
          g \in todo' \/ g = current' \/ Unconflicted(g)'
    BY <2>1, <2>3 DEF MergeInv
  <2>6. \A g \in merged' \ excused' : InSync(g)'
    BY <2>1, <2>3 DEF MergeInv, ToolsTypeOK
  <2>. QED
    BY <2>4, <2>5, <2>6 DEF MergeInv
<1>6. CASE Synchronize
  <2>. SUFFICES ASSUME Merging' PROVE MergeInv'
    BY <1>0
  <2>1. /\ Merging /\ UNCHANGED <<disk, run, todo, excused>> /\ merged' = merged \cup {current}
        /\ current' = Absent /\ pc = "sync"
    BY <1>6 DEF Synchronize, NextCandidate, Merging
  <2>2. /\ current \in Files /\ current \notin todo
        /\ \A g \in Files : g # current => mem'[g] = mem[g]
        /\ \A g \in Files, t \in Sides : g # current => file'[<<g, t>>] = file[<<g, t>>]
    BY <1>6, SynchronizeIs DEF KnowsInv, ToolsTypeOK
  <2>3. \A g \in Files : g # current =>
          (InSync(g)' <=> InSync(g)) /\ (Unconflicted(g)' <=> Unconflicted(g))
    BY <2>2, SameVerdict
  <2>4. \A g \in Files : g = current /\ g \notin excused => InSync(g)' /\ Unconflicted(g)'
    <3>1. current \notin excused => \A s \in Sides : Holds(s)
      BY <2>1 DEF HandInv, AtWork, KnowsInv
    <3>. QED
      BY <1>6, <3>1, SynchronizedInSync
  <2>5. \A g \in Files : g \in todo' \/ g = current' => mem'[g] = disk'[g] /\ g \notin merged'
    BY <2>1, <2>2, ToolsAssumption DEF MergeInv
  <2>6. run'.files = {} => \A g \in Files \ excused' :
          g \in todo' \/ g = current' \/ Unconflicted(g)'
    BY <2>1, <2>3, <2>4 DEF MergeInv
  <2>7. \A g \in merged' \ excused' : InSync(g)'
    BY <2>1, <2>2, <2>3, <2>4 DEF MergeInv, ToolsTypeOK
  <2>. QED
    BY <2>5, <2>6, <2>7 DEF MergeInv
<1>7. CASE FailStep
  BY <1>7, <1>0 DEF FailStep, Quit, GiveUp, Merging
<1>8. CASE DenyStep
  <2>. SUFFICES ASSUME Merging' PROVE MergeInv'
    BY <1>0
  <2>1. /\ Merging /\ UNCHANGED <<file, disk, run, todo, merged>>
        /\ excused' = excused \cup {current}
        /\ current' = Absent /\ current \notin todo
        /\ \A g \in Files : g # current => mem'[g] = mem[g]
    BY <1>8 DEF DenyStep, NextCandidate, GiveUp, Merging, KnowsInv, ToolsTypeOK
  <2>2. \A g \in Files : g # current =>
          (InSync(g)' <=> InSync(g)) /\ (Unconflicted(g)' <=> Unconflicted(g))
    BY <2>1, SameVerdict
  <2>3. \A g \in Files : g \in todo' \/ g = current' => mem'[g] = disk'[g] /\ g \notin merged'
    BY <2>1, ToolsAssumption DEF MergeInv
  <2>4. run'.files = {} => \A g \in Files \ excused' :
          g \in todo' \/ g = current' \/ Unconflicted(g)'
    BY <2>1, <2>2 DEF MergeInv
  <2>5. \A g \in merged' \ excused' : InSync(g)'
    BY <2>1, <2>2 DEF MergeInv, ToolsTypeOK
  <2>. QED
    BY <2>3, <2>4, <2>5 DEF MergeInv
<1>9. CASE AllPicked
  BY <1>9, <1>same DEF AllPicked, Merging, MergeInv
<1>10. CASE Commit
  BY <1>10, <1>0 DEF Commit, Quit, GiveUp, Merging
<1>11. CASE Fail
  BY <1>11, <1>0 DEF Fail, Quit, GiveUp, Merging
<1>12. CASE Crash
  BY <1>12, <1>0 DEF Crash, Quit, GiveUp, Merging
<1>13. ASSUME NEW f \in Files, NEW s \in Sides, NEW c \in Contents, Edit(f, s, c)
      PROVE  MergeInv'
  BY <1>13, <1>user DEF Edit, Touch, Touching, Puts, Stamped
<1>14. ASSUME NEW f \in Files, NEW s \in Sides, Remove(f, s)
      PROVE  MergeInv'
  BY <1>14, <1>user DEF Remove, Touch, Touching, Puts
<1>15. CASE Rest
  BY <1>15, <1>0 DEF Rest, vars, Merging
<1>16. CASE UNCHANGED vars
  <2>1. CASE Merging
    BY <1>16, <2>1, <1>same DEF vars
  <2>2. CASE ~Merging
    BY <1>16, <2>2, <1>0 DEF vars, Merging
  <2>. QED
    BY <2>1, <2>2
<1>. QED
  BY <1>1, <1>2, <1>3, <1>4, <1>5, <1>6, <1>7, <1>8, <1>9, <1>10, <1>11, <1>12,
     <1>13, <1>14, <1>15, <1>16
     DEF Next, Process, User

-----------------------------------------------------------------------------
(* The theorems                                                            *)

(* The types hold always.                                                  *)
LEMMA TypesHold == Spec => []TypeInv
<1>1. Init => TypeInv
  BY InitHolds DEF ToolsInv
<1>2. TypeInv /\ [Next]_vars => TypeInv'
  BY TypeStep
<1>. QED
  BY <1>1, <1>2, PTL DEF Spec

(* So does the whole invariant.                                            *)
LEMMA Invariance == Spec => []ToolsInv
<1>1. ToolsInv /\ [Next]_vars => ToolsInv'
  BY TypeStep, AgeStep, HandStep, MergeStep DEF ToolsInv
<1>. QED
  BY InitHolds, <1>1, PTL DEF Spec

(* Type correctness: the state of merge and diff -e keeps its types, a run *)
(* is known exactly while it is under way, a file is in hand exactly while *)
(* it is worked on, and scratch copies are of the file in hand.            *)
THEOREM TypeCorrect == Spec => []ToolsTypeOK
<1>1. TypeInv => ToolsTypeOK
  BY DEF TypeInv
<1>. QED
  BY TypesHold, <1>1, PTL

(* Whatever the user and other programs do at any moment: a merge of       *)
(* everything that succeeds leaves no conflict, and what it merged         *)
(* compares as not modified with the state about to be stored, but for the *)
(* pairs touched during the run or refused to it.                          *)
THEOREM MergesResolve == Spec => []MergeResolves
<1>1. ToolsInv => MergeResolves
  <2>. SUFFICES ASSUME TypeInv, MergeInv, pc = "commit", run.cmd = "merge", ~run.dryRun
                PROVE  /\ run.files = {} => \A f \in Files \ excused :
                             BothExist(f) => Verdict(f, mem) # "BothModified"
                       /\ \A f \in merged \ excused : Verdict(f, mem) = "NonModified"
    BY DEF MergeResolves, ToolsInv
  <2>1. Merging /\ todo = {} /\ current = Absent
    BY DEF Merging, TypeInv, KnowsInv, ToolsTypeOK
  <2>. QED
    BY <2>1, ToolsAssumption DEF MergeInv, Unconflicted, InSync
<1>. QED
  BY Invariance, <1>1, PTL

(* Whatever the user does at any moment, and whatever is cut short, refused*)
(* or done again: a pair that compares as not modified is equal, unless it *)
(* was recorded with a side touched after it was copied out and left alone *)
(* since.  The verdict on an encrypted pair is one of times only, so this  *)
(* is AgeInv.                                                              *)
THEOREM NotModifiedMeansEqual == Spec => []UnmodifiedIsEqual
<1>1. ToolsInv => UnmodifiedIsEqual
  <2>. SUFFICES ASSUME ToolsInv, NEW f \in Files \ overlooked, BothExist(f), Verdict(f, disk) = "NonModified"
                PROVE  Equal(f)
    BY DEF UnmodifiedIsEqual
  <2>1. CASE f \in Encrypted
    <3>1. CompareByTimestamps(file[<<f, "target">>], file[<<f, "source">>], disk[f]) = "NonModified"
      BY <2>1 DEF Verdict, CompareFiles
    <3>2. file[<<f, "target">>].mtime = file[<<f, "source">>].mtime
      BY <3>1 DEF CompareByTimestamps
    <3>. QED
      BY <3>2 DEF ToolsInv, AgeInv
  <2>2. CASE f \notin Encrypted
    <3>1. CompareByContent(file[<<f, "target">>], file[<<f, "source">>], disk[f]) = "NonModified"
      BY <2>2 DEF Verdict, CompareFiles
    <3>. QED
      BY <3>1 DEF CompareByContent, Equal
  <2>. QED
    BY <2>1, <2>2
<1>. QED
  BY Invariance, <1>1, PTL

(* Whatever the user does at any moment: the content a file loses to merge *)
(* or diff -e, by a save or by one cut short, is what the scratch copy     *)
(* given to the tool was made of, or one the user put there after that     *)
(* copy was made.                                                          *)
THEOREM OverwritesOnlyTheShown == Spec => OverwritesWhatWasShown
<1>1. ASSUME ToolsInv, [Next]_vars, ByTool, NEW f \in Files, NEW s \in Sides,
             Exists(f, s), file'[<<f, s>>].content # file[<<f, s>>].content
      PROVE  file[<<f, s>>].content = copies[s] \/ (f = current /\ s \in unseen)
  <2>. TypeInv /\ ToolsTypeOK /\ HandInv
    BY <1>1 DEF ToolsInv, TypeInv
  <2>1. CASE Still
    BY <1>1, <2>1 DEF Still
  <2>2. ASSUME NEW c \in AllContents, Saving(c)
        PROVE  file[<<f, s>>].content = copies[s] \/ (f = current /\ s \in unseen)
    <3>1. pc \in {"write", "write2"} /\ current \in Files /\ Side \in Sides
      BY <2>2, InHand DEF Saving, AtWork
    <3>2. Stamped(c) \in Entries /\ Puts(current, Side, Stamped(c))
      BY <2>2, StampedIs DEF Saving
    <3>3. f = current /\ s = Side
      BY <1>1, <3>1, <3>2, PutChanges DEF Puts
    <3>4. s \notin unseen => Holds(s)
      BY <3>1 DEF HandInv, AtWork
    <3>5. Side \notin Saves
      BY <3>1 DEF Side, Saves, FirstSide
    <3>. QED
      BY <3>3, <3>4, <3>5 DEF Holds
  <2>3. CASE Synchronize /\ clock' = clock
    <3>1. f # current => file'[<<f, s>>] = file[<<f, s>>]
      BY <2>3, SynchronizeIs
    <3>2. f = current => file'[<<f, s>>] = [content |-> file[<<f, s>>].content, mtime |-> clock]
      BY <2>3, SynchronizeIs
    <3>3. f = current => file'[<<f, s>>].content = file[<<f, s>>].content
      BY <3>2
    <3>. QED
      BY <1>1, <3>1, <3>3
  <2>4. ASSUME NEW g \in Files, NEW t \in Sides, Touching(g, t) PROVE FALSE
    BY <1>1, <2>4 DEF Touching, ByTool
  <2>. QED
    BY <1>1, <2>1, <2>2, <2>3, <2>4, FileSteps
<1>2. ToolsInv /\ [Next]_vars =>
        [ByTool => \A f \in Files, s \in Sides :
           Exists(f, s) /\ file'[<<f, s>>].content # file[<<f, s>>].content
             => \/ file[<<f, s>>].content = copies[s]
                \/ f = current /\ s \in unseen]_vars
  BY <1>1
<1>. QED
  BY Invariance, <1>2, PTL DEF Spec, OverwritesWhatWasShown
=============================================================================
