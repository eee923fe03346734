----------------------------- MODULE EditTools -----------------------------
(***************************************************************************)
(* The commands that hand copies of both sides to an interactive program:  *)
(* `merge` (commands/merge.rs, run_merge) and `diff --editable`            *)
(* (commands/diff.rs).  The program runs for minutes while the user and    *)
(* his other programs may go on editing the files themselves.              *)
(*                                                                         *)
(* Every file has one source, plain or encrypted; contents of encrypted    *)
(* sources are their plaintexts.                                           *)
(***************************************************************************)
EXTENDS Compare, FiniteSets

CONSTANTS
  Files,       \* managed files, equal and recorded to begin with
  Encrypted,   \* those with an encrypted source
  Contents,    \* what the user may write into a file
  Torn,        \* the content of a file whose copy was cut short
  Runs,        \* the invocations: records of RunType
  EditPhases,  \* values of pc at which the user may edit
  Faults,      \* subset of {"denied", "error", "crash"}
  MaxClock     \* bound: no edit and no run starts once it is reached

Sides == {"target", "source"}
RunType == [cmd : {"merge", "edit"}, dryRun : BOOLEAN, files : SUBSET Files]
Phases == {"idle", "pick", "copy", "tool", "write", "write2", "sync",
           "commit", "failed"}

AllContents == Contents \cup {Torn}
Entries == [content : AllContents, mtime : Nat]
SyncRecords == [mtime : Nat, sha256 : AllContents]

ASSUME ToolsAssumption ==
  /\ Encrypted \subseteq Files
  /\ Runs \subseteq RunType
  /\ \A r \in Runs : r.cmd = "edit" => r.files # {}
  /\ EditPhases \subseteq Phases
  /\ MaxClock \in Nat
  /\ Torn \notin Contents
  /\ Absent \notin Files \cup Runs \cup Entries \cup SyncRecords

VARIABLES
  file,     \* <<f, side>> -> entry or Absent
  blob,     \* encrypted f -> the file whose name, mode and directories its
            \* encrypted source records for whoever decrypts it
  disk,     \* the syncs table of state.toml: f -> record
  mem,      \* the StateObject of the run
  clock,
  run,
  pc,
  todo,     \* candidates not yet looked at
  current,  \* the file in hand, or Absent
  copies,   \* the scratch copies of its sides, as first made
  saved,    \* what the tool left there
  excused,  \* history: files the user touched, or that were left alone for
            \* lack of permission, while the run was under way
  merged,   \* history: the files whose pair the run made equal
  unseen,   \* history: sides of the pair in hand that the user touched after
            \* they were copied out
  overlooked \* history: pairs recorded as synchronized with such a side,
            \* and not touched since

vars == <<file, blob, disk, mem, clock, run, pc, todo, current, copies,
          saved, excused, merged, unseen, overlooked>>

NoCopies == [s \in Sides |-> Absent]

ToolsTypeOK ==
  /\ file \in [Files \X Sides -> Entries \cup {Absent}]
  /\ blob \in [Encrypted -> {"target", "result"}]
  /\ disk \in [Files -> SyncRecords]
  /\ mem \in [Files -> SyncRecords \cup {Absent}]
  /\ clock \in Nat /\ run \in Runs \cup {Absent} /\ pc \in Phases
  /\ todo \subseteq Files /\ current \in Files \cup {Absent}
  /\ copies \in [Sides -> AllContents \cup {Absent}]
  /\ saved \in [Sides -> AllContents \cup {Absent}]
  /\ excused \subseteq Files /\ merged \subseteq Files
  /\ unseen \subseteq Sides /\ overlooked \subseteq Files
  /\ pc = "idle" <=> run = Absent
  /\ current # Absent <=> pc \in {"copy", "tool", "write", "write2", "sync"}
  /\ copies # NoCopies \/ unseen # {} => current # Absent

Exists(f, s) == file[<<f, s>>] # Absent
BothExist(f) == Exists(f, "target") /\ Exists(f, "source")
Equal(f) == file[<<f, "target">>].content = file[<<f, "source">>].content
Verdict(f, recs) ==
  CompareFiles(IF f \in Encrypted THEN "enc" ELSE "plain",
               file[<<f, "target">>], file[<<f, "source">>], recs[f])

-----------------------------------------------------------------------------
Touch(f, s) ==
  /\ pc \in EditPhases
  /\ excused' = IF pc = "idle" THEN {} ELSE excused \cup {f}
  /\ unseen' = IF f = current /\ pc # "copy" THEN unseen \cup {s} ELSE unseen
  /\ overlooked' = overlooked \ {f}
  /\ UNCHANGED <<disk, mem, run, pc, todo, current, copies, saved, merged>>

(* an encrypted source arrives from another machine, written there by add *)
Described(f, s, by) ==
  blob' = IF s = "source" /\ f \in Encrypted THEN [blob EXCEPT ![f] = by] ELSE blob

Edit(f, s, c) ==
  /\ clock < MaxClock
  /\ Touch(f, s)
  /\ Described(f, s, "target")
  /\ clock' = clock + 1
  /\ file' = [file EXCEPT ![<<f, s>>] = [content |-> c, mtime |-> clock + 1]]

Remove(f, s) == /\ Exists(f, s)
                /\ Touch(f, s)
                /\ file' = [file EXCEPT ![<<f, s>>] = Absent]
                /\ UNCHANGED <<blob, clock>>

Rest == pc = "idle" /\ UNCHANGED vars

-----------------------------------------------------------------------------
(* The paths given, or for merge every record *)
Start(r) ==
  /\ pc = "idle" /\ clock < MaxClock
  /\ run' = r
  /\ pc' = "pick"
  /\ mem' = disk
  /\ todo' = IF r.files = {} THEN Files ELSE r.files
  /\ UNCHANGED <<file, blob, disk, clock, current, copies, saved, excused, merged,
                 unseen, overlooked>>

(* merge: conflicts only, unless the path is named; a verdict is taken with*)
(* the record as it was read.  diff -e: any pair of two existing files.    *)
Wanted(f) ==
  /\ BothExist(f)
  /\ run.cmd = "merge" /\ run.files = {} => Verdict(f, disk) = "BothModified"

(* diff -e of an incomplete pair, merge of timestamps that make no sense *)
Refused(f) == IF run.cmd = "edit" THEN ~BothExist(f)
              ELSE BothExist(f) /\ Verdict(f, disk) = "Inconsistent"

(* The loop takes up the next candidate *)
Pick(f) ==
  /\ pc = "pick" /\ f \in todo
  /\ todo' = todo \ {f}
  /\ \/ /\ Refused(f)
        /\ pc' = "failed"
        /\ UNCHANGED <<current, excused>>
     \/ /\ ~Refused(f) /\ Wanted(f) /\ ~run.dryRun
        /\ pc' = "copy"
        /\ current' = f
        /\ UNCHANGED excused
     \/ /\ ~Refused(f) /\ (Wanted(f) => run.dryRun)
        /\ UNCHANGED <<pc, current, excused>>
     \/ /\ "denied" \in Faults       \* to read it: merge leaves it alone
        /\ pc' = IF run.cmd = "merge" THEN "pick" ELSE "failed"
        /\ excused' = excused \cup {f}
        /\ UNCHANGED current
  /\ UNCHANGED <<file, blob, disk, mem, clock, run, copies, saved, merged, unseen,
                 overlooked>>

(* Both sides are copied into the scratch directory, a stale one being     *)
(* removed first; an encrypted source is decrypted there.                  *)
CopiesOfTarget(f) == [s \in Sides |-> file[<<f, "target">>].content] \* mutant
CopiesOf(f) == [s \in Sides |-> file[<<f, s>>].content]
CopyOut ==
  /\ pc = "copy" /\ BothExist(current)
  /\ copies' = CopiesOf(current)
  /\ pc' = "tool"
  /\ UNCHANGED <<file, blob, disk, mem, clock, run, todo, current, saved, excused,
                 merged, unseen, overlooked>>

(* The next candidate; the scratch copies are dropped or overwritten *)
NextKeepingCopies == /\ pc' = "pick"                              \* mutant
                     /\ current' = Absent
                     /\ saved' = NoCopies
                     /\ unseen' = {}
                     /\ UNCHANGED copies
NextCandidate == /\ pc' = "pick"
                 /\ current' = Absent
                 /\ copies' = NoCopies
                 /\ saved' = NoCopies
                 /\ unseen' = {}
GiveUp == /\ pc' = "failed"
          /\ current' = Absent
          /\ copies' = NoCopies
          /\ saved' = NoCopies
          /\ unseen' = {}

(* The tool exits.  merge: with a result for both sides, or with none.     *)
(* diff -e: with each copy as it was or rewritten, or rejecting the edit.  *)
ToolExits ==
  /\ pc = "tool"
  /\ \/ GiveUp
     \/ \E c \in [Sides -> Contents \cup {copies[s] : s \in Sides}] :
          /\ run.cmd = "merge" => c["target"] = c["source"]
          /\ IF run.cmd = "edit" /\ c = copies
             THEN NextCandidate
             ELSE saved' = c /\ pc' = "write" /\ UNCHANGED <<current, copies, unseen>>
  /\ UNCHANGED <<file, blob, disk, mem, clock, run, todo, excused, merged, overlooked>>

(* merge saves the source first, diff -e the target, and that only what    *)
(* the tool changed.                                                       *)
Side == IF (pc = "write") = (run.cmd = "merge") THEN "source" ELSE "target"
Rewritten(s) == run.cmd = "merge" \/ saved[s] # copies[s]
Encrypts(s) == s = "source" /\ current \in Encrypted
InPlace == <<current, Side>>

(* copy_keeping_permissions needs the file to be there, write_encrypted_   *)
(* source the target whose name and modes it stores.                       *)
Savable(s) == run.cmd = "merge" \/ Exists(current, IF Encrypts(s) THEN "target" ELSE s)

AfterSaveAlways == IF pc = "write" THEN "write2" ELSE "sync"      \* mutant
AfterSave == IF pc = "write" THEN "write2"
             ELSE IF run.cmd = "merge" \/ saved["target"] = saved["source"]
             THEN "sync" ELSE "pick"

(* write_encrypted_file is given the tool's result to describe by merge, *)
(* write_encrypted_source the target by diff -e.                           *)
DescribedBy == IF run.cmd = "merge" THEN "result" ELSE "target"

SaveSide ==
  /\ pc \in {"write", "write2"}
  /\ IF Rewritten(Side)
     THEN /\ Savable(Side)
          /\ clock' = clock + 1
          /\ file' = [file EXCEPT ![InPlace] = [content |-> saved[Side],
                                               mtime |-> clock + 1]]
          /\ Described(current, Side, DescribedBy)
     ELSE UNCHANGED <<file, blob, clock>>
  /\ IF AfterSave = "pick"
     THEN NextCandidate
     ELSE pc' = AfterSave /\ UNCHANGED <<current, copies, saved, unseen>>
  /\ UNCHANGED <<disk, mem, run, todo, excused, merged, overlooked>>

(* update_sync_state *)
RecordedCopy(f) == [mtime |-> clock, sha256 |-> copies["source"]]  \* mutant
Recorded(f) == [mtime |-> clock, sha256 |-> file[<<f, "source">>].content]
Synchronize ==
  /\ pc = "sync" /\ BothExist(current)
  /\ mem' = [mem EXCEPT ![current] = Recorded(current)]
  /\ file' = [file EXCEPT ![<<current, "target">>].mtime = mem'[current].mtime,
                          ![<<current, "source">>].mtime = mem'[current].mtime]
  /\ merged' = merged \cup {current}
  /\ overlooked' = IF unseen = {} THEN overlooked \ {current}
                                 ELSE overlooked \cup {current}
  /\ NextCandidate
  /\ UNCHANGED <<blob, disk, clock, run, todo, excused>>

(* What an interrupted step leaves: fs::copy writes in place, encrypted    *)
(* sources are renamed into place.                                         *)
CutShort ==
  {file} \cup
  IF pc \in {"write", "write2"} /\ Rewritten(Side) /\ ~Encrypts(Side)
  THEN {[file EXCEPT ![InPlace] = [content |-> Torn, mtime |-> clock + 1]]}
  ELSE {}

Broken ==
  \/ "error" \in Faults
  \/ pc \in {"copy", "sync"} /\ ~BothExist(current)
  \/ pc \in {"write", "write2"} /\ Rewritten(Side) /\ ~Savable(Side)

(* A step fails, and the command with it; the record may be made already   *)
(* but is not stored.                                                      *)
FailStep ==
  /\ pc \in {"copy", "write", "write2", "sync"} /\ Broken
  /\ file' \in CutShort
  /\ clock' = clock + 1
  /\ GiveUp
  /\ UNCHANGED <<blob, disk, mem, run, todo, excused, merged, overlooked>>

(* Permission denied: merge warns and goes on with the next candidate, its *)
(* record kept if only the mtimes could not be set; diff -e fails.         *)
DenyStep ==
  /\ "denied" \in Faults /\ pc \in {"copy", "write", "write2", "sync"}
  /\ IF pc = "sync" /\ Exists(current, "source")
     THEN mem' = [mem EXCEPT ![current] = Recorded(current)]
     ELSE UNCHANGED mem
  /\ IF run.cmd = "merge" THEN NextCandidate ELSE GiveUp
  /\ excused' = excused \cup {current}
  /\ UNCHANGED <<file, blob, disk, clock, run, todo, merged, overlooked>>

AllPicked ==
  /\ pc = "pick" /\ todo = {}
  /\ pc' = "commit"
  /\ UNCHANGED <<file, blob, disk, mem, clock, run, todo, current, copies, saved,
                 excused, merged, unseen, overlooked>>

Quit == /\ pc' = "idle" /\ run' = Absent /\ mem' = [f \in Files |-> Absent]
        /\ todo' = {} /\ current' = Absent
        /\ copies' = NoCopies /\ saved' = NoCopies
        /\ excused' = {} /\ merged' = {}
        /\ unseen' = {} /\ UNCHANGED overlooked

(* with_state *)
Commit == pc = "commit" /\ disk' = mem /\ Quit /\ UNCHANGED <<file, blob, clock>>
Fail == pc = "failed" /\ Quit /\ UNCHANGED <<file, blob, disk, clock>>

Crash == /\ "crash" \in Faults /\ pc # "idle"
         /\ file' \in CutShort
         /\ clock' = clock + 1
         /\ Quit
         /\ UNCHANGED <<blob, disk>>

-----------------------------------------------------------------------------
Init ==
  /\ \E c \in [Files -> Contents] :
       /\ file = [p \in Files \X Sides |-> [content |-> c[p[1]], mtime |-> 0]]
       /\ disk = [f \in Files |-> [mtime |-> 0, sha256 |-> c[f]]]
  /\ blob = [f \in Encrypted |-> "target"]
  /\ mem = [f \in Files |-> Absent]
  /\ clock = 0 /\ run = Absent /\ pc = "idle" /\ todo = {} /\ current = Absent
  /\ copies = NoCopies /\ saved = NoCopies /\ excused = {} /\ merged = {}
  /\ unseen = {} /\ overlooked = {}

User == \E f \in Files, s \in Sides :
          Remove(f, s) \/ \E c \in Contents : Edit(f, s, c)

Process == \/ \E f \in todo : Pick(f)
           \/ CopyOut \/ ToolExits \/ SaveSide \/ Synchronize
           \/ FailStep \/ DenyStep \/ AllPicked \/ Commit \/ Fail

Next == (\E r \in Runs : Start(r)) \/ Process \/ Crash \/ User \/ Rest

Spec == Init /\ [][Next]_vars

-----------------------------------------------------------------------------
ByTool == pc # "idle" /\ <<pc, todo>>' # <<pc, todo>>

(* The content a file loses to merge or diff -e, by a save or by one cut    *)
(* short, is the one its scratch copy was made of and the tool was shown,  *)
(* unless the user changed that very side after it was copied out.         *)
OverwritesWhatWasShown ==
  [][ByTool => \A f \in Files, s \in Sides :
       Exists(f, s) /\ file'[<<f, s>>].content # file[<<f, s>>].content
         => \/ file[<<f, s>>].content = copies[s]
            \/ f = current /\ s \in unseen]_vars

(* Without that exception: nothing the user never saw in the tool is       *)
(* overwritten.  The pair is not looked at again before it is written back *)
(* (diff.rs:832, mod.rs:636).  Does not hold (section 5 of the README      *)
(* here).                                                                  *)
NothingUnseenIsOverwritten ==
  [][ByTool => \A f \in Files, s \in Sides :
       Exists(f, s) /\ file'[<<f, s>>].content # file[<<f, s>>].content
         => file[<<f, s>>].content = copies[s]]_vars

(* A pair that compares as not modified is equal, whatever was cut short,  *)
(* refused or done again before, and whenever the user edited it, unless   *)
(* it was recorded as synchronized with a side touched after it was copied *)
(* out, and left alone since.                                              *)
UnmodifiedIsEqual ==
  pc = "idle" => \A f \in Files \ overlooked :
    BothExist(f) /\ Verdict(f, disk) = "NonModified" => Equal(f)

(* Without that exception: synchronization is "only honest when the saved  *)
(* files hold equal content" (diff.rs:826); what is compared is the        *)
(* scratch copies.  Does not hold (section 5 of the README here).          *)
SynchronizationIsHonest ==
  pc = "idle" => \A f \in Files :
    BothExist(f) /\ Verdict(f, disk) = "NonModified" => Equal(f)

(* A merge of everything that succeeds leaves no conflict, and every pair  *)
(* it merged compares as not modified with the state about to be stored    *)
(* (unless the user went on editing that pair, or permission was denied).  *)
MergeResolves ==
  pc = "commit" /\ run.cmd = "merge" /\ ~run.dryRun
  => /\ run.files = {} => \A f \in Files \ excused :
          BothExist(f) => Verdict(f, mem) # "BothModified"
     /\ \A f \in merged \ excused : Verdict(f, mem) = "NonModified"

(* An encrypted source records the name, mode and directories of its target*)
(* (write_encrypted_file; README 4).  Does not hold (section 5 of the      *)
(* README here).                                                           *)
BlobDescribesTarget == \A f \in Encrypted : blob[f] = "target"
=============================================================================
