--------------------------- MODULE DfmProperties ---------------------------
(***************************************************************************)
(* What the runs of Dfm must never do, and what they must achieve.         *)
(***************************************************************************)
EXTENDS Dfm

(* A step of the process: it moves on, or finishes a task; the user's      *)
(* steps leave both alone.                                                 *)
ByDfm == <<pc, tasks>>' # <<pc, tasks>>

(* The content of p is gone from p after the step *)
Overwritten(p) == /\ file[p] # Absent
                  /\ file'[p] = Absent \/ file'[p].content # file[p].content

(* ... but another file of the same name holds it *)
HeldElsewhere(p) == \E q \in Paths : /\ q[1] = p[1] /\ q # p
                                     /\ file'[q] # Absent
                                     /\ file'[q].content = file[p].content

(* The user touched a file of this name while the run was under way *)
Raced(f) == \E q \in raced : q[1] = f

(* ... or it is what a pair of p last had in common *)
Unedited(p) == IF p \in Slots THEN file[p].content = synced[p]
               ELSE \E s \in Slots : TargetOf(s) = p /\ file[p].content = synced[s]

(* No edit is lost: unless forced, add and pull - and sync in any case -   *)
(* overwrite or delete a file only if its content is kept by another file  *)
(* of the same name, or has not changed since dfm last made a pair of it   *)
(* equal.  Excused are a file cut short by an earlier copy, and a name     *)
(* edited while this very run was under way (checked before, copied after).*)
(* It is the promise of the conflict table (README section 5), for every   *)
(* history of edits, runs, refusals and failures.                          *)
NoLostEdit ==
  [][\A p \in Paths :
       /\ ByDfm /\ Overwritten(p)
       /\ run.cmd = "sync" \/ (run.cmd \in {"add", "pull"} /\ ~run.force)
       /\ ~Raced(p[1]) /\ file[p].content # Torn
       => HeldElsewhere(p) \/ Unedited(p)]_vars

(* A pair no command will touch is equal: when both files exist and the    *)
(* comparison finds neither modified, they have the same content.          *)
UnmodifiedIsEqual ==
  pc = "idle" => \A s \in Slots :
    /\ disk[s] # Absent /\ Exists(s) /\ Exists(TargetOf(s))
    /\ Verdict(s, disk) = "NonModified"
    => Same(s, TargetOf(s))

(* The digest in a stored record is that of the content the pair last had  *)
(* in common (SyncTime: "a SHA-256 hash of the synced content").           *)
RecordIsSynced ==
  pc = "idle" => \A s \in Slots :
    disk[s] # Absent => disk[s].sha256 = synced[s]

(* A record that a run stores has the digest of the content the pair then  *)
(* last had in common, whatever fails and whatever else the run does: a    *)
(* source edited while it is checked, or while it is being copied, is not  *)
(* recorded as synced.  (update_sync_state digests the source after the    *)
(* copy, mod.rs:160: an edit between the two breaks it, see section 5 of   *)
(* the README here.)                                                       *)
StoresSynced(s) == disk'[s] \in {disk[s], Absent} \/ disk'[s].sha256 = synced[s]
StoresTheSynced == [][\A s \in Slots : StoresSynced(s)]_vars

(* A command that succeeds leaves nothing to do for the pairs it copied:   *)
(* with the state it is about to store, each compares as not modified      *)
(* (unless the user interfered or two sources were pulled to one target).  *)
RunConverges ==
  pc = "commit" /\ raced = {} => \A t \in done :
    /\ t.op \in {"push", "pull", "record"}
    /\ \A u \in done \ {t} : u.slot[1] # t.slot[1]
    => Verdict(t.slot, mem) = "NonModified"

(* sync without PATH and --force leaves every managed pair unmodified      *)
SyncConverges ==
  pc = "commit" /\ raced = {} /\ run.cmd = "sync" /\ run.paths = {}
    /\ ~run.force /\ ~run.dryRun
  => \A f \in Files :
       LET s == Resolved(f) IN
       Exists(<<f, "target">>) /\ Exists(s) /\ mem[s] # Absent
         => Verdict(s, mem) = "NonModified"

(* sync without --force modifies no file while any pair it walked over is  *)
(* in conflict ("non-zero when conflicts exist (nothing modified)"), and   *)
(* with --force it never touches a conflict: a pair in conflict stays in   *)
(* conflict through the whole execution.                                   *)
SyncConflict(f) ==
  LET s == Resolved(f) IN
  /\ Exists(<<f, "target">>) /\ Exists(s)
  /\ Verdict(s, disk) = "BothModified"
SyncRespectsConflicts ==
  [][/\ ByDfm /\ run.cmd = "sync" /\ raced = {} /\ file' # file
     /\ task = NoTask /\ done = {}
     => IF run.force
        THEN \A f \in Files : SyncConflict(f) =>
               \A p \in Paths : p[1] = f => file'[p] = file[p]
        ELSE \A f \in Files : run.paths = {} \/ <<f, "target">> \in run.paths
               => ~SyncConflict(f)]_vars

(* A dry run, and a run that met a conflict without --force, changes       *)
(* neither a file nor the stored state ("all-or-nothing", add and sync).   *)
RefusalWritesNothing ==
  [][ByDfm /\ (run.dryRun \/ (blocked /\ ~run.force))
     => UNCHANGED <<file, disk>>]_vars

(* A file cut short by a crash is never taken for an edit and copied on.   *)
(* Does not hold (section 5 of the README here), and no run checks it.     *)
TornNeverSpreads == \A s \in Slots : synced[s] # Torn

(* forget deletes a source that was modified since it was last synced only *)
(* with --force (README 2.6: "source modified | require --force").  Does   *)
(* not hold when it is named by its own path (section 5 of the README      *)
(* here).                                                                  *)
ForgetNeedsForce ==
  [][/\ ByDfm /\ run.cmd = "forget" /\ ~run.force
     => \A s \in Slots \ raced :
          Overwritten(s) /\ disk[s] # Absent
            => file[s].content = disk[s].sha256]_vars

(* Every run ends: it is neither stuck nor goes round for ever *)
RunEnds == (pc # "idle") ~> (pc = "idle")

(* The core implements the abstract synchroniser.  From the moment a task  *)
(* starts to write its destination, that counts as the content it copies;  *)
(* forget, and add and pull with --force, may discard what they replace.   *)
Content(p) ==
  IF pc = "copy" /\ p = To(task) /\ Exists(From(task)) THEN file[From(task)].content
  ELSE IF Exists(p) THEN file[p].content ELSE Absent
Agreed(s) ==
  IF pc = "copy" /\ s = task.slot /\ Exists(From(task)) THEN file[From(task)].content
  ELSE synced[s]
Mode ==
  IF pc = "idle" THEN "idle"
  ELSE IF run.cmd = "forget" \/ (run.force /\ run.cmd # "sync") THEN "free"
  ELSE "careful"

Abstract == INSTANCE Replicas WITH
  Names <- Files, Sides <- {"plain", "enc"},
  copy <- [p \in Paths |-> Content(p)],
  agreed <- [s \in Slots |-> Agreed(s)],
  mode <- Mode

(* Refinement: whatever the history of edits and runs, each step of a run  *)
(* is a transfer between the two files of one pair, an agreement of equal  *)
(* files or the removal of a source; content is never made up, no target   *)
(* is ever removed, and nothing the user wrote is lost unless forced.      *)
ImplementsReplicas == Abstract!Spec
=============================================================================
