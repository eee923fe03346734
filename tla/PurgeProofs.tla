---------------------------- MODULE PurgeProofs ----------------------------
(***************************************************************************)
(* Theorems about purge, for every set of names, invocations and faults.   *)
(***************************************************************************)
EXTENDS Purge, TLAPS

(* What the check has found safe stays so until the source directory goes: *)
(* the target is a copy, or a symlink that is still to be replaced.        *)
Deleting == ~run.force /\ ~run.keepSource /\ ~run.dryRun
Secured(n) ==
  \/ HeldByTarget(n)
  \/ target[n] = Link /\ (pc = "config" \/ n \in todo)
  \/ pc = "copy" /\ n = current
SecuredInv ==
  /\ pc \in {"config", "links", "copy", "source"} => checked \subseteq Recorded
  /\ pc \in {"config", "links", "copy", "source"} /\ Deleting /\ named /\ ~failed /\ Resolved =>
       \A n \in checked : source[n] # Absent => Secured(n)

(* Records are as old as the installation; a file as old as its record has *)
(* the recorded content.                                                   *)
AgeInv ==
  /\ pc # "idle" => clock > 0
  /\ \A n \in Recorded :
       /\ recs[n].mtime = 0
       /\ source[n] # Absent /\ source[n].mtime = 0 => source[n].content = recs[n].sha256
       /\ Regular(target[n]) /\ target[n].mtime = 0 => target[n].content = recs[n].sha256

(* Records are in the state directory; links are only replaced by a run    *)
(* that deletes, which has been to the source directory before it goes for *)
(* the state: a source directory without a state directory was stranded.   *)
OrderInv ==
  /\ "state" \notin dirs => Recorded = {}
  /\ pc \notin {"links", "copy"} => todo = {}
  /\ pc # "idle" /\ run.keepSource => todo = {}
  /\ pc = "copy" => ~run.keepSource /\ ~run.dryRun
  /\ pc = "state" /\ ~run.keepSource /\ ~run.dryRun /\ Resolved => failed
  /\ pc \in {"links", "copy", "source", "state"} /\ ~run.keepConfig /\ ~run.dryRun /\ ~failed =>
       "config" \notin dirs
  /\ "source" \in dirs /\ "state" \notin dirs => stranded

PurgeInv == PurgeTypeOK /\ SecuredInv /\ AgeInv /\ OrderInv
-----------------------------------------------------------------------------
(* Facts every step's proof needs                                          *)

(* An entry is none of the other things a target may be.                   *)
LEMMA EntriesAreRegular ==
  \A e \in Entries : e \notin {Absent, Link, Outside} /\ Regular(e)
BY PurgeAssumption DEF Regular

(* A run under way is one of RunType.                                      *)
LEMMA RunUnderWay ==
  ASSUME PurgeTypeOK, pc # "idle"
  PROVE  run \in Runs /\ run \in RunType
BY PurgeAssumption DEF PurgeTypeOK

(* A removal takes at most the one directory away.                         *)
LEMMA RemovesOne ==
  ASSUME NEW d \in Dirs, PurgeTypeOK, Removes(d)
  PROVE  dirs' \in {dirs, dirs \ {d}} /\ failed' \in BOOLEAN
BY DEF Removes, PurgeTypeOK

(* A pair that the check has found neither un-pulled nor un-pushed has the *)
(* same content on both sides: plain by its digests, encrypted because     *)
(* both files are as old as the record.                                    *)
LEMMA InSyncIsEqual ==
  ASSUME PurgeTypeOK, AgeInv, NEW n \in Comparable, named, ~Unsynced(n)
  PROVE  HeldByTarget(n)
<1>1. n \in Recorded /\ n \in Names /\ Regular(target[n]) /\ source[n] # Absent
  BY DEF Comparable, SeenTarget, Recorded
<1>2. target[n] \in Entries /\ source[n] \in Entries /\ recs[n] \in SyncRecords
  BY <1>1 DEF PurgeTypeOK, Regular, Recorded
<1>3. recs[n] # Absent
  BY <1>1 DEF Recorded
<1>4. CASE n \in Encrypted
  <2>1. recs[n].mtime = 0 /\ target[n].mtime \in Nat /\ source[n].mtime \in Nat
    BY <1>1, <1>2 DEF AgeInv, Entries
  <2>2. target[n].mtime = 0 /\ source[n].mtime = 0
    BY <2>1, <1>3, <1>4 DEF Unsynced, Compared, CompareFiles, CompareByTimestamps, BothNewer
  <2>. QED
    BY <1>1, <2>2 DEF AgeInv, HeldByTarget
<1>5. CASE n \notin Encrypted
  BY <1>1, <1>3, <1>5 DEF Unsynced, Compared, CompareFiles, CompareByContent, HeldByTarget
<1>. QED
  BY <1>4, <1>5

-----------------------------------------------------------------------------
(* The types                                                               *)

(* The installation starts well typed, in force and with nothing to do.    *)
LEMMA InitHolds == Init => PurgeInv
<1>. SUFFICES ASSUME Init PROVE PurgeInv
  OBVIOUS
<1>1. PICK kind \in [Names -> Situations], c \in [Names -> Contents] :
       /\ target = [n \in Names |->
                      InitTarget(kind[n], [content |-> c[n], mtime |-> 0])]
       /\ source = [n \in Names |-> IF kind[n] = "unmanaged" THEN Absent
                                    ELSE [content |-> c[n], mtime |-> 0]]
       /\ recs = [n \in Names |-> IF kind[n] \in {"added", "linked"}
                                  THEN [mtime |-> 0, sha256 |-> c[n]]
                                  ELSE Absent]
  BY DEF Init
<1>2. \A n \in Names :
        /\ [content |-> c[n], mtime |-> 0] \in Entries
        /\ [mtime |-> 0, sha256 |-> c[n]] \in SyncRecords
        /\ target[n] \in {[content |-> c[n], mtime |-> 0], Link, Absent}
        /\ source[n] \in {[content |-> c[n], mtime |-> 0], Absent}
        /\ recs[n] \in {[mtime |-> 0, sha256 |-> c[n]], Absent}
  BY <1>1 DEF Entries, SyncRecords, InitTarget
<1>3. dirs = Dirs /\ clock = 0 /\ run = Absent /\ pc = "idle" /\ todo = {}
      /\ current = Absent /\ named = TRUE /\ failed = FALSE /\ checked = {}
      /\ stranded = FALSE
  BY DEF Init
<1>4. PurgeTypeOK
  BY <1>1, <1>2, <1>3 DEF PurgeTypeOK, Steps
<1>5. AgeInv
  BY <1>2, <1>3 DEF AgeInv, Regular, Recorded, Entries, SyncRecords
<1>6. SecuredInv /\ OrderInv
  BY <1>3 DEF SecuredInv, OrderInv, Dirs
<1>. QED
  BY <1>4, <1>5, <1>6 DEF PurgeInv

(* Every step keeps the types.                                             *)
LEMMA TypeStep ==
  ASSUME PurgeInv, [Next]_vars
  PROVE  PurgeTypeOK'
<1>. PurgeTypeOK
  BY DEF PurgeInv
<1>. USE PurgeAssumption
<1>1. CASE Check
  <2>1. checked' \subseteq Names
    BY <1>1 DEF Check, Recorded
  <2>2. CASE Finish
    BY <1>1, <2>1, <2>2 DEF Check, Finish, PurgeTypeOK, Steps
  <2>3. CASE pc' = "config" /\ UNCHANGED <<run, todo, current>>
    BY <1>1, <2>1, <2>3 DEF Check, PurgeTypeOK, Steps
  <2>. QED
    BY <1>1, <2>2, <2>3 DEF Check
<1>2. CASE RemoveConfig
  <2>1. dirs' \subseteq Dirs /\ failed' \in BOOLEAN
    BY <1>2, RemovesOne DEF RemoveConfig, PurgeTypeOK, Dirs
  <2>. QED
    BY <1>2, <2>1 DEF RemoveConfig, LinksToReplace, Recorded, PurgeTypeOK, Steps
<1>3. CASE CopyPointee
  <2>1. current \in Names
    BY <1>3 DEF CopyPointee, PurgeTypeOK
  <2>2. source[current] # Absent =>
          [content |-> source[current].content, mtime |-> clock] \in Entries
    BY <2>1 DEF PurgeTypeOK, Entries
  <2>3. target' \in [Names -> Entries \cup {Link, Outside, Absent}]
    <3>1. CASE UNCHANGED target
      BY <3>1 DEF PurgeTypeOK
    <3>2. CASE source[current] # Absent /\ target' = [target EXCEPT ![current] =
                 [content |-> source[current].content, mtime |-> clock]]
      BY <3>2, <2>1, <2>2 DEF PurgeTypeOK
    <3>. QED
      BY <1>3, <3>1, <3>2 DEF CopyPointee
  <2>4. failed' \in BOOLEAN
    BY <1>3 DEF CopyPointee, PurgeTypeOK
  <2>. QED
    BY <1>3, <2>3, <2>4 DEF CopyPointee, PurgeTypeOK, Steps
<1>4. CASE LinksDone
  BY <1>4 DEF LinksDone, PurgeTypeOK, Finish, Steps, Recorded
<1>5. ASSUME NEW n \in todo, RemoveLink(n) PROVE  PurgeTypeOK'
  <2>1. n \in Names
    BY DEF PurgeTypeOK
  <2>. QED
    BY <1>5, <2>1 DEF RemoveLink, PurgeTypeOK, Steps
<1>6. CASE RemoveSource
  <2>1. source' \in [Names -> Entries \cup {Absent}]
    BY <1>6 DEF RemoveSource, PurgeTypeOK
  <2>2. dirs' \subseteq Dirs /\ failed' \in BOOLEAN
    BY <1>6 DEF RemoveSource, PurgeTypeOK
  <2>. QED
    BY <1>6, <2>1, <2>2 DEF RemoveSource, PurgeTypeOK, Steps
<1>7. CASE RemoveState
  <2>1. dirs' \subseteq Dirs /\ failed' \in BOOLEAN
    BY <1>7, RemovesOne DEF RemoveState, PurgeTypeOK, Dirs
  <2>2. stranded' \in BOOLEAN
    BY <1>7 DEF RemoveState, LeftBehind, PurgeTypeOK
  <2>. QED
    BY <1>7, <2>1, <2>2 DEF RemoveState, Finish, PurgeTypeOK, Steps
<1>8. CASE Crash
  BY <1>8 DEF Crash, PurgeTypeOK, Finish, Steps, Recorded
<1>9. ASSUME NEW r \in Runs, Start(r) PROVE  PurgeTypeOK'
  <2>1. named' \in BOOLEAN
    BY <1>9, Zenon DEF Start
  <2>2. r # Absent
    BY PurgeAssumption
  <2>3. /\ run' = r /\ pc' = "check" /\ pc = "idle" /\ clock' = clock + 1
        /\ failed' = FALSE /\ checked' = {} /\ todo' = {}
        /\ UNCHANGED <<target, source, recs, dirs, current, stranded>>
    BY <1>9, Zenon DEF Start
  <2>4. clock' \in Nat /\ (pc' = "copy" <=> current' # Absent)
    BY <2>3 DEF PurgeTypeOK
  <2>5. /\ target' \in [Names -> Entries \cup {Link, Outside, Absent}]
        /\ source' \in [Names -> Entries \cup {Absent}]
        /\ recs' \in [Names -> SyncRecords \cup {Absent}]
        /\ dirs' \subseteq Dirs /\ current' \in Names \cup {Absent}
        /\ stranded' \in BOOLEAN
    BY <2>3 DEF PurgeTypeOK
  <2>. QED
    BY <2>1, <2>2, <2>3, <2>4, <2>5, Zenon DEF PurgeTypeOK, Steps
<1>10. ASSUME NEW n \in Names, Edit(n) PROVE  PurgeTypeOK'
  <2>1. \A c \in Contents : [content |-> c, mtime |-> clock + 1] \in Entries
    BY DEF PurgeTypeOK, Entries
  <2>. QED
    BY <1>10, <2>1 DEF Edit, PurgeTypeOK, Steps
<1>11. ASSUME NEW n \in Names, Unlink(n) PROVE  PurgeTypeOK'
  BY <1>11 DEF Unlink, PurgeTypeOK, Finish, Steps, Recorded
<1>12. CASE Rest
  BY <1>12 DEF Rest, vars, PurgeTypeOK
<1>13. CASE UNCHANGED vars
  BY <1>13 DEF vars, PurgeTypeOK
<1>. QED
  BY <1>1, <1>2, <1>3, <1>4, <1>5, <1>6, <1>7, <1>8, <1>9, <1>10, <1>11, <1>12,
     <1>13 DEF Next, Process

-----------------------------------------------------------------------------
(* The ages                                                                *)

(* Every step keeps what a file as old as its record says: a file that is  *)
(* written is younger than every record.                                   *)
LEMMA AgeStep ==
  ASSUME PurgeInv, [Next]_vars
  PROVE  AgeInv'
<1>. PurgeTypeOK /\ AgeInv /\ OrderInv
  BY DEF PurgeInv
<1>. USE EntriesAreRegular
<1>0. ASSUME UNCHANGED <<target, source, recs>>,
             clock' >= clock, pc' # "idle" => clock' > 0
      PROVE  AgeInv'
  BY <1>0 DEF AgeInv, Recorded, Regular
<1>1. CASE Check
  BY <1>1, <1>0 DEF Check, AgeInv, PurgeTypeOK, Finish
<1>2. CASE RemoveConfig
  BY <1>2, <1>0 DEF RemoveConfig, AgeInv, PurgeTypeOK, Finish
<1>3. CASE CopyPointee
  <2>1. ASSUME NEW m \in Names
        PROVE  /\ target'[m] = target[m] \/ (Regular(target'[m]) => target'[m].mtime > 0)
               /\ source'[m] = source[m] \/ (source'[m] # Absent => source'[m].mtime > 0)
    BY <1>3 DEF CopyPointee, PurgeTypeOK, AgeInv, Regular
  <2>. QED
    BY <1>3, <2>1 DEF CopyPointee, AgeInv, Recorded, Regular
<1>4. CASE LinksDone
  BY <1>4, <1>0 DEF LinksDone, AgeInv, PurgeTypeOK, Finish
<1>5. ASSUME NEW n \in todo, RemoveLink(n) PROVE  AgeInv'
  <2>1. ASSUME NEW m \in Names
        PROVE  /\ target'[m] = target[m] \/ (Regular(target'[m]) => target'[m].mtime > 0)
               /\ source'[m] = source[m] \/ (source'[m] # Absent => source'[m].mtime > 0)
    BY <1>5 DEF RemoveLink, PurgeTypeOK, Regular
  <2>. QED
    BY <1>5, <2>1 DEF RemoveLink, AgeInv, Recorded, Regular
<1>6. CASE RemoveSource
  <2>1. ASSUME NEW m \in Names
        PROVE  /\ target'[m] = target[m] \/ (Regular(target'[m]) => target'[m].mtime > 0)
               /\ source'[m] = source[m] \/ (source'[m] # Absent => source'[m].mtime > 0)
    BY <1>6 DEF RemoveSource, PurgeTypeOK
  <2>. QED
    BY <1>6, <2>1 DEF RemoveSource, AgeInv, Recorded, Regular
<1>7. CASE RemoveState
  <2>1. \A m \in Names : recs'[m] \in {recs[m], Absent}
    BY <1>7 DEF RemoveState
  <2>. QED
    BY <1>7, <2>1 DEF RemoveState, Finish, AgeInv, Recorded, Regular
<1>8. CASE Crash
  BY <1>8, <1>0 DEF Crash, AgeInv, PurgeTypeOK, Finish
<1>9. ASSUME NEW r \in Runs, Start(r) PROVE  AgeInv'
  BY <1>9, <1>0 DEF Start, AgeInv, PurgeTypeOK, Finish
<1>10. ASSUME NEW n \in Names, Edit(n) PROVE  AgeInv'
  <2>1. ASSUME NEW m \in Names
        PROVE  /\ target'[m] = target[m] \/ (Regular(target'[m]) => target'[m].mtime > 0)
               /\ source'[m] = source[m] \/ (source'[m] # Absent => source'[m].mtime > 0)
    BY <1>10 DEF Edit, PurgeTypeOK, Regular
  <2>. QED
    BY <1>10, <2>1 DEF Edit, AgeInv, Recorded, Regular
<1>11. ASSUME NEW n \in Names, Unlink(n) PROVE  AgeInv'
  <2>1. ASSUME NEW m \in Names
        PROVE  /\ target'[m] = target[m] \/ (Regular(target'[m]) => target'[m].mtime > 0)
               /\ source'[m] = source[m] \/ (source'[m] # Absent => source'[m].mtime > 0)
    BY <1>11 DEF Unlink, PurgeTypeOK, Regular
  <2>. QED
    BY <1>11, <2>1 DEF Unlink, AgeInv, Recorded, Regular
<1>12. CASE Rest
  BY <1>12, <1>0 DEF Rest, vars, AgeInv, PurgeTypeOK
<1>13. CASE UNCHANGED vars
  BY <1>13, <1>0 DEF vars, AgeInv, PurgeTypeOK
<1>. QED
  BY <1>1, <1>2, <1>3, <1>4, <1>5, <1>6, <1>7, <1>8, <1>9, <1>10, <1>11, <1>12,
     <1>13 DEF Next, Process

-----------------------------------------------------------------------------
(* The order of the removals                                               *)

(* Every step keeps the order.                                             *)
LEMMA OrderStep ==
  ASSUME PurgeInv, [Next]_vars
  PROVE  OrderInv'
<1>. PurgeTypeOK /\ OrderInv
  BY DEF PurgeInv
<1>. pc # "idle" => run \in RunType
  BY RunUnderWay
<1>1. CASE Check
  BY <1>1 DEF Check, OrderInv, PurgeTypeOK, Finish, Recorded
<1>2. CASE RemoveConfig
  <2>1. /\ "state" \in dirs' <=> "state" \in dirs
        /\ "source" \in dirs' <=> "source" \in dirs
    BY <1>2 DEF RemoveConfig, Removes
  <2>2. ~run.keepConfig /\ ~run.dryRun /\ ~failed' => "config" \notin dirs'
    BY <1>2 DEF RemoveConfig, Removes
  <2>. QED
    BY <1>2, <2>1, <2>2 DEF RemoveConfig, LinksToReplace, OrderInv, PurgeTypeOK, Recorded
<1>3. CASE CopyPointee
  BY <1>3 DEF CopyPointee, OrderInv, PurgeTypeOK, Finish, Recorded
<1>4. CASE LinksDone
  BY <1>4 DEF LinksDone, OrderInv, PurgeTypeOK, Finish, Recorded
<1>5. ASSUME NEW n \in todo, RemoveLink(n) PROVE  OrderInv'
  BY <1>5 DEF RemoveLink, OrderInv, PurgeTypeOK, Finish, Recorded
<1>6. CASE RemoveSource
  <2>1. /\ "state" \in dirs' <=> "state" \in dirs
        /\ "source" \in dirs' => "source" \in dirs
        /\ "config" \in dirs' => "config" \in dirs
        /\ failed => failed'
    BY <1>6 DEF RemoveSource
  <2>2. ~run.keepSource /\ ~run.dryRun /\ Resolved' => failed'
    BY <1>6, <2>1 DEF RemoveSource, Resolved
  <2>. QED
    BY <1>6, <2>1, <2>2 DEF RemoveSource, OrderInv, PurgeTypeOK, Recorded, Resolved
<1>7. CASE RemoveState
  <2>1. pc' = "idle" /\ todo' = {} /\ ("state" \notin dirs' => Recorded' = {})
    BY <1>7 DEF RemoveState, Finish, Recorded
  <2>2. "source" \in dirs' /\ "state" \notin dirs' => stranded'
    BY <1>7 DEF RemoveState, Removes, LeftBehind, OrderInv, Resolved
  <2>. QED
    BY <2>1, <2>2 DEF OrderInv
<1>8. CASE Crash
  BY <1>8 DEF Crash, OrderInv, PurgeTypeOK, Finish, Recorded
<1>9. ASSUME NEW r \in Runs, Start(r) PROVE  OrderInv'
  <2>1. r \in RunType
    BY PurgeAssumption
  <2>. QED
    BY <1>9, <2>1 DEF Start, OrderInv, PurgeTypeOK, Recorded
<1>10. ASSUME NEW n \in Names, Edit(n) PROVE  OrderInv'
  BY <1>10 DEF Edit, OrderInv, PurgeTypeOK, Finish, Recorded
<1>11. ASSUME NEW n \in Names, Unlink(n) PROVE  OrderInv'
  BY <1>11 DEF Unlink, OrderInv, PurgeTypeOK, Finish, Recorded
<1>12. CASE Rest
  BY <1>12 DEF Rest, vars, OrderInv, Recorded, Resolved
<1>13. CASE UNCHANGED vars
  BY <1>13 DEF vars, OrderInv, Recorded, Resolved
<1>. QED
  BY <1>1, <1>2, <1>3, <1>4, <1>5, <1>6, <1>7, <1>8, <1>9, <1>10, <1>11, <1>12,
     <1>13 DEF Next, Process

-----------------------------------------------------------------------------
(* What the check has secured                                              *)

(* The steps between the check and the end of the source directory         *)
Guarding == pc \in {"config", "links", "copy", "source"}

(* Every step keeps what the check has secured.                            *)
LEMMA SecuredStep ==
  ASSUME PurgeInv, [Next]_vars
  PROVE  SecuredInv'
<1>. PurgeTypeOK /\ SecuredInv /\ AgeInv /\ OrderInv
  BY DEF PurgeInv
<1>. pc # "idle" => run \in RunType
  BY RunUnderWay
<1>0. ASSUME ~Guarding' PROVE SecuredInv'
  BY <1>0 DEF SecuredInv, Guarding
<1>1. CASE Check
  <2>1. CASE Finish
    BY <1>0, <2>1 DEF Finish, Guarding
  <2>2. CASE /\ pc' = "config" /\ UNCHANGED <<run, todo, current>>
             /\ ~(/\ Resolved /\ ~run.keepSource /\ ~run.force /\ ~run.dryRun
                  /\ \E n \in Comparable : Unsynced(n))
    <3>1. ASSUME NEW m \in checked'
          PROVE  /\ m \in Recorded /\ m \in Names
                 /\ target[m] \notin {Absent, Outside}
      BY <1>1 DEF Check, Recorded
    <3>2. ASSUME NEW m \in checked', Deleting', named', Resolved', source'[m] # Absent
          PROVE  Secured(m)'
      <4>1. source[m] # Absent /\ Deleting /\ Resolved /\ named
        BY <1>1, <2>2, <3>2 DEF Check, Deleting, Resolved
      <4>2. CASE target[m] = Link
        BY <1>1, <2>2, <4>2 DEF Check, Secured
      <4>3. CASE target[m] # Link
        <5>1. m \in Comparable
          BY <3>1, <4>1, <4>3 DEF Comparable, SeenTarget, Regular
        <5>2. HeldByTarget(m)
          BY <2>2, <3>1, <4>1, <5>1, InSyncIsEqual DEF Deleting
        <5>. QED
          BY <1>1, <5>2 DEF Check, Secured, HeldByTarget, Regular
      <4>. QED
        BY <4>2, <4>3
    <3>. QED
      BY <1>1, <2>2, <3>1, <3>2 DEF Check, SecuredInv, Recorded
  <2>. QED
    BY <1>1, <2>1, <2>2 DEF Check
<1>2. CASE RemoveConfig
  <2>1. /\ Resolved' <=> Resolved
        /\ failed => failed'
    BY <1>2 DEF RemoveConfig, Removes, Resolved, PurgeTypeOK
  <2>2. ASSUME NEW m \in checked, Deleting, named, ~failed, Resolved, source[m] # Absent
        PROVE  Secured(m)'
    <3>1. Secured(m) /\ m \in Recorded
      BY <1>2, <2>2 DEF RemoveConfig, SecuredInv
    <3>2. m \in todo'
      BY <1>2, <2>2, <3>1 DEF RemoveConfig, LinksToReplace, Deleting
    <3>. QED
      BY <1>2, <3>1, <3>2 DEF RemoveConfig, Secured, HeldByTarget, Regular
  <2>. QED
    BY <1>2, <2>1, <2>2 DEF RemoveConfig, SecuredInv, Recorded, Deleting
<1>3. CASE CopyPointee
  <2>1. ASSUME NEW m \in checked', Deleting', named', ~failed', Resolved', source'[m] # Absent
        PROVE  Secured(m)'
    <3>1. m \in checked /\ Deleting /\ named /\ ~failed /\ Resolved /\ source[m] # Absent
      BY <1>3, <2>1 DEF CopyPointee, Deleting, Resolved, PurgeTypeOK
    <3>2. Secured(m) /\ pc = "copy" /\ m \in Names
      BY <1>3, <3>1 DEF CopyPointee, SecuredInv, PurgeTypeOK
    <3>3. CASE m # current
      BY <1>3, <3>2, <3>3 DEF CopyPointee, Secured, HeldByTarget, Regular, PurgeTypeOK
    <3>4. CASE m = current
      <4>1. [content |-> source[m].content, mtime |-> clock] \in Entries
        BY <3>1, <3>2 DEF Entries, PurgeTypeOK
      <4>2. target'[m] = [content |-> source[m].content, mtime |-> clock]
            /\ source' = source
        BY <1>3, <2>1, <3>1, <3>2, <3>4 DEF CopyPointee, PurgeTypeOK
      <4>. QED
        BY <4>1, <4>2, EntriesAreRegular DEF Secured, HeldByTarget, Regular
    <3>. QED
      BY <3>3, <3>4
  <2>. QED
    BY <1>3, <2>1 DEF CopyPointee, SecuredInv, Recorded
<1>4. CASE LinksDone
  <2>1. ASSUME NEW m \in checked', Deleting', named', ~failed', Resolved', source'[m] # Absent
        PROVE  Secured(m)'
    BY <1>4, <2>1 DEF LinksDone, SecuredInv, Secured, HeldByTarget, Regular, Deleting, Resolved
  <2>. QED
    BY <1>4, <2>1 DEF LinksDone, SecuredInv, Recorded
<1>5. ASSUME NEW n \in todo, RemoveLink(n) PROVE  SecuredInv'
  <2>1. ASSUME NEW m \in checked', Deleting', named', ~failed', Resolved', source'[m] # Absent
        PROVE  Secured(m)'
    <3>1. m \in checked /\ Deleting /\ named /\ ~failed /\ Resolved /\ source[m] # Absent
      BY <1>5, <2>1 DEF RemoveLink, Deleting, Resolved
    <3>2. Secured(m) /\ named /\ pc = "links" /\ m \in Names
      BY <1>5, <3>1 DEF RemoveLink, SecuredInv, PurgeTypeOK
    <3>3. CASE m # n
      BY <1>5, <3>2, <3>3 DEF RemoveLink, Secured, HeldByTarget, Regular, PurgeTypeOK
    <3>4. CASE m = n /\ target[n] # Link
      BY <1>5, <3>2, <3>4 DEF RemoveLink, SeenTarget, Secured, HeldByTarget, Regular
    <3>5. CASE m = n /\ target[n] = Link
      BY <1>5, <2>1, <3>1, <3>2, <3>5 DEF RemoveLink, SeenTarget, Secured, Deleting
    <3>. QED
      BY <3>3, <3>4, <3>5
  <2>. QED
    BY <1>5, <2>1 DEF RemoveLink, SecuredInv, Recorded
<1>6. CASE RemoveSource
  BY <1>6, <1>0 DEF RemoveSource, Finish, Guarding
<1>7. CASE RemoveState
  BY <1>7, <1>0 DEF RemoveState, Finish, Guarding
<1>8. CASE Crash
  BY <1>8, <1>0 DEF Crash, Finish, Guarding
<1>9. ASSUME NEW r \in Runs, Start(r) PROVE  SecuredInv'
  BY <1>9, <1>0 DEF Start, Finish, Guarding
<1>10. ASSUME NEW n \in Names, Edit(n) PROVE  SecuredInv'
  BY <1>10, <1>0 DEF Edit, Finish, Guarding
<1>11. ASSUME NEW n \in Names, Unlink(n) PROVE  SecuredInv'
  BY <1>11, <1>0 DEF Unlink, Finish, Guarding
<1>12. CASE Rest
  BY <1>12, <1>0 DEF Rest, vars, Guarding
<1>13. CASE UNCHANGED vars
  BY <1>13 DEF vars, SecuredInv, Secured, HeldByTarget, Regular, Deleting, Recorded, Resolved
<1>. QED
  BY <1>1, <1>2, <1>3, <1>4, <1>5, <1>6, <1>7, <1>8, <1>9, <1>10, <1>11, <1>12,
     <1>13 DEF Next, Process

(* The invariant is inductive.                                             *)
LEMMA InvKept == PurgeInv /\ [Next]_vars => PurgeInv'
BY TypeStep, AgeStep, OrderStep, SecuredStep DEF PurgeInv

(* The invariant holds in every state of every behaviour.                  *)
LEMMA Invariance == Spec => []PurgeInv
BY InitHolds, InvKept, PTL DEF Spec

-----------------------------------------------------------------------------
(* Type correctness: the state of a purge keeps its types, a run is known  *)
(* exactly while it is under way, and a symlink's name exactly while it is *)
(* being replaced.                                                         *)
THEOREM TypeCorrect == Spec => []PurgeTypeOK
<1>1. PurgeInv => PurgeTypeOK
  BY DEF PurgeInv
<1>. QED
  BY Invariance, <1>1, PTL

(* In a run, only RemoveSource takes a source file and only RemoveState the *)
(* state directory.                                                        *)
LEMMA WhoRemoves ==
  ASSUME [Next]_vars, ByPurge
  PROVE  /\ source' = source \/ RemoveSource
         /\ ("state" \in dirs <=> "state" \in dirs') \/ RemoveState
<1>1. CASE RemoveConfig
  BY <1>1 DEF RemoveConfig, Removes
<1>2. CASE Check \/ CopyPointee \/ LinksDone \/ Crash \/ \E n \in todo : RemoveLink(n)
  BY <1>2 DEF Check, CopyPointee, LinksDone, Crash, RemoveLink
<1>3. CASE RemoveSource
  BY <1>3 DEF RemoveSource
<1>4. CASE RemoveState
  BY <1>4 DEF RemoveState
<1>5. CASE \/ \E r \in Runs : Start(r)
           \/ \E n \in Names : Edit(n) \/ Unlink(n)
           \/ Rest \/ UNCHANGED vars
  BY <1>5 DEF Start, Edit, Unlink, Rest, vars, ByPurge
<1>. QED
  BY <1>1, <1>2, <1>3, <1>4, <1>5 DEF Next, Process

(* A purge asked to keep nothing that reports success has left nothing,    *)
(* but for a source directory whose state directory went with              *)
(* --keep-source or after a reported error, whatever the purges before it  *)
(* met and wherever they were killed.  From OrderInv: a directory is gone  *)
(* once its step has been passed without an error, and the state directory *)
(* is there as long as the source directory can be removed by a later run. *)
THEOREM PurgesComplete == Spec => PurgeCompletes
<1>1. ASSUME PurgeInv, [Next]_vars, ReportsAllGone
      PROVE  dirs' = {} \/ stranded'
  <2>1. RemoveState \/ Crash
    BY <1>1 DEF ReportsAllGone, Next, Process, Check, RemoveConfig, RemoveLink, CopyPointee,
                LinksDone, RemoveSource, Start, Edit, Unlink, Rest, vars
  <2>2. "config" \notin dirs /\ ~failed
    BY <1>1, <2>1 DEF ReportsAllGone, PurgeInv, OrderInv, RemoveState, Removes, Crash
  <2>3. dirs' \subseteq dirs /\ (stranded => stranded')
    BY <1>1, <2>1 DEF PurgeInv, PurgeTypeOK, RemoveState, Removes, Crash
  <2>4. "source" \in dirs' => stranded'
    BY <1>1, <2>1, <2>2, <2>3 DEF ReportsAllGone, PurgeInv, OrderInv, Resolved, Crash
  <2>. QED
    BY <1>1, <2>2, <2>3, <2>4 DEF ReportsAllGone, PurgeInv, PurgeTypeOK, Dirs
<1>2. PurgeInv /\ [Next]_vars => [ReportsAllGone => dirs' = {} \/ stranded']_vars
  BY <1>1
<1>. QED
  BY Invariance, <1>2, PTL DEF Spec, PurgeCompletes

(* A dry run, --keep-source and --keep-config-file leave alone what they   *)
(* say they do.  From OrderInv: a run that keeps the sources has no link   *)
(* to replace, and a dry run's records are there whenever its state        *)
(* directory is.                                                           *)
THEOREM KeepsAsAsked == Spec => KeepsWhatItShould
<1>1. ASSUME PurgeInv, [Next]_vars, ByPurge
      PROVE  /\ run.dryRun => UNCHANGED <<target, source, recs, dirs>>
             /\ run.keepSource => UNCHANGED <<target, source>>
             /\ run.keepConfig => ("config" \in dirs <=> "config" \in dirs')
  <2>. PurgeTypeOK /\ OrderInv
    BY <1>1 DEF PurgeInv
  <2>. run \in RunType
    BY <1>1, RunUnderWay DEF ByPurge
  <2>1. CASE RemoveConfig
    BY <2>1 DEF RemoveConfig
  <2>2. ASSUME NEW n \in todo, RemoveLink(n)
        PROVE  /\ ~run.keepSource
               /\ run.dryRun => UNCHANGED target
               /\ UNCHANGED <<source, recs, dirs>>
    BY <2>2 DEF RemoveLink, OrderInv
  <2>3. CASE CopyPointee
    BY <2>3 DEF CopyPointee, OrderInv
  <2>4. CASE RemoveSource
    BY <2>4 DEF RemoveSource
  <2>5. CASE RemoveState
    <3>1. run.dryRun => recs' = recs
      BY <2>5 DEF RemoveState, OrderInv, Recorded, PurgeTypeOK
    <3>2. run.keepConfig => ("config" \in dirs <=> "config" \in dirs')
      BY <2>5 DEF RemoveState, Removes
    <3>. QED
      BY <2>5, <3>1, <3>2 DEF RemoveState
  <2>6. CASE Check \/ LinksDone \/ Crash
    BY <2>6 DEF Check, LinksDone, Crash
  <2>7. CASE \E r \in Runs : Start(r)
    BY <1>1, <2>7 DEF Start, ByPurge
  <2>8. CASE (\E n \in Names : Edit(n) \/ Unlink(n)) \/ Rest \/ UNCHANGED vars
    BY <1>1, <2>8 DEF Edit, Unlink, Rest, vars, ByPurge
  <2>. QED
    BY <1>1, <2>1, <2>2, <2>3, <2>4, <2>5, <2>6, <2>7, <2>8 DEF Next, Process
<1>2. PurgeInv /\ [Next]_vars =>
        [ByPurge =>
           /\ run.dryRun => UNCHANGED <<target, source, recs, dirs>>
           /\ run.keepSource => UNCHANGED <<target, source>>
           /\ run.keepConfig => ("config" \in dirs <=> "config" \in dirs')]_vars
  BY <1>1
<1>. QED
  BY Invariance, <1>2, PTL DEF Spec, KeepsWhatItShould

(* An unforced purge that knows the targets' names and met no error        *)
(* deletes the source of a recorded name that had a target only once the   *)
(* target is a regular file with the same content.  From SecuredInv when   *)
(* no link is left to replace; it holds after any number of edits and of   *)
(* interrupted purges that have left a config that changes the naming.     *)
THEOREM CheckedNamesSurvive == Spec => CheckedSurvives
<1>1. ASSUME PurgeInv, [Next]_vars, ByPurge, ~run.force, ~failed', named,
             NEW n \in checked, Removed(n)
      PROVE  HeldByTarget(n)
  <2>1. RemoveSource /\ run \in RunType /\ n \in Names
    BY <1>1, WhoRemoves, RunUnderWay DEF PurgeInv, ByPurge, Removed, PurgeTypeOK
  <2>2. Deleting /\ Resolved /\ ~failed
    BY <1>1, <2>1 DEF RemoveSource, Removed, Deleting
  <2>3. Secured(n) /\ todo = {}
    BY <1>1, <2>1, <2>2 DEF RemoveSource, PurgeInv, SecuredInv, OrderInv, Removed
  <2>. QED
    BY <2>1, <2>3 DEF RemoveSource, Secured
<1>2. PurgeInv /\ [Next]_vars =>
        [ByPurge /\ ~run.force /\ ~failed' /\ named =>
           \A n \in checked : Removed(n) => HeldByTarget(n)]_vars
  BY <1>1
<1>. QED
  BY Invariance, <1>2, PTL DEF Spec, CheckedSurvives
=============================================================================
