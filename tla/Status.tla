------------------------------- MODULE Status -------------------------------
(***************************************************************************)
(* dfm status over the files of the core: what it reports of each name, and*)
(* what the other commands would then do.  It reads the stored records and *)
(* the files and changes nothing, so it is a function of the state.        *)
(***************************************************************************)
EXTENDS Dfm

(* StatusCode, without symlinks and ignored entries *)
Codes == {"UpToDate", "BothModified", "TargetModified", "SourceModified",
          "NeverSynchronized", "Unpulled", "Unmanaged"}
Modified == {"BothModified", "TargetModified", "SourceModified"}
Tracked == Codes \ {"Unmanaged"}

StateKeys == {s \in Slots : disk[s] # Absent}
Reported == {s \in StateKeys : Exists(s)}
(* state_keys: a record whose source is gone is not reported, and no longer*)
(* makes its target a managed file.                                        *)
KeysKept == StateKeys                                             \* mutant
LiveKeys == Reported

(* Phase 1: one entry for each record with a source *)
Code(s) ==
  IF ~Exists(TargetOf(s)) THEN "Unpulled"
  ELSE IF Verdict(s, disk) = "NonModified" THEN "UpToDate"
  ELSE Verdict(s, disk)
ManagedEntries == {[code |-> Code(s), name |-> s[1], encrypted |-> s[2] = "enc"] : s \in Reported}

(* Phase 2: the walk of the target directory *)
UnmanagedEntries ==
  {[code |-> "Unmanaged", name |-> t[1], encrypted |-> FALSE] :
     t \in {t \in Targets : Exists(t) /\ Plain(t[1]) \notin LiveKeys /\ Enc(t[1]) \notin LiveKeys}}

(* A pair that cannot be compared ends the command *)
StatusFails == \E e \in ManagedEntries : e.code = "Inconsistent"

(* The filters: --encrypted overrides the others, which add up *)
Category(flag) == CASE flag = "conflicted" -> {"BothModified"}
                    [] flag = "modified" -> Modified
                    [] flag = "unmanaged" -> {"Unmanaged"}
                    [] flag = "managed" -> Tracked
                    [] flag = "unpulled" -> {"Unpulled"}
Report(flags) ==
  LET asked == flags \ {"all", "encrypted"}
      visible == IF flags \cap {"all", "managed"} # {} THEN Codes ELSE Codes \ {"UpToDate"}
      chosen == IF asked = {} THEN Codes ELSE UNION {Category(flag) : flag \in asked}
      entries == ManagedEntries \cup UnmanagedEntries
  IN  IF "encrypted" \in flags THEN {e \in entries : e.encrypted}
      ELSE {e \in entries : e.code \in visible \cap chosen}

-----------------------------------------------------------------------------
CodesOf(f) == {e.code : e \in {e \in Report({}) : e.name = f}}
(* What the check of the existing paths of f does in the run under way *)
Foreseen(f) == {Outcome(p) : p \in {p \in todo : p[1] = f /\ Exists(p)}}
BothSources(f) == Exists(Plain(f)) /\ Exists(Enc(f))

(* What status says is what the commands do (README 2.12, 2.13).  Of a     *)
(* target the default report does not list, add, pull and sync find        *)
(* nothing to do and its source holds the same content (a name with both a *)
(* plain and an encrypted source aside); sync copies only in the direction *)
(* of the side that is listed as modified, refuses only what is listed as a*)
(* conflict, and leaves alone what is listed as unmanaged or unpulled.     *)
StatusForetells ==
  pc = "check" /\ run.cmd \in {"add", "pull", "sync"} /\ ~run.force /\ ~run.encrypt
    /\ ~StatusFails
  => \A f \in Files \ ForceEncrypted :
       /\ Exists(<<f, "target">>) /\ CodesOf(f) = {} /\ ~BothSources(f)
            => /\ Foreseen(f) \subseteq {Skip}
               /\ Exists(Resolved(f)) /\ Same(Resolved(f), <<f, "target">>)
       /\ run.cmd = "sync" => \A o \in Foreseen(f) :
            /\ o.blocks => "BothModified" \in CodesOf(f)
            /\ \A t \in o.queue :
                 CASE t.op = "push" -> "TargetModified" \in CodesOf(f)
                   [] t.op = "pull" -> "SourceModified" \in CodesOf(f)
            /\ CodesOf(f) \subseteq {"Unmanaged", "Unpulled", "NeverSynchronized"}
                 => o = Skip
=============================================================================
