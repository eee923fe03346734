------------------------------ MODULE Compare ------------------------------
(***************************************************************************)
(* Change detection (src/lib.rs).  A managed pair is a target file and one *)
(* source file.  Both are entries [content, mtime]; the sync record of the *)
(* pair, kept in state.toml under the source file's key, is                *)
(* [mtime, sha256].  Collision freedom of SHA-256 lets a digest be the     *)
(* content it was computed from.                                           *)
(***************************************************************************)
EXTENDS Integers

CONSTANT Absent        \* no such file, no such record

(* CompareByTimestamp, and the Err the timestamp comparison may return *)
Verdicts == {"TargetModified", "SourceModified", "BothModified",
             "NonModified", "NeverSynchronized", "Inconsistent"}

(* compare_files_by_content: plain sources.  A side is modified iff its    *)
(* digest differs from the recorded one; mtimes play no part.              *)
CompareByContent(target, source, rec) ==
  IF rec = Absent THEN "NeverSynchronized"
  ELSE LET t == target.content # rec.sha256
           s == source.content # rec.sha256
       IN  IF t /\ s THEN "BothModified"
           ELSE IF t THEN "TargetModified"
           ELSE IF s THEN "SourceModified"
           ELSE "NonModified"

(* compare_files_by_timestamps tests for "both" first *)
BothNewer(t, s, sync) == t > sync /\ sync < s

(* compare_files_by_timestamps: encrypted sources.  The verdicts are tried *)
(* in the code's order, and both disjuncts of "only one side" overlap the  *)
(* cases before and after them, so the order matters.                      *)
CompareByTimestamps(target, source, rec) ==
  IF rec = Absent THEN "NeverSynchronized"
  ELSE LET t == target.mtime
           s == source.mtime
           sync == rec.mtime
       IN  IF BothNewer(t, s, sync) THEN "BothModified"
           ELSE IF (t = sync /\ sync < s) \/ t < s THEN "SourceModified"
           ELSE IF t = sync /\ sync = s THEN "NonModified"
           ELSE IF (t > sync /\ sync = s) \/ t > s THEN "TargetModified"
           ELSE "Inconsistent"

(* compare_files: the source's postfix selects the comparison *)
CompareFiles(variant, target, source, rec) ==
  IF variant = "enc" THEN CompareByTimestamps(target, source, rec)
                     ELSE CompareByContent(target, source, rec)
=============================================================================
