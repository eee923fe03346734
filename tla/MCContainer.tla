---------------------------- MODULE MCContainer ----------------------------
(***************************************************************************)
(* Small instances of Container for TLC.                                   *)
(***************************************************************************)
EXTENDS Container

CONSTANTS left, right

(* two chunks that can be told apart; an edit leaves one, or none *)
TwoChunks == {<<left, right>>}
ShorterTexts == {<<right>>, << >>}
=============================================================================
