---------------------------- MODULE MCUndoTree ----------------------------
(* The instances of UndoTree for TLC. *)
EXTENDS UndoTree

\* 'undolevels' that records nothing, that prunes, and that never bites.
SmallLevels == {-1, 2, 1000}
=============================================================================
