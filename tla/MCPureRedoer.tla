---------------------------- MODULE MCPureRedoer ----------------------------
(* Symmetry for the runs of PureRedoer: its workers are interchangeable. *)
EXTENDS PureRedoer, TLC

Interchangeable == Permutations(Workers)
=============================================================================
