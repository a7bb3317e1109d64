--------------------------- MODULE MCImportCycles ---------------------------
(* Small programs for TLC: every program of three files with up to two     *)
(* top-level statements each.                                              *)
EXTENDS ImportCycles, TLC

FileSymmetry == Permutations(Files)
=============================================================================
