----------------------------- MODULE MCLintRun -----------------------------
(* Small instances of LintRun for TLC. The rules are interchangeable: the *)
(* calls a program causes range over all of them alike.                   *)
EXTENDS LintRun, TLC

RuleSymmetry == Permutations(Rules)
=============================================================================
