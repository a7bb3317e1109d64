------------------------------ MODULE RuleVisit ------------------------------
(***************************************************************************)
(* One dispatch of the engine: it has reached a node, one rule has a       *)
(* handler for the node's kind, and the handler reports what it finds.     *)
(* The modules about single rules extend this one; each says what its      *)
(* handler reports as a function of the node, and compares that with what  *)
(* the program the node stands for can do.                                 *)
(***************************************************************************)
EXTENDS Naturals, Sequences

VARIABLES
    rule,      \* the rule whose handler is called
    node,      \* the node, as the abstract tree the rule's module describes
    visited,   \* whether the handler has returned
    reports    \* what it reported

vars == <<rule, node, visited, reports>>

(* The walk has reached one of the nodes and the rule is enabled.          *)
Start(r, nodes) ==
    /\ rule = r
    /\ node \in nodes
    /\ visited = FALSE
    /\ reports = {}

(* dispatchSafely: the handler runs to its end before the walk goes on.    *)
Dispatch(r, Handler(_)) ==
    /\ rule = r
    /\ ~visited
    /\ visited' = TRUE
    /\ reports' = Handler(node)
    /\ UNCHANGED <<rule, node>>

Visited(r) == rule = r /\ visited
=============================================================================
