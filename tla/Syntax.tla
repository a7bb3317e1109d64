------------------------------- MODULE Syntax -------------------------------
(* Syntax trees: a node is a kind and its children in source order, as      *)
(* ForEachChild visits them.                                                *)
EXTENDS Naturals, Sequences, SequencesExt, FiniteSetsExt

Node(kind, subs) == [kind |-> kind, subs |-> subs]
Leaf(kind) == Node(kind, <<>>)

RECURSIVE Nodes(_)
Nodes(n) == {n} \cup UNION {Nodes(c) : c \in Range(n.subs)}
KindsIn(e) == {n.kind : n \in Nodes(e)}
=============================================================================
