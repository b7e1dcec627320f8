--------------------------- MODULE MCTouchOperator ---------------------------
(* Two hosts, two good settings and a bad one, three faces. *)
EXTENDS TouchOperator
=============================================================================
