------------------------------ MODULE MCNode ------------------------------
(* Two texts, two prompts in flight. *)
EXTENDS CustomNode
=============================================================================
