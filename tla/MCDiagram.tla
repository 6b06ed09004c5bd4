----------------------------- MODULE MCDiagram -----------------------------
(* Two nodes, one of them twice as in defaultProject.ts, and an edge; a project *)
(* that lists two contracts, another that lists one contract twice.      *)
EXTENDS DiagramEditor
MCContracts == [p \in Projects |-> IF p = "p" THEN {<<2, 3>>} ELSE {<<1, 1, 3>>}]
MCNodes == <<NewNode(1), [NewNode(1) EXCEPT !.title = "b"], NewNode(2)>>
MCEdges == {NewEdge(1, 2)}
=============================================================================
