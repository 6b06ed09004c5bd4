----------------------------- MODULE MCDashboard -----------------------------
(* One aircraft of the first three and one that is new; a hexagon to begin with. *)
EXTENDS Dashboard
CONSTANTS A, X
MCAircraft == <<[id |-> 1, icaoId |-> A, place |-> 0]>>
MCHexagons == <<Area(0, 24)>>
=============================================================================
