------------------------- MODULE MCServerRegistry -------------------------
(* Model-checking instance of ServerRegistry: two server names, which    *)
(* this replica and another coordinator group may both use, on one       *)
(* or two timelines.                                                       *)
EXTENDS ServerRegistry
=============================================================================
