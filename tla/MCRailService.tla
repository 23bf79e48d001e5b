---------------------------- MODULE MCRailService ----------------------------
(* A bounded instance of RailService for TLC: each caller has its own rail, *)
(* and the switch refuses one topology.                                     *)
EXTENDS RailService, TLC

CONSTANTS c1, c2, r1, r2

OneToOne == (c1 :> r1) @@ (c2 :> r2)
NotAll == SUBSET Bits \ {Bits}
==============================================================================
