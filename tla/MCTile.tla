------------------------------- MODULE MCTile -------------------------------
(***************************************************************************)
(* A small instance of Tile: one tile, as tiles share nothing, and two     *)
(* codes.                                                                  *)
(***************************************************************************)
EXTENDS Tile

CONSTANTS t1, x1, x2
=============================================================================
