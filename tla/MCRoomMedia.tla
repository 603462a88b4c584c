----------------------------- MODULE MCRoomMedia -----------------------------
(***************************************************************************)
(* An instance of RoomMedia for TLC: two cameras, two pages one after the  *)
(* other, and three questions, so that a question of the first page may be *)
(* answered on the second, two of a page may overlap, and a replacement    *)
(* may follow.                                                             *)
(***************************************************************************)
EXTENDS RoomMedia, TLC

Symmetry == Permutations(Cams)
=============================================================================
