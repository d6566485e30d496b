---------------------------- MODULE MCAODVSearch ----------------------------
(***************************************************************************)
(* The search with the constants of aodv.h; routes of one hop, at the      *)
(* threshold of the expanding ring, and beyond it.                         *)
(***************************************************************************)
EXTENDS AODVSearch

SomeHops == {1, 4, 7, 9}
=============================================================================
