------------------------- MODULE MCSelfishGenerator -------------------------
(***************************************************************************)
(* The generator with every command line of two numbers up to four.        *)
(***************************************************************************)
EXTENDS SelfishGenerator

UpToFour == 0..4
=============================================================================
