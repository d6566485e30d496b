---------------------------- MODULE MCOLSRHello ----------------------------
(***************************************************************************)
(* Three OLSR nodes in a line a - b - c, or two.                           *)
(***************************************************************************)
EXTENDS OLSRHello

CONSTANTS a, b, c

Both == {<<a, b>>, <<b, a>>}
Line == {<<a, b>>, <<b, a>>, <<b, c>>, <<c, b>>}

\* Only c fails to hear HELLOs, those of its relay b.
FarSide == {<<b, c>>}
=============================================================================
