------------------------------- MODULE MCDSR -------------------------------
EXTENDS DSR

CONSTANTS a, b, c, d

\* Two ways from a to d; the last link of one of them may fail.
Diamond == {{a, b}, {a, c}, {b, d}, {c, d}}
LastHop == {{b, d}}
OnePacket == {[src |-> a, dst |-> d, id |-> 1]}
=============================================================================
