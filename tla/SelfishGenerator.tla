-------------------------- MODULE SelfishGenerator --------------------------
(***************************************************************************)
(* Selfish_GENERATOR.cc: draws NSelfish distinct node numbers below        *)
(* INTERVALO by rejection and writes, for each, the script lines that make *)
(* the node selfish.  rand() is any function of time: every draw is free.  *)
(***************************************************************************)
EXTENDS Integers, Sequences

CONSTANT Args           \* the numbers that may be given on the command line

ASSUME ArgsAssumption == Args \subseteq Nat /\ \A x \in Args : 0..x \subseteq Args

VARIABLES
    NSelfish, INTERVALO,    \* the command line
    val,                    \* the numbers accepted so far; i is Len(val)
    n,                      \* the last draw
    j,                      \* how much of val it has been compared with
    pc                      \* "for", "draw", "compare", "refused", "end"

vars == <<NSelfish, INTERVALO, val, n, j, pc>>

Init ==
    /\ NSelfish \in Args /\ INTERVALO \in Args
    /\ val = <<>> /\ n = 0 /\ j = 0 /\ pc = "for"

-----------------------------------------------------------------------------
LoopDone_OneMore == Len(val) > NSelfish

LoopDone == Len(val) >= NSelfish

TooMany_OffByOne == NSelfish > INTERVALO + 1

TooMany == NSelfish > INTERVALO

\* The head of the for loop, and its test of the arguments.
LoopHead ==
    /\ pc = "for"
    /\ pc' = IF LoopDone THEN "end"
             ELSE IF TooMany THEN "refused" ELSE "draw"
    /\ UNCHANGED <<NSelfish, INTERVALO, val, n, j>>

\* n = rand() % INTERVALO
Draw(r) ==
    /\ pc = "draw"
    /\ n' = r /\ j' = 0 /\ pc' = "compare"
    /\ UNCHANGED <<NSelfish, INTERVALO, val>>

Used == j < Len(val) /\ val[j + 1] = n

\* One turn of the inner loop, which stops at the first number that is equal.
Compare ==
    /\ pc = "compare" /\ j < Len(val)
    /\ IF Used THEN pc' = "draw" /\ j' = j ELSE pc' = pc /\ j' = j + 1
    /\ UNCHANGED <<NSelfish, INTERVALO, val, n>>

AllCompared_OneEarly == j + 1 >= Len(val)

AllCompared == j = Len(val)

\* check is still true: the number is kept and written out.
Accept ==
    /\ pc = "compare" /\ AllCompared
    /\ val' = Append(val, n) /\ pc' = "for"
    /\ UNCHANGED <<NSelfish, INTERVALO, n, j>>

Next ==
    \/ LoopHead \/ Compare \/ Accept
    \/ \E r \in 0..(INTERVALO - 1) : Draw(r)

Spec == Init /\ [][Next]_vars

\* The program runs on, and rand() keeps coming to every remainder.
FairSpec ==
    /\ Spec /\ WF_vars(LoopHead) /\ WF_vars(Compare) /\ WF_vars(Accept)
    /\ \A r \in Args : SF_vars(r < INTERVALO /\ Draw(r))

-----------------------------------------------------------------------------
(* Correctness *)

\* Types of the variables; there is room in the array val whenever a number is
\* drawn for it.
TypeOK ==
    /\ NSelfish \in Nat /\ INTERVALO \in Nat
    /\ val \in Seq(Nat) /\ n \in Nat /\ j \in 0..Len(val)
    /\ pc \in {"for", "draw", "compare", "refused", "end"}
    /\ pc \in {"draw", "compare"} => Len(val) < NSelfish

\* No node is made selfish twice, and each one exists (l.31-38).
DistinctNodes ==
    /\ \A x, y \in DOMAIN val : val[x] = val[y] => x = y
    /\ \A x \in DOMAIN val : val[x] < INTERVALO

\* rand() % INTERVALO is computed only while some number is left: no division by
\* zero, and no draw without an end (the test of l.25 stands before the loop of
\* l.31).
RoomToDraw ==
    pc = "draw" => \E r \in 0..(INTERVALO - 1) : \A x \in DOMAIN val : val[x] # r

\* The program ends: with all the nodes asked for, or with none.
Finishes == <>(\/ pc = "end" /\ Len(val) = NSelfish
               \/ pc = "refused" /\ val = <<>>)
=============================================================================
