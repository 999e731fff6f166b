--------------------------------- MODULE Stream ---------------------------------
(***************************************************************************)
(* What outputBuffer_ promises: the bytes that are put into it leave it in *)
(* the order in which they came, each once, in pieces of any length; what  *)
(* is not taken stays.                                                     *)
(***************************************************************************)
EXTENDS Naturals, Sequences

VARIABLES waiting,   \* the bytes not yet taken; a byte is its number
          given      \* how many were put

vars == <<waiting, given>>

Init == waiting = << >> /\ given = 0

\* The next bytes are put behind what waits.
Put ==
    /\ given' > given
    /\ waiting' = waiting \o [i \in 1 .. given' - given |-> given + i]

\* Some of the oldest are taken, the others stay as they are.
Take ==
    /\ \E n \in 1 .. Len(waiting) : waiting' = SubSeq(waiting, n + 1, Len(waiting))
    /\ UNCHANGED given

Next == Put \/ Take

Spec == Init /\ [][Next]_vars
=============================================================================
