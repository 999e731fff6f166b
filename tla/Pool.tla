---------------------------------- MODULE Pool ----------------------------------
(***************************************************************************)
(* What the pools of connections, CachePool and Mysql_pool, promise their  *)
(* users: a connection is lent to one of them at a time, the one that has  *)
(* been back the longest first, and none is lost or made up.               *)
(***************************************************************************)
EXTENDS Sequences

CONSTANTS Users,      \* those who borrow
          None,       \* NULL
          Fillings    \* the lists init may leave

VARIABLES free,   \* connections to be lent, the next one first
          holds   \* what each user has

vars == <<free, holds>>

Init ==
    /\ free \in Fillings \cup {<< >>}
    /\ holds = [u \in Users |-> None]

\* init, once.
Fill ==
    /\ free = << >> /\ \A u \in Users : holds[u] = None
    /\ free' \in Fillings
    /\ UNCHANGED holds

Take(u) ==
    /\ holds[u] = None /\ free # << >>
    /\ holds' = [holds EXCEPT ![u] = Head(free)]
    /\ free' = Tail(free)

Give(u) ==
    /\ holds[u] # None
    /\ free' = Append(free, holds[u])
    /\ holds' = [holds EXCEPT ![u] = None]

Next == Fill \/ \E u \in Users : Take(u) \/ Give(u)

Spec == Init /\ [][Next]_vars
=============================================================================
