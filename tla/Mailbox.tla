------------------------------- MODULE Mailbox -------------------------------
(***************************************************************************)
(* What EventLoop::runInLoop promises its callers: the tasks given to a    *)
(* loop are run by it one at a time, each once, in the order in which they *)
(* were given.                                                             *)
(***************************************************************************)
EXTENDS Sequences

CONSTANT Tasks

VARIABLES queue,   \* tasks given and not finished, oldest first
          ran      \* tasks finished, in the order they finished

vars == <<queue, ran>>

Init == queue = << >> /\ ran = << >>

\* A task is given to the loop for the first time.
Give(t) ==
    /\ \A i \in DOMAIN queue : queue[i] # t
    /\ \A i \in DOMAIN ran : ran[i] # t
    /\ queue' = Append(queue, t)
    /\ ran' = ran

\* The oldest task finishes.
Run ==
    /\ queue # << >>
    /\ ran' = Append(ran, Head(queue))
    /\ queue' = Tail(queue)

Next == Run \/ \E t \in Tasks : Give(t)

Spec == Init /\ [][Next]_vars
=============================================================================
