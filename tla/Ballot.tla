--------------------------------- MODULE Ballot ---------------------------------
(***************************************************************************)
(* What one connection promises those who vote over it: a vote is noted    *)
(* only for a request that asks for one, and for each that does; what is   *)
(* noted counts with the next reply that is not an error, and then never   *)
(* again.  A vote noted before that replaces the older one.                *)
(***************************************************************************)
CONSTANTS Votes, NoVote

VARIABLES asked,     \* the votes the request being handled may stand for
          noted,     \* the vote that counts with the next good reply
          reply,     \* "idle" at first; "none" while a request is handled, "ok" or "error"
          counted    \* the vote counted with the last reply

vars == <<asked, noted, reply, counted>>

Init == asked = {} /\ noted = NoVote /\ reply = "idle" /\ counted = NoVote

Receive ==
    /\ reply # "none" /\ reply' = "none"
    /\ asked' \subseteq Votes
    /\ UNCHANGED <<noted, counted>>

Note ==
    /\ reply = "none"
    /\ noted' \in asked
    /\ asked' = {}
    /\ UNCHANGED <<reply, counted>>

Answer ==
    /\ reply = "none" /\ asked = {}
    /\ \/ reply' = "ok" /\ counted' = noted /\ noted' = NoVote
       \/ reply' = "error" /\ counted' = NoVote /\ noted' = noted
    /\ UNCHANGED asked

Next == Receive \/ Note \/ Answer

Spec == Init /\ [][Next]_vars
=============================================================================
