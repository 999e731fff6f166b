-------------------------------- MODULE Service --------------------------------
(***************************************************************************)
(* What the server promises each client, whichever of its loops serve it:  *)
(* a connection is accepted, served, left, taken down and freed, in this   *)
(* order and once, and it is left only after a reset or when nothing was   *)
(* heard of the client for as long as the server is patient.               *)
(***************************************************************************)
EXTENDS Naturals

CONSTANTS Conns,
          Patience   \* turns of the wheel a silent client is given

VARIABLES peer,      \* what the client last did
          stage,     \* where its connection is
          silence    \* turns since it was heard of

vars == <<peer, stage, silence>>

Init ==
    /\ peer = [c \in Conns |-> "none"]
    /\ stage = [c \in Conns |-> "away"]
    /\ silence = [c \in Conns |-> 0]

\* The client connects, ends its stream, or resets the connection.
Act(c) ==
    /\ \E step \in {<<"none", "open">>, <<"open", "fin">>, <<"open", "rst">>, <<"fin", "rst">>} :
          peer[c] = step[1] /\ peer' = [peer EXCEPT ![c] = step[2]]
    /\ UNCHANGED <<stage, silence>>

Advance(c, from, to) ==
    /\ stage[c] = from
    /\ stage' = [stage EXCEPT ![c] = to]
    /\ UNCHANGED <<peer, silence>>

Accept(c) == peer[c] # "none" /\ Advance(c, "away", "accepted")
Serve(c) == silence[c] = 0 /\ Advance(c, "accepted", "served")
Leave(c) == (peer[c] = "rst" \/ silence[c] = Patience) /\ Advance(c, "served", "leaving")
TakeDown(c) == Advance(c, "leaving", "down")

\* Several may be freed together.
Free(S) ==
    /\ \A c \in S : stage[c] = "down"
    /\ stage' = [c \in Conns |-> IF c \in S THEN "gone" ELSE stage[c]]
    /\ UNCHANGED <<peer, silence>>

Hear(c) ==
    /\ stage[c] \in {"served", "leaving"} /\ silence[c] < Patience
    /\ silence' = [silence EXCEPT ![c] = 0]
    /\ UNCHANGED <<peer, stage>>

\* A wheel turns.
Turn(S) ==
    /\ \A c \in S : stage[c] \notin {"away", "accepted"} /\ silence[c] < Patience
    /\ silence' = [c \in Conns |-> IF c \in S THEN silence[c] + 1 ELSE silence[c]]
    /\ UNCHANGED <<peer, stage>>

Next ==
    \/ \E c \in Conns : Act(c) \/ Accept(c) \/ Serve(c) \/ Hear(c) \/ Leave(c) \/ TakeDown(c)
    \/ \E S \in SUBSET Conns : Turn(S) \/ Free(S)

Spec == Init /\ [][Next]_vars
=============================================================================
