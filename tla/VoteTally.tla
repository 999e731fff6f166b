------------------------------ MODULE VoteTally ------------------------------
(***************************************************************************)
(* What the voting service promises, whatever happens inside it: a vote    *)
(* enters the tally at most once and only after the server has accepted    *)
(* it, and a result page never shows a vote the tally does not hold.       *)
(*                                                                         *)
(* The promise says nothing of when a vote is recorded or shown; the       *)
(* detailed module (VotePipeline) states what it guarantees under its      *)
(* fairness.  The columns option1..option4 of the database are seen as     *)
(* bags of votes: tally[v] is how many times vote v was added to the       *)
(* column it counts in.                                                    *)
(***************************************************************************)
EXTENDS Naturals

CONSTANTS Votes,     \* the votes that may be sent
          Pages      \* the result pages (one per I/O loop)

VARIABLES accepted,  \* the votes the server has accepted
          tally,     \* how many times each vote was counted
          shown      \* shown[p][v]: how often page p counts vote v

vars == <<accepted, tally, shown>>

Init ==
    /\ accepted = {}
    /\ tally = [v \in Votes |-> 0]
    /\ shown = [p \in Pages |-> [v \in Votes |-> 0]]

\* The server accepts a vote it has not seen.
Accept(v) ==
    /\ v \notin accepted
    /\ accepted' = accepted \cup {v}
    /\ UNCHANGED <<tally, shown>>

\* A set of accepted votes, none counted yet, is counted once.
Record(S) ==
    /\ S \subseteq {v \in accepted : tally[v] = 0}
    /\ tally' = [v \in Votes |-> IF v \in S THEN 1 ELSE tally[v]]
    /\ UNCHANGED <<accepted, shown>>

\* A page is rewritten with some of the votes counted so far, each once.
Show(p, S) ==
    /\ S \subseteq {v \in Votes : tally[v] = 1}
    /\ shown' = [shown EXCEPT ![p] = [v \in Votes |-> IF v \in S THEN 1 ELSE 0]]
    /\ UNCHANGED <<accepted, tally>>

Next ==
    \/ \E v \in Votes : Accept(v)
    \/ \E S \in SUBSET Votes : Record(S)
    \/ \E p \in Pages, S \in SUBSET Votes : Show(p, S)

Spec == Init /\ [][Next]_vars
=============================================================================
