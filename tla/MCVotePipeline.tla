---------------------------- MODULE MCVotePipeline ----------------------------
(***************************************************************************)
(* Instances of VotePipeline for TLC.  Two loops are enough for every      *)
(* interaction (two UPDATE streams, two holders of the pool).  s1 is for   *)
(* the first option of sport, f1 for the second of fruit; x1, for option   *)
(* -3 of fruit, adds to the second of sport, z1, for option 6 of fruit, to *)
(* a total that is shown.                                                  *)
(***************************************************************************)
EXTENDS VotePipeline

CONSTANTS s1, f1, x1, z1

MCVoteOption ==
    [v \in Sent |-> CASE v = s1 -> <<0, 0>>
                      [] v = f1 -> <<1, 1>>
                      [] v = x1 -> <<1, -3>>
                      [] v = z1 -> <<1, 6>>]

AllFaults == {"update", "reply", "mset", "crash"}
CacheFaults == {"reply", "mset"}
NoFaults == {}
=============================================================================
