-------------------------- MODULE VotePipelineProofs --------------------------
(***************************************************************************)
(* Proofs about VotePipeline, for any number of loops and votes, any size  *)
(* of the Redis pool and any of the faults.                                *)
(***************************************************************************)
EXTENDS VotePipeline, FiniteSetTheorems, TLAPS

-----------------------------------------------------------------------------
(* The counters a vote may add to. *)

\* Each vote that is sent adds to one cell at most: the rows of voteAdd have none
\* in common, and none with the totals that follow them.
LEMMA CellsDisjoint ==
    /\ Votes \subseteq Sent
    /\ SportVotes \cap FruitVotes = {}
    /\ Strays \cap Votes = {}
<1>1. \A v \in Sent : Cell(v) \in Int
  BY VotesAssumption DEF Cell
<1> QED
  BY <1>1 DEF Votes, SportVotes, FruitVotes, Strays

\* A vote with an option from 0 to 3 adds to the counter it is meant for.
LEMMA OwnCounter ==
    \A v \in Proper : /\ VoteOption[v][1] = 0 => v \in SportVotes
                      /\ VoteOption[v][1] = 1 => v \in FruitVotes
                      /\ v \in Votes
BY VotesAssumption DEF Proper, Cell, Votes, SportVotes, FruitVotes

-----------------------------------------------------------------------------
(* Types. *)

\* CachePool::init builds a sequence of links.
LEMMA RedisLinksType == RedisLinks \in Seq(Links)
<1>1. RedisCapacity \in Nat /\ RedisCapacity \div 2 \in Nat
  BY RedisAssumption
<1> DEFINE n == IF ReplicaUp THEN RedisCapacity ELSE RedisCapacity \div 2
<1>2. n \in Nat
  BY <1>1
<1>3. RedisLinks \in [1 .. n -> Links]
  BY DEF RedisLinks, Links
<1> QED
  BY <1>2, <1>3

\* Adding to one row of the table gives counts again.
LEMMA AddRowType ==
    ASSUME NEW Row, NEW c \in Counts, NEW d \in Counts
    PROVE  AddRow(Row, c, d) \in Counts
BY DEF AddRow, Counts

LEMMA NoVotesType == NoVotes \in Counts
BY DEF NoVotes, Counts

\* No step of the pipeline, and no crash, leaves the types.
LEMMA TypeStep == TypeOK /\ [Next]_vars => TypeOK'
<1> SUFFICES ASSUME TypeOK, [Next]_vars
             PROVE  TypeOK'
  OBVIOUS
<1> USE NoVotesType, RedisLinksType DEF TypeOK, Phases, Links
<1>1. CASE UNCHANGED vars
  BY <1>1 DEF vars
<1>2. ASSUME NEW k \in Loops, StartLoop(k)
      PROVE  TypeOK'
  BY <1>2 DEF StartLoop, syncVars, redisVars, poolVars
<1>3. ASSUME NEW k \in Loops, FinishEvents(k)
      PROVE  TypeOK'
  BY <1>3 DEF FinishEvents, syncVars, redisVars, poolVars
<1>4. ASSUME NEW k \in Loops, UpdateSport(k)
      PROVE  TypeOK'
  BY <1>4, AddRowType DEF UpdateSport, UpdateRow, syncVars, redisVars, poolVars
<1>5. ASSUME NEW k \in Loops, UpdateFruit(k)
      PROVE  TypeOK'
  BY <1>5, AddRowType DEF UpdateFruit, UpdateRow, syncVars, redisVars, poolVars
<1>6. ASSUME NEW k \in Loops, TakeRedis(k)
      PROVE  TypeOK'
  <2>1. Head(redisPool) \in Links /\ Tail(redisPool) \in Seq(Links)
    BY <1>6 DEF TakeRedis
  <2> QED
    BY <1>6, <2>1 DEF TakeRedis, syncVars, redisVars
<1>7. ASSUME NEW k \in Loops, ReadRedis(k)
      PROVE  TypeOK'
  <2>1. redisPool' \in Seq(Links)
    BY <1>7 DEF ReadRedis, InitVoteSituation
  <2>2. PICK s \in Counts : voteSituation' = [voteSituation EXCEPT ![k] = s]
    BY <1>7 DEF ReadRedis, InitVoteSituation, Situation, MGET
  <2>3. voteAdd' = [voteAdd EXCEPT ![k] = NoVotes]
    BY <1>7 DEF ReadRedis, InitVoteSituation, ClearVoteAdd
  <2> QED
    BY <1>7, <2>1, <2>2, <2>3 DEF ReadRedis, InitVoteSituation, syncVars, redisVars
<1>8. ASSUME NEW k \in Loops, Wake(k)
      PROVE  TypeOK'
  BY <1>8 DEF Wake, syncVars, redisVars, poolVars
<1>9. ASSUME NEW k \in Loops, NEW v \in Sent, Vote(k, v)
      PROVE  TypeOK'
  <2>1. \A c \in [Loops -> Counts] : [c EXCEPT ![k][v] = @ + 1] \in [Loops -> Counts]
    BY DEF Counts
  <2>2. voteAdd' \in [Loops -> Counts]
    BY <1>9, <2>1 DEF Vote
  <2>3. voteSituation' \in [Loops -> Counts]
    BY <1>9, <2>1 DEF Vote
  <2> QED
    BY <1>9, <2>2, <2>3 DEF Vote, syncVars, redisVars, poolVars
<1>10. CASE SyncStep
  BY <1>10 DEF SyncStep, StartSync, SyncSelect, SyncMset, loopVars, syncVars,
               redisVars, poolVars
<1>11. CASE Listen \/ Replicate
  BY <1>11 DEF Listen, Replicate, loopVars, syncVars, redisVars, poolVars
<1>12. CASE Crash
  BY <1>12 DEF Crash, redisVars
<1> QED
  BY <1>1, <1>2, <1>3, <1>4, <1>5, <1>6, <1>7, <1>8, <1>9, <1>10, <1>11, <1>12
     DEF Next, LoopStep

\* Type correctness of the pipeline.
THEOREM TypeCorrect == Spec => []TypeOK
<1>1. Init => TypeOK
  BY NoVotesType, RedisLinksType
     DEF Init, TypeOK, Phases, Links
<1> QED
  BY <1>1, TypeStep, PTL DEF Spec

-----------------------------------------------------------------------------
(* No vote is counted twice. *)

\* AtMostOnce made inductive: a counter that is not cleared belongs to an
\* accepted vote and to one loop only, and such a loop is not at its poll.
VoteInv ==
    \A v \in Votes :
        /\ mysql[v] <= 1
        /\ mysql[v] > 0 => v \in cast
        /\ \A k \in Loops :
              /\ voteAdd[k][v] <= 1
              /\ voteAdd[k][v] > 0 => v \in cast /\ phase[k] \notin {"off", "poll"}
              /\ Unflushed(k, v) => mysql[v] = 0
        /\ \A k, j \in Loops : voteAdd[k][v] > 0 /\ voteAdd[j][v] > 0 => k = j

\* VoteInv speaks of the counters, the phases and the database only.
LEMMA VoteInvFrame ==
    ASSUME VoteInv, UNCHANGED <<phase, voteAdd, cast, mysql>>
    PROVE  VoteInv'
BY DEF VoteInv, Unflushed

\* An UPDATE changes the counts of its row only, and a failed one none.
LEMMA UpdateEffect ==
    ASSUME TypeOK, NEW k \in Loops, NEW from, NEW to, NEW Row,
           UpdateRow(k, from, to, Row), NEW v \in Votes
    PROVE  \/ mysql'[v] = mysql[v]
           \/ v \in Row /\ mysql'[v] = mysql[v] + voteAdd[k][v]
BY CellsDisjoint DEF UpdateRow, AddRow

\* A vote changes at most one counter of voteAdd and one total, by one.
LEMMA VoteEffect ==
    ASSUME TypeOK, NEW k \in Loops, NEW v \in Sent, Vote(k, v)
    PROVE  /\ \A j \in Loops, w \in Votes :
                 /\ voteAdd'[j][w] = IF j = k /\ w = v THEN voteAdd[j][w] + 1 ELSE voteAdd[j][w]
                 /\ voteSituation'[j][w] = voteSituation[j][w]
           /\ v \notin Votes => cast' \cap Votes = cast \cap Votes
<1>1. v \in Votes => v \notin Strays
  BY CellsDisjoint
<1>2. ASSUME NEW j \in Loops, NEW w \in Votes
      PROVE  voteAdd'[j][w] = IF j = k /\ w = v THEN voteAdd[j][w] + 1 ELSE voteAdd[j][w]
  BY CellsDisjoint DEF Vote, TypeOK, Counts
<1>3. ASSUME NEW j \in Loops, NEW w \in Votes
      PROVE  voteSituation'[j][w] = voteSituation[j][w]
  BY <1>1, CellsDisjoint DEF Vote, TypeOK, Counts
<1> QED
  BY <1>2, <1>3 DEF Vote

\* VoteInv is preserved by either UPDATE.
LEMMA VoteInvUpdate ==
    ASSUME TypeOK, VoteInv, NEW k \in Loops, UpdateSport(k) \/ UpdateFruit(k)
    PROVE  VoteInv'
<1>1. UNCHANGED <<voteAdd, cast>>
  BY DEF UpdateSport, UpdateFruit, UpdateRow
<1>2. \A j \in Loops \ {k} : phase'[j] = phase[j]
  BY DEF UpdateSport, UpdateFruit, UpdateRow, TypeOK
<1>3. \A j \in Loops, v \in Votes : voteAdd[j][v] \in Nat /\ mysql[v] \in Nat
  BY CellsDisjoint DEF TypeOK, Counts
<1>4. ASSUME NEW v \in Votes
      PROVE  /\ mysql'[v] = mysql[v] \/ (Unflushed(k, v) /\ mysql'[v] = voteAdd[k][v])
             /\ mysql'[v] # mysql[v] => ~Unflushed(k, v)'
             /\ Unflushed(k, v)' => Unflushed(k, v)
  <2>1. CASE UpdateSport(k)
    <3>1. phase[k] = "sport" /\ phase'[k] = "fruit"
      BY <2>1 DEF UpdateSport, UpdateRow, TypeOK
    <3>2. mysql'[v] = mysql[v] \/ (v \in SportVotes /\ mysql'[v] = mysql[v] + voteAdd[k][v])
      BY <2>1, UpdateEffect DEF UpdateSport
    <3> QED
      BY <1>1, <1>3, <3>1, <3>2, CellsDisjoint DEF Unflushed, VoteInv
  <2>2. CASE UpdateFruit(k)
    <3>1. phase[k] = "fruit" /\ phase'[k] = "take"
      BY <2>2 DEF UpdateFruit, UpdateRow, TypeOK
    <3>2. mysql'[v] = mysql[v] \/ (v \in FruitVotes /\ mysql'[v] = mysql[v] + voteAdd[k][v])
      BY <2>2, UpdateEffect DEF UpdateFruit
    <3> QED
      BY <1>1, <1>3, <3>1, <3>2 DEF Unflushed, VoteInv
  <2> QED
    BY <2>1, <2>2
<1>5. phase'[k] \notin {"off", "poll"}
  BY DEF UpdateSport, UpdateFruit, UpdateRow, TypeOK
<1>6. \A j \in Loops \ {k}, v \in Votes : Unflushed(j, v)' <=> Unflushed(j, v)
  BY <1>1, <1>2 DEF Unflushed
<1> SUFFICES ASSUME NEW v \in Votes
             PROVE  /\ mysql'[v] <= 1
                    /\ mysql'[v] > 0 => v \in cast
                    /\ \A j \in Loops : Unflushed(j, v)' => mysql'[v] = 0
  BY <1>1, <1>2, <1>5 DEF VoteInv
<1>7. CASE mysql'[v] = mysql[v]
  BY <1>4, <1>6, <1>7 DEF VoteInv
<1>8. CASE mysql'[v] # mysql[v]
  <2>1. Unflushed(k, v) /\ mysql'[v] = voteAdd[k][v] /\ ~Unflushed(k, v)'
    BY <1>4, <1>8
  <2>2. \A j \in Loops \ {k} : ~Unflushed(j, v)
    BY <2>1 DEF Unflushed, VoteInv
  <2> QED
    BY <2>1, <2>2, <1>6 DEF VoteInv, Unflushed
<1> QED
  BY <1>7, <1>8

\* VoteInv is preserved by every step.
LEMMA VoteInvStep == TypeOK /\ VoteInv /\ [Next]_vars => VoteInv'
<1> SUFFICES ASSUME TypeOK, VoteInv, [Next]_vars
             PROVE  VoteInv'
  OBVIOUS
<1>1. CASE UNCHANGED vars \/ SyncStep \/ Listen \/ Replicate
  <2>1. UNCHANGED <<phase, voteAdd, cast, mysql>>
    BY <1>1 DEF vars, SyncStep, StartSync, SyncSelect, SyncMset, Listen, Replicate,
                loopVars
  <2> QED
    BY <2>1, VoteInvFrame
<1>2. ASSUME NEW k \in Loops, StartLoop(k) \/ FinishEvents(k) \/ TakeRedis(k) \/ Wake(k)
      PROVE  VoteInv'
  <2>1. UNCHANGED <<voteAdd, cast, mysql>>
    BY <1>2 DEF StartLoop, FinishEvents, TakeRedis, Wake
  <2>2. \A j \in Loops \ {k} : phase'[j] = phase[j]
    BY <1>2 DEF StartLoop, FinishEvents, TakeRedis, Wake, TypeOK
  <2>3. /\ phase'[k] \notin {"off", "poll"}
        /\ \A v \in Votes : Unflushed(k, v)' => Unflushed(k, v)
    <3>1. CASE StartLoop(k)
      BY <2>1, <3>1 DEF StartLoop, TypeOK, Unflushed, VoteInv
    <3>2. CASE FinishEvents(k)
      BY <2>1, <3>2 DEF FinishEvents, TypeOK, Unflushed
    <3>3. CASE TakeRedis(k)
      BY <2>1, <3>3 DEF TakeRedis, TypeOK, Unflushed
    <3>4. CASE Wake(k)
      BY <2>1, <3>4 DEF Wake, TypeOK, Unflushed, VoteInv
    <3> QED
      BY <1>2, <3>1, <3>2, <3>3, <3>4
  <2>4. \A j \in Loops \ {k}, v \in Votes : Unflushed(j, v)' <=> Unflushed(j, v)
    BY <2>1, <2>2 DEF Unflushed
  <2> QED
    BY <2>1, <2>2, <2>3, <2>4 DEF VoteInv
<1>3. ASSUME NEW k \in Loops, UpdateSport(k) \/ UpdateFruit(k)
      PROVE  VoteInv'
  BY <1>3, VoteInvUpdate
<1>4. ASSUME NEW k \in Loops, ReadRedis(k)
      PROVE  VoteInv'
  <2>1. UNCHANGED <<cast, mysql>>
    BY <1>4 DEF ReadRedis, InitVoteSituation
  <2>2. \A v \in Votes : voteAdd'[k][v] = 0 /\ ~Unflushed(k, v)'
    BY <1>4, CellsDisjoint DEF ReadRedis, InitVoteSituation, ClearVoteAdd, NoVotes, TypeOK, Unflushed
  <2>3. \A j \in Loops \ {k} : phase'[j] = phase[j] /\ voteAdd'[j] = voteAdd[j]
    BY <1>4 DEF ReadRedis, InitVoteSituation, TypeOK
  <2>4. \A j \in Loops \ {k}, v \in Votes : Unflushed(j, v)' <=> Unflushed(j, v)
    BY <2>3 DEF Unflushed
  <2> QED
    BY <2>1, <2>2, <2>3, <2>4 DEF VoteInv
<1>5. ASSUME NEW k \in Loops, NEW v \in Sent, Vote(k, v)
      PROVE  VoteInv'
  <2>1. /\ UNCHANGED <<phase, mysql>> /\ cast' = cast \cup {v} /\ v \notin cast
        /\ phase[k] = "events"
    BY <1>5 DEF Vote
  <2>2. \A j \in Loops, w \in Votes : j # k \/ w # v => voteAdd'[j][w] = voteAdd[j][w]
    BY <1>5, VoteEffect
  <2>3. CASE v \in Votes
    <3>1. mysql[v] \in Nat /\ \A j \in Loops : voteAdd[j][v] \in Nat
      BY CellsDisjoint DEF TypeOK, Counts
    <3>2. mysql[v] = 0 /\ \A j \in Loops : voteAdd[j][v] = 0
      BY <2>1, <2>3, <3>1 DEF VoteInv
    <3>3. voteAdd'[k][v] = 1
      BY <1>5, <2>3, <3>2, VoteEffect
    <3> QED
      BY <2>1, <2>2, <2>3, <3>2, <3>3 DEF VoteInv, Unflushed
  <2>4. CASE v \notin Votes
    <3>1. \A j \in Loops, w \in Votes : voteAdd'[j][w] = voteAdd[j][w]
      BY <2>2, <2>4
    <3> QED
      BY <2>1, <2>4, <3>1 DEF VoteInv, Unflushed
  <2> QED
    BY <2>3, <2>4
<1>6. CASE Crash
  <2>1. UNCHANGED <<cast, mysql>> /\ \A k \in Loops, v \in Votes : voteAdd'[k][v] = 0
    BY <1>6, CellsDisjoint DEF Crash, NoVotes
  <2> QED
    BY <2>1 DEF VoteInv, Unflushed
<1> QED
  BY <1>1, <1>2, <1>3, <1>4, <1>5, <1>6 DEF Next, LoopStep

\* No vote is counted twice in the database, whatever fails.
THEOREM CountedAtMostOnce == Spec => []AtMostOnce
<1>1. Init => VoteInv
  BY CellsDisjoint DEF Init, VoteInv, Unflushed, NoVotes
<1>2. TypeOK /\ VoteInv => AtMostOnce
  BY CellsDisjoint DEF VoteInv, AtMostOnce, TypeOK, Counts
<1> QED
  BY <1>1, <1>2, TypeCorrect, VoteInvStep, PTL DEF Spec

-----------------------------------------------------------------------------
(* Nothing downstream runs ahead of the database. *)

\* PagesBehindDatabase made inductive: what the dbSYN thread is about to set is
\* not older than what the master holds.
FlowInv ==
    /\ PagesBehindDatabase
    /\ syncPc = "mset" => AtMost(master, voteCount)

\* <= on counts is a partial order with least element NoVotes.
LEMMA AtMostTransitive ==
    ASSUME NEW c \in Counts, NEW d \in Counts, NEW e \in Counts,
           AtMost(c, d), AtMost(d, e)
    PROVE  AtMost(c, e)
<1> SUFFICES ASSUME NEW v \in Votes
             PROVE  c[v] <= e[v]
  BY DEF AtMost
<1>1. c[v] \in Nat /\ d[v] \in Nat /\ e[v] \in Nat
  BY CellsDisjoint DEF Counts
<1> QED
  BY <1>1 DEF AtMost

LEMMA AtMostReflexive == \A c \in Counts : AtMost(c, c) /\ AtMost(NoVotes, c)
BY CellsDisjoint DEF AtMost, Counts, NoVotes

\* The database only grows.
LEMMA DatabaseGrows == TypeOK /\ [Next]_vars => AtMost(mysql, mysql')
<1> SUFFICES ASSUME TypeOK, [Next]_vars
             PROVE  AtMost(mysql, mysql')
  OBVIOUS
<1>1. CASE mysql' = mysql
  BY <1>1, AtMostReflexive DEF TypeOK
<1>2. ASSUME NEW k \in Loops, UpdateSport(k) \/ UpdateFruit(k)
      PROVE  AtMost(mysql, mysql')
  <2>1. \A v \in Votes : mysql'[v] = mysql[v] \/ mysql'[v] = mysql[v] + voteAdd[k][v]
    BY <1>2, UpdateEffect DEF UpdateSport, UpdateFruit
  <2>2. \A v \in Votes : mysql[v] \in Nat /\ voteAdd[k][v] \in Nat
    BY CellsDisjoint DEF TypeOK, Counts
  <2> QED
    BY <2>1, <2>2 DEF AtMost
<1> QED
  BY <1>1, <1>2 DEF Next, vars, LoopStep, StartLoop, FinishEvents, TakeRedis,
     ReadRedis, InitVoteSituation, Wake, Vote, SyncStep, StartSync, SyncSelect, SyncMset, Listen,
     Replicate, Crash

\* What is behind the database stays behind it.
LEMMA BehindStays ==
    ASSUME TypeOK, TypeOK', [Next]_vars, NEW c \in Counts, AtMost(c, mysql)
    PROVE  AtMost(c, mysql')
BY DatabaseGrows, AtMostTransitive DEF TypeOK

\* A read returns the master's or the replica's keys.
LEMMA ReadEffect ==
    ASSUME TypeOK, NEW k \in Loops, ReadRedis(k)
    PROVE  /\ voteSituation'[k] \in {master, replica, voteSituation[k]}
           /\ page'[k] = voteSituation'[k]
           /\ \A j \in Loops \ {k} :
                 voteSituation'[j] = voteSituation[j] /\ page'[j] = page[j]
<1>1. PICK answered \in BOOLEAN :
          voteSituation' = [voteSituation EXCEPT ![k] = Situation(k, answered)]
  BY DEF ReadRedis, InitVoteSituation
<1>2. page' = [page EXCEPT ![k] = voteSituation'[k]]
  BY DEF ReadRedis, InitVoteSituation
<1> QED
  BY <1>1, <1>2 DEF Situation, MGET, TypeOK

\* FlowInv is preserved by every step.
LEMMA FlowStep == TypeOK /\ TypeOK' /\ FlowInv /\ [Next]_vars => FlowInv'
<1> SUFFICES ASSUME TypeOK, TypeOK', FlowInv, [Next]_vars
             PROVE  FlowInv'
  OBVIOUS
<1> DEFINE Behind(c) == c \in Counts /\ AtMost(c, mysql)
<1>1. /\ Behind(master) /\ Behind(replica) /\ Behind(voteCount) /\ Behind(mysql)
      /\ Behind(NoVotes)
      /\ \A k \in Loops : Behind(voteSituation[k]) /\ Behind(page[k])
  BY AtMostTransitive, AtMostReflexive, NoVotesType
     DEF TypeOK, FlowInv, PagesBehindDatabase
<1>2. \A c : Behind(c) => Behind(c)'
  BY BehindStays
<1>3. CASE UNCHANGED <<page, voteSituation, syncPc, voteCount, master, replica>>
  BY <1>1, <1>2, <1>3 DEF FlowInv, PagesBehindDatabase, AtMost
<1>8. ASSUME NEW k \in Loops, NEW v \in Sent, Vote(k, v)
      PROVE  FlowInv'
  <2>1. UNCHANGED <<page, mysql, syncPc, voteCount, master, replica>>
    BY <1>8 DEF Vote, syncVars, redisVars
  <2>2. \A j \in Loops, w \in Votes : voteSituation'[j][w] = voteSituation[j][w]
    BY <1>8, VoteEffect
  <2>3. \A j \in Loops : AtMost(voteSituation'[j], mysql)
    BY <1>1, <2>2 DEF AtMost
  <2> QED
    BY <1>1, <2>1, <2>3 DEF FlowInv, PagesBehindDatabase, AtMost
<1>4. ASSUME NEW k \in Loops, ReadRedis(k)
      PROVE  FlowInv'
  <2>1. UNCHANGED <<syncPc, voteCount, master, replica>>
    BY <1>4 DEF ReadRedis, InitVoteSituation, syncVars, redisVars
  <2>2. \A j \in Loops : Behind(voteSituation'[j]) /\ Behind(page'[j])
    BY <1>1, <1>4, ReadEffect
  <2>3. mysql' = mysql
    BY <1>4 DEF ReadRedis, InitVoteSituation
  <2> QED
    BY <2>1, <2>2, <2>3 DEF FlowInv, PagesBehindDatabase, AtMost
<1>5. CASE SyncStep
  <2>1. UNCHANGED <<page, voteSituation, mysql, replica>>
    BY <1>5 DEF SyncStep, StartSync, SyncSelect, SyncMset, loopVars, redisVars
  <2>2. CASE StartSync
    BY <1>1, <2>1, <2>2 DEF StartSync, redisVars, FlowInv, PagesBehindDatabase, AtMost
  <2>3. CASE SyncSelect
    <3>1. voteCount' = mysql /\ master' = master
      BY <2>3 DEF SyncSelect, redisVars
    <3> QED
      BY <1>1, <2>1, <3>1 DEF FlowInv, PagesBehindDatabase, AtMost
  <2>4. CASE SyncMset
    <3>1. voteCount' = voteCount /\ master' \in {master, voteCount} /\ syncPc' = "select"
      BY <2>4 DEF SyncMset
    <3>2. AtMost(master, voteCount)
      BY <2>4 DEF SyncMset, FlowInv
    <3>3. AtMost(replica, voteCount)
      BY <1>1, <3>2, AtMostTransitive DEF FlowInv, PagesBehindDatabase
    <3> QED
      BY <1>1, <2>1, <3>1, <3>3 DEF FlowInv, PagesBehindDatabase, AtMost
  <2> QED
    BY <1>5, <2>2, <2>3, <2>4 DEF SyncStep
<1>6. CASE Replicate
  <2>1. UNCHANGED <<page, voteSituation, mysql, syncPc, voteCount, master>>
        /\ replica' = master
    BY <1>6 DEF Replicate, loopVars, syncVars
  <2>2. AtMost(master, master)
    BY <1>1, AtMostReflexive
  <2> QED
    BY <1>1, <2>1, <2>2 DEF FlowInv, PagesBehindDatabase, AtMost
<1>7. CASE Crash
  <2>1. /\ UNCHANGED <<page, mysql, master, replica>>
        /\ syncPc' = "off" /\ voteCount' = NoVotes
        /\ \A k \in Loops : voteSituation'[k] = NoVotes
    BY <1>7 DEF Crash, redisVars
  <2> QED
    BY <1>1, <2>1 DEF FlowInv, PagesBehindDatabase, AtMost
<1> QED
  BY <1>3, <1>4, <1>5, <1>6, <1>7, <1>8
     DEF Next, vars, LoopStep, StartLoop, FinishEvents, UpdateSport, UpdateFruit,
         UpdateRow, TakeRedis, Wake, Listen, loopVars, syncVars, redisVars

\* Nothing downstream ever shows a vote the database does not hold.
THEOREM NothingRunsAhead == Spec => []PagesBehindDatabase
<1>1. Init => FlowInv
  BY AtMostReflexive, NoVotesType DEF Init, FlowInv, PagesBehindDatabase
<1>2. FlowInv => PagesBehindDatabase
  BY DEF FlowInv
<1> QED
  BY <1>1, <1>2, TypeCorrect, FlowStep, PTL DEF Spec

-----------------------------------------------------------------------------
(* As long as the process lives and MySQL accepts the UPDATEs no vote is     *)
(* lost, whatever Redis does.                                                *)

\* No vote that was counted at all is missing.
AllAccounted == \A v \in cast \cap Votes : mysql[v] = 1 \/ \E k \in Loops : Unflushed(k, v)

\* A counter is cleared only after its UPDATE.
LEMMA AllAccountedStep ==
    ASSUME "update" \notin Faults, "crash" \notin Faults,
           TypeOK, VoteInv, VoteInv', AllAccounted, [Next]_vars
    PROVE  AllAccounted'
<1>1. CASE UNCHANGED vars \/ SyncStep \/ Listen \/ Replicate
  <2>1. UNCHANGED <<phase, voteAdd, cast, mysql>>
    BY <1>1 DEF vars, SyncStep, StartSync, SyncSelect, SyncMset, Listen, Replicate,
                loopVars
  <2> QED
    BY <2>1 DEF AllAccounted, Unflushed
<1>2. ASSUME NEW k \in Loops, StartLoop(k) \/ FinishEvents(k) \/ TakeRedis(k)
                              \/ Wake(k) \/ ReadRedis(k)
      PROVE  AllAccounted'
  <2>1. UNCHANGED <<cast, mysql>>
    BY <1>2 DEF StartLoop, FinishEvents, TakeRedis, Wake, ReadRedis, InitVoteSituation
  <2>2. \A j \in Loops \ {k}, v \in Votes : Unflushed(j, v) => Unflushed(j, v)'
    BY <1>2 DEF StartLoop, FinishEvents, TakeRedis, Wake, ReadRedis, InitVoteSituation, Unflushed, TypeOK
  <2>3. \A v \in Votes : Unflushed(k, v) => Unflushed(k, v)'
    BY <1>2 DEF StartLoop, FinishEvents, TakeRedis, Wake, ReadRedis, InitVoteSituation, Unflushed, TypeOK
  <2> QED
    BY <2>1, <2>2, <2>3 DEF AllAccounted, TypeOK
<1>3. ASSUME NEW k \in Loops, UpdateSport(k) \/ UpdateFruit(k)
      PROVE  AllAccounted'
  <2> SUFFICES ASSUME NEW v \in cast \cap Votes
               PROVE  mysql'[v] = 1 \/ \E j \in Loops : Unflushed(j, v)'
    BY <1>3 DEF AllAccounted, UpdateSport, UpdateFruit, UpdateRow
  <2>1. v \in Votes /\ v \in Sent /\ mysql[v] \in Nat /\ mysql'[v] <= 1
    BY CellsDisjoint DEF TypeOK, Counts, VoteInv
  <2>2. \A j \in Loops : voteAdd[j][v] \in Nat /\ voteAdd'[j] = voteAdd[j]
    BY <1>3, <2>1 DEF TypeOK, Counts, UpdateSport, UpdateFruit, UpdateRow
  <2>3. \A j \in Loops \ {k} : Unflushed(j, v) => Unflushed(j, v)'
    BY <1>3, <2>2 DEF UpdateSport, UpdateFruit, UpdateRow, Unflushed, TypeOK
  <2>4. CASE mysql[v] = 1
    <3>1. mysql'[v] = mysql[v] \/ mysql'[v] = mysql[v] + voteAdd[k][v]
      BY <1>3, <2>1, UpdateEffect DEF UpdateSport, UpdateFruit
    <3> QED
      BY <2>1, <2>2, <2>4, <3>1
  <2>5. CASE Unflushed(k, v)
    <3>1. mysql[v] = 0 /\ voteAdd[k][v] = 1
      BY <2>1, <2>2, <2>5 DEF VoteInv, Unflushed
    <3>2. CASE UpdateSport(k) /\ v \in SportVotes
      BY <3>1, <3>2, <2>1 DEF UpdateSport, UpdateRow, AddRow
    <3>3. CASE UpdateSport(k) /\ v \notin SportVotes
      <4>1. phase'[k] = "fruit" /\ v \in FruitVotes
        BY <2>1, <3>3 DEF UpdateSport, UpdateRow, TypeOK, Votes
      <4> QED
        BY <2>2, <3>1, <4>1 DEF Unflushed
    <3>4. CASE UpdateFruit(k)
      <4>1. v \in FruitVotes
        BY <2>5, <3>4 DEF UpdateFruit, UpdateRow, Unflushed
      <4> QED
        BY <3>1, <3>4, <4>1, <2>1 DEF UpdateFruit, UpdateRow, AddRow
    <3> QED
      BY <1>3, <3>2, <3>3, <3>4
  <2> QED
    BY <2>1, <2>3, <2>4, <2>5 DEF AllAccounted
<1>4. ASSUME NEW k \in Loops, NEW v \in Sent, Vote(k, v)
      PROVE  AllAccounted'
  <2>1. UNCHANGED <<phase, mysql>> /\ cast' = cast \cup {v} /\ phase[k] = "events"
    BY <1>4 DEF Vote
  <2>2. \A j \in Loops, w \in Votes :
           voteAdd'[j][w] = IF j = k /\ w = v THEN voteAdd[j][w] + 1 ELSE voteAdd[j][w]
    BY <1>4, VoteEffect
  <2>3. \A j \in Loops, w \in Votes : voteAdd[j][w] \in Nat
    BY CellsDisjoint DEF TypeOK, Counts
  <2>4. v \in Votes => Unflushed(k, v)'
    BY <2>1, <2>2, <2>3 DEF Unflushed
  <2>5. \A j \in Loops, w \in Votes : Unflushed(j, w) => Unflushed(j, w)'
    BY <2>1, <2>2, <2>3 DEF Unflushed
  <2> QED
    BY <2>1, <2>4, <2>5 DEF AllAccounted
<1>5. CASE Crash
  BY <1>5 DEF Crash
<1> QED
  BY <1>1, <1>2, <1>3, <1>4, <1>5 DEF Next, LoopStep

LEMMA AllAccountedKept ==
    ASSUME "update" \notin Faults, "crash" \notin Faults
    PROVE  Spec => [](TypeOK /\ VoteInv /\ AllAccounted)
<1>1. Init => VoteInv /\ AllAccounted
  BY CellsDisjoint DEF Init, VoteInv, Unflushed, NoVotes, AllAccounted
<1>2. TypeOK /\ VoteInv /\ VoteInv' /\ AllAccounted /\ [Next]_vars => AllAccounted'
  BY AllAccountedStep
<1> QED
  BY <1>1, <1>2, TypeCorrect, VoteInvStep, PTL DEF Spec

\* Trouble with Redis neither costs nor adds a vote: each accepted one is in the
\* database or in one loop, for any number of loops, votes and connections.
THEOREM RedisNeverLosesVotes ==
    ASSUME "update" \notin Faults, "crash" \notin Faults
    PROVE  Spec => []VotesBalance
<1>1. TypeOK /\ VoteInv /\ AllAccounted => VotesBalance
  <2> SUFFICES ASSUME TypeOK, VoteInv, AllAccounted, NEW v \in Votes
               PROVE  mysql[v] + Cardinality({k \in Loops : Unflushed(k, v)})
                         = IF v \in cast THEN 1 ELSE 0
    BY DEF VotesBalance
  <2> DEFINE W == {k \in Loops : Unflushed(k, v)}
  <2>1. mysql[v] \in Nat /\ mysql[v] <= 1 /\ (mysql[v] > 0 => v \in cast)
    BY CellsDisjoint DEF TypeOK, Counts, VoteInv
  <2>2. \A k \in W : v \in cast /\ mysql[v] = 0 /\ \A j \in W : j = k
    BY DEF VoteInv, Unflushed
  <2>3. v \in cast /\ mysql[v] = 0 => W # {}
    BY <2>1 DEF AllAccounted
  <2>4. W = {} => Cardinality(W) = 0
    BY FS_EmptySet
  <2>5. ASSUME W # {}
        PROVE  Cardinality(W) = 1
    <3>1. PICK k \in W : TRUE
      BY <2>5
    <3>2. W = {k}
      BY <2>2, <3>1
    <3> QED
      BY <3>2, FS_Singleton
  <2> HIDE DEF W
  <2>6. mysql[v] + Cardinality(W) = IF v \in cast THEN 1 ELSE 0
    <3>1. CASE W = {}
      BY <2>1, <2>3, <2>4, <3>1
    <3>2. CASE W # {}
      BY <2>2, <2>5, <3>2
    <3> QED
      BY <3>1, <3>2
  <2> QED
    BY <2>6 DEF W
<1> QED
  BY <1>1, AllAccountedKept, PTL

-----------------------------------------------------------------------------
(* The pipeline implements the abstract tally. *)

\* An UPDATE counts accepted votes nobody had counted, each once.
LEMMA UpdateRecords ==
    ASSUME TypeOK, TypeOK', VoteInv, VoteInv', [Next]_vars,
           NEW k \in Loops, UpdateSport(k) \/ UpdateFruit(k)
    PROVE  \E S \in SUBSET Votes : Tally!Record(S)
<1> DEFINE S == {v \in Votes : mysql'[v] # mysql[v]}
<1>1. UNCHANGED <<cast, page>>
  BY DEF UpdateSport, UpdateFruit, UpdateRow
<1>2. ASSUME NEW v \in Votes
      PROVE  /\ mysql[v] \in {0, 1} /\ mysql'[v] \in {0, 1}
             /\ v \in S => mysql[v] = 0 /\ mysql'[v] = 1 /\ v \in cast
  <2>1. mysql[v] \in Nat /\ mysql'[v] \in Nat
    BY CellsDisjoint DEF TypeOK, Counts
  <2>2. mysql[v] <= mysql'[v]
    BY DatabaseGrows DEF AtMost
  <2>3. mysql[v] <= 1 /\ mysql'[v] <= 1 /\ (mysql'[v] > 0 => v \in cast)
    BY <1>1 DEF VoteInv
  <2> QED
    BY <2>1, <2>2, <2>3
<1>3. S \subseteq {v \in cast \cap Votes : OfVotes(mysql)[v] = 0}
  BY <1>2 DEF OfVotes
<1>4. OfVotes(mysql)' = [v \in Votes |-> IF v \in S THEN 1 ELSE OfVotes(mysql)[v]]
  BY <1>2 DEF OfVotes
<1>5. Tally!Record(S)
  BY <1>1, <1>3, <1>4 DEF Tally!Record, OfVotes
<1> QED
  BY <1>5

\* A read rewrites the pages of its loop with votes the database holds.
LEMMA ReadShows ==
    ASSUME TypeOK, TypeOK', VoteInv, FlowInv', NEW k \in Loops, ReadRedis(k)
    PROVE  \E S \in SUBSET Votes : Tally!Show(k, S)
<1> DEFINE S == {v \in Votes : page'[k][v] = 1}
<1>1. UNCHANGED <<cast, mysql>> /\ page' = [page EXCEPT ![k] = page'[k]]
  <2>1. PICK s : page' = [page EXCEPT ![k] = s]
    BY DEF ReadRedis, InitVoteSituation
  <2>2. page'[k] = s
    BY <2>1 DEF TypeOK
  <2> QED
    BY <2>1, <2>2 DEF ReadRedis, InitVoteSituation
<1>2. ASSUME NEW v \in Votes
      PROVE  /\ page'[k][v] \in {0, 1}
             /\ v \in S => mysql[v] = 1
  <2>1. mysql[v] \in Nat /\ page'[k][v] \in Nat
    BY CellsDisjoint DEF TypeOK, Counts
  <2>2. page'[k][v] <= mysql[v] /\ mysql[v] <= 1
    BY <1>1 DEF FlowInv, PagesBehindDatabase, AtMost, VoteInv
  <2> QED
    BY <2>1, <2>2
<1>3. OfVotes(page'[k]) = [v \in Votes |-> IF v \in S THEN 1 ELSE 0]
  BY <1>2 DEF OfVotes
<1>4. S \subseteq {v \in Votes : OfVotes(mysql)[v] = 1}
  BY <1>2 DEF OfVotes
<1> DEFINE shown == [j \in Loops |-> OfVotes(page[j])]
<1>6. shown' = [shown EXCEPT ![k] = [v \in Votes |-> IF v \in S THEN 1 ELSE 0]]
  <2>1. \A j \in Loops \ {k} : page'[j] = page[j]
    BY <1>1 DEF TypeOK
  <2>2. \A j \in Loops : shown'[j] = IF j = k THEN OfVotes(page'[k]) ELSE shown[j]
    BY <2>1 DEF OfVotes
  <2> QED
    BY <1>3, <2>2
<1>7. (cast \cap Votes)' = cast \cap Votes /\ OfVotes(mysql)' = OfVotes(mysql)
  BY <1>1 DEF OfVotes
<1>5. Tally!Show(k, S)
  BY <1>4, <1>6, <1>7 DEF Tally!Show
<1> QED
  BY <1>5

\* Every step of the pipeline is a step of the tally or leaves it unchanged.
LEMMA TallyStep ==
    ASSUME TypeOK, TypeOK', VoteInv, VoteInv', FlowInv', [Next]_vars
    PROVE  [Tally!Next]_(Tally!vars)
<1>1. CASE UNCHANGED <<cast, mysql, page>>
  BY <1>1 DEF Tally!vars, OfVotes
<1>2. ASSUME NEW k \in Loops, NEW v \in Sent, Vote(k, v)
      PROVE  [Tally!Next]_(Tally!vars)
  <2>1. UNCHANGED <<mysql, page>> /\ cast' = cast \cup {v} /\ v \notin cast
    BY <1>2 DEF Vote
  <2>2. CASE v \in Votes
    <3>1. Tally!Accept(v)
      BY <2>1, <2>2 DEF Tally!Accept, OfVotes
    <3> QED
      BY <2>2, <3>1 DEF Tally!Next
  <2>3. CASE v \notin Votes
    BY <1>2, <2>1, <2>3, VoteEffect DEF Tally!vars, OfVotes
  <2> QED
    BY <2>2, <2>3
<1>3. ASSUME NEW k \in Loops, UpdateSport(k) \/ UpdateFruit(k)
      PROVE  Tally!Next
  BY <1>3, UpdateRecords DEF Tally!Next
<1>4. ASSUME NEW k \in Loops, ReadRedis(k)
      PROVE  Tally!Next
  BY <1>4, ReadShows DEF Tally!Next
<1> QED
  BY <1>1, <1>2, <1>3, <1>4
     DEF Next, vars, LoopStep, StartLoop, FinishEvents, TakeRedis, Wake, SyncStep,
         StartSync, SyncSelect, SyncMset, Listen, Replicate, Crash, loopVars

\* What the server promises of the tally holds of the pipeline.
THEOREM PipelineImplementsTally == Spec => TallySpec
<1>1. Init => Tally!Init /\ VoteInv /\ FlowInv
  BY AtMostReflexive, NoVotesType, CellsDisjoint
     DEF Init, Tally!Init, VoteInv, Unflushed, NoVotes, FlowInv, PagesBehindDatabase, OfVotes
<1>2. TypeOK /\ TypeOK' /\ VoteInv /\ VoteInv' /\ FlowInv' /\ [Next]_vars
      => [Tally!Next]_(Tally!vars)
  BY TallyStep
<1> QED
  BY <1>1, <1>2, TypeCorrect, VoteInvStep, FlowStep, PTL DEF Spec, TallySpec, Tally!Spec

-----------------------------------------------------------------------------
(* A page never goes back to an older result but by a read of the replica.   *)

\* Of the votes that are counted, what a loop has read and what it shows is the
\* same and not ahead of the master.
MasterInv ==
    \A k \in Loops : /\ \A v \in Votes : page[k][v] = voteSituation[k][v]
                     /\ AtMost(voteSituation[k], master)

\* The master's keys only grow.
LEMMA MasterGrows == TypeOK /\ FlowInv /\ [Next]_vars => AtMost(master, master')
<1> SUFFICES ASSUME TypeOK, FlowInv, [Next]_vars
             PROVE  AtMost(master, master')
  OBVIOUS
<1>1. CASE master' = master
  BY <1>1, AtMostReflexive DEF TypeOK
<1>2. CASE SyncMset /\ master' = voteCount
  BY <1>2 DEF SyncMset, FlowInv
<1> QED
  BY <1>1, <1>2
     DEF Next, vars, LoopStep, StartLoop, FinishEvents, UpdateSport, UpdateFruit,
         UpdateRow, TakeRedis, ReadRedis, InitVoteSituation, Wake, Vote, SyncStep, StartSync, SyncSelect,
         SyncMset, Listen, Replicate, Crash, redisVars

\* A page changes only when its loop has read; the master is not behind the
\* page, and neither is what the replica holds ahead of the master.
LEMMA MasterStep ==
    ASSUME "crash" \notin Faults, TypeOK, TypeOK', FlowInv, MasterInv, [Next]_vars
    PROVE  /\ MasterInv'
           /\ \A k \in Loops : redisConn[k] # "replica" => AtMost(page[k], page'[k])
<1>1. \A c \in Counts : AtMost(c, master) => AtMost(c, master')
  BY MasterGrows, AtMostTransitive DEF TypeOK
<1>2. \A k \in Loops : AtMost(voteSituation[k], master') /\ AtMost(page[k], page[k])
  BY <1>1, AtMostReflexive DEF MasterInv, TypeOK
<1>3. CASE UNCHANGED <<voteSituation, page>>
  BY <1>2, <1>3 DEF MasterInv, AtMost
<1>4. ASSUME NEW k \in Loops, ReadRedis(k)
      PROVE  /\ MasterInv'
             /\ \A j \in Loops : redisConn[j] # "replica" => AtMost(page[j], page'[j])
  <2>1. redisConn[k] # "replica" => voteSituation'[k] \in {master, voteSituation[k]}
    BY <1>4 DEF ReadRedis, InitVoteSituation, Situation, MGET, TypeOK, Links
  <2>2. AtMost(voteSituation'[k], master)
    BY <1>4, ReadEffect, AtMostReflexive
       DEF MasterInv, FlowInv, PagesBehindDatabase, TypeOK
  <2>3. redisConn[k] # "replica" => AtMost(voteSituation[k], voteSituation'[k])
    BY <2>1, AtMostReflexive DEF MasterInv, TypeOK
  <2>4. UNCHANGED master
    BY <1>4 DEF ReadRedis, InitVoteSituation, redisVars
  <2> QED
    BY <1>2, <1>4, <2>2, <2>3, <2>4, ReadEffect DEF MasterInv, AtMost
<1>5. ASSUME NEW k \in Loops, NEW v \in Sent, Vote(k, v)
      PROVE  /\ MasterInv'
             /\ \A j \in Loops : redisConn[j] # "replica" => AtMost(page[j], page'[j])
  <2>1. UNCHANGED <<page, master>>
    BY <1>5 DEF Vote, redisVars
  <2>2. \A j \in Loops, w \in Votes : voteSituation'[j][w] = voteSituation[j][w]
    BY <1>5, VoteEffect
  <2> QED
    BY <1>2, <2>1, <2>2 DEF MasterInv, AtMost
<1> QED
  BY <1>3, <1>4, <1>5
     DEF Next, vars, LoopStep, StartLoop, FinishEvents, UpdateSport, UpdateFruit,
         UpdateRow, TakeRedis, Wake, SyncStep, StartSync, SyncSelect, SyncMset,
         Listen, Replicate, Crash, loopVars

\* While the process lives, no page ever goes back but by a read of the replica.
THEOREM PagesOnlyGrow ==
    ASSUME "crash" \notin Faults
    PROVE  Spec => PageNeverRegresses
<1>1. Init => FlowInv /\ MasterInv
  BY AtMostReflexive, NoVotesType
     DEF Init, FlowInv, PagesBehindDatabase, MasterInv
<1>2. TypeOK /\ TypeOK' /\ FlowInv /\ MasterInv /\ [Next]_vars
      => /\ MasterInv'
         /\ [\A k \in Loops : redisConn[k] # "replica" => AtMost(page[k], page'[k])]_vars
  BY MasterStep
<1> QED
  BY <1>1, <1>2, TypeCorrect, FlowStep, PTL DEF Spec, PageNeverRegresses

-----------------------------------------------------------------------------
(* The connections to Redis.                                                 *)

LEMMA PoolStep ==
    ASSUME TypeOK, [Next]_vars
    PROVE  [Lending!Next \/ Crash]_(Lending!vars)
<1>1. CASE UNCHANGED <<redisPool, redisConn>>
  BY <1>1 DEF Lending!vars
<1>2. ASSUME NEW k \in Loops, TakeRedis(k)
      PROVE  Lending!Next
  <2>1. redisConn[k] = "none"
    BY <1>2 DEF TakeRedis, TypeOK
  <2>2. Lending!Take(k)
    BY <1>2, <2>1 DEF TakeRedis, Lending!Take
  <2> QED
    BY <2>2 DEF Lending!Next
<1>3. ASSUME NEW k \in Loops, ReadRedis(k)
      PROVE  Lending!Next
  <2>1. redisConn[k] # "none"
    BY <1>3 DEF ReadRedis, InitVoteSituation, TypeOK
  <2>2. Lending!Give(k)
    BY <1>3, <2>1 DEF ReadRedis, InitVoteSituation, Lending!Give
  <2> QED
    BY <2>2 DEF Lending!Next
<1> QED
  BY <1>1, <1>2, <1>3
     DEF Next, vars, LoopStep, StartLoop, FinishEvents, UpdateSport, UpdateFruit, UpdateRow, Wake,
         Vote, SyncStep, StartSync, SyncSelect, SyncMset, Listen, Replicate, poolVars

\* The loops share the connections to Redis as Pool says: each is with one loop or
\* in the list, they are lent in turn, and an error reply does not lose one.
THEOREM PipelineLends == Spec => PoolSpec
<1>1. Init => Lending!Init
  BY DEF Init, Lending!Init
<1>2. Init => TypeOK
  BY NoVotesType, RedisLinksType DEF Init, TypeOK, Phases
<1>3. TypeOK /\ [Next]_vars => [Lending!Next \/ Crash]_(Lending!vars)
  BY PoolStep
<1> QED
  BY <1>1, <1>2, <1>3, TypeStep, PTL DEF Spec, PoolSpec

Readers == {k \in Loops : redisConn[k] # "none"}

\* Every connection of the pool is in its list or with a loop.
LinksInv == Len(redisPool) + Cardinality(Readers) = Len(RedisLinks)

LEMMA LoopsFinite ==
    ASSUME NEW S \in SUBSET Loops
    PROVE  IsFiniteSet(S) /\ Cardinality(S) \in Nat
<1>1. IsFiniteSet(Loops)
  BY NumLoopsAssumption, FS_Interval DEF Loops
<1> QED
  BY <1>1, FS_Subset, FS_CardinalityType

LEMMA OneReader ==
    ASSUME NEW k \in Loops
    PROVE  /\ k \notin Readers => Cardinality(Readers \cup {k}) = Cardinality(Readers) + 1
           /\ k \in Readers => Cardinality(Readers \ {k}) = Cardinality(Readers) - 1
<1>1. Readers \in SUBSET Loops
  BY DEF Readers
<1> QED
  BY <1>1, LoopsFinite, FS_AddElement, FS_RemoveElement

LEMMA LinksStep == TypeOK /\ LinksInv /\ [Next]_vars => LinksInv'
<1> SUFFICES ASSUME TypeOK, LinksInv, [Next]_vars
             PROVE  LinksInv'
  OBVIOUS
<1>0. Len(redisPool) \in Nat /\ Cardinality(Readers) \in Nat /\ redisPool \in Seq(Links)
  BY LoopsFinite DEF TypeOK, Readers
<1>1. CASE UNCHANGED <<redisPool, redisConn>>
  BY <1>1 DEF LinksInv, Readers
<1>2. ASSUME NEW k \in Loops, TakeRedis(k)
      PROVE  LinksInv'
  <2>1. Head(redisPool) \in Links /\ Len(Tail(redisPool)) = Len(redisPool) - 1
    BY <1>0, <1>2 DEF TakeRedis
  <2>2. Readers' = Readers \cup {k} /\ k \notin Readers
    BY <1>2, <2>1 DEF TakeRedis, TypeOK, Readers, Links
  <2>3. Cardinality(Readers') = Cardinality(Readers) + 1
    BY <2>2, OneReader
  <2>4. Len(redisPool') = Len(redisPool) - 1
    BY <1>2, <2>1 DEF TakeRedis
  <2>5. Len(redisPool') + Cardinality(Readers') = Len(redisPool) + Cardinality(Readers)
    BY <1>0, <2>3, <2>4, SMT
  <2> QED
    BY <2>5 DEF LinksInv, RedisLinks
<1>3. ASSUME NEW k \in Loops, ReadRedis(k)
      PROVE  LinksInv'
  <2>1. k \in Readers
    BY <1>3 DEF ReadRedis, InitVoteSituation, TypeOK, Readers
  <2>2. redisConn' = [redisConn EXCEPT ![k] = "none"]
        /\ redisPool' = Append(redisPool, redisConn[k])
    BY <1>3 DEF ReadRedis, InitVoteSituation
  <2>3. Readers' = Readers \ {k}
    BY <2>2 DEF TypeOK, Readers
  <2>4. Cardinality(Readers') = Cardinality(Readers) - 1
    BY <2>1, <2>3, OneReader
  <2>5. Len(redisPool') = Len(redisPool) + 1
    BY <1>0, <2>2
  <2>6. Len(redisPool') + Cardinality(Readers') = Len(redisPool) + Cardinality(Readers)
    BY <1>0, <2>4, <2>5, SMT
  <2> QED
    BY <2>6 DEF LinksInv, RedisLinks
<1>4. CASE Crash
  <2>1. redisPool' = RedisLinks /\ Readers' = {}
    BY <1>4 DEF Crash, Readers
  <2>2. Len(RedisLinks) \in Nat /\ Cardinality({}) = 0
    BY RedisLinksType, FS_EmptySet
  <2>3. Len(redisPool') + Cardinality(Readers') = Len(RedisLinks)
    BY <2>1, <2>2, SMT
  <2> QED
    BY <2>3 DEF LinksInv, RedisLinks
<1> QED
  BY <1>1, <1>2, <1>3, <1>4
     DEF Next, vars, LoopStep, StartLoop, FinishEvents, UpdateSport, UpdateFruit, UpdateRow, Wake,
         Vote, SyncStep, StartSync, SyncSelect, SyncMset, Listen, Replicate, poolVars

\* When no connection to Redis is free some loop is reading, and will give its own back;
\* and there are never more readers than connections.
ReadersMoveOn ==
    /\ redisPool = << >> => \E k \in Loops : phase[k] = "read"
    /\ Cardinality({k \in Loops : phase[k] = "read"}) <= RedisCapacity

\* The loops never wait for each other at the semaphore of the Redis pool.
THEOREM ReadersNeverBlock == Spec => []ReadersMoveOn
<1>1. Init => TypeOK /\ LinksInv
  <2> SUFFICES ASSUME Init
               PROVE  TypeOK /\ LinksInv
    OBVIOUS
  <2>1. TypeOK
    BY NoVotesType, RedisLinksType DEF Init, TypeOK, Phases
  <2>2. Readers = {} /\ redisPool = RedisLinks
    BY DEF Init, Readers
  <2>3. Len(RedisLinks) \in Nat
    BY RedisLinksType
  <2> QED
    BY <2>1, <2>2, <2>3, FS_EmptySet DEF LinksInv
<1>2. TypeOK /\ LinksInv => ReadersMoveOn
  <2> SUFFICES ASSUME TypeOK, LinksInv
               PROVE  ReadersMoveOn
    OBVIOUS
  <2>1. Len(RedisLinks) \in 1 .. RedisCapacity
    BY RedisAssumption DEF RedisLinks
  <2>2. Readers = {k \in Loops : phase[k] = "read"}
    BY DEF Readers, TypeOK
  <2>3. Cardinality(Readers) \in Nat /\ Len(redisPool) \in Nat
    BY LoopsFinite DEF Readers, TypeOK
  <2>4. redisPool = << >> => Cardinality(Readers) # 0
    BY <2>1, <2>3 DEF LinksInv
  <2>5. redisPool = << >> => Readers # {}
    BY <2>4, FS_EmptySet
  <2>6. Cardinality(Readers) <= RedisCapacity
    <3>1. RedisCapacity \in Nat
      BY RedisAssumption
    <3>2. Len(redisPool) + Cardinality(Readers) = Len(RedisLinks)
      BY DEF LinksInv
    <3> QED
      BY <2>1, <2>3, <3>1, <3>2, SMT
  <2> QED
    BY <2>2, <2>5, <2>6 DEF ReadersMoveOn
<1> QED
  BY <1>1, <1>2, TypeStep, LinksStep, PTL DEF Spec
===============================================================================
