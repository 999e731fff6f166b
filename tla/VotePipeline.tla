----------------------------- MODULE VotePipeline -----------------------------
(***************************************************************************)
(* The path of a vote through the server: from the request an I/O loop     *)
(* accepts (stateAnalyse::process_write), through the loop's private       *)
(* counters voteAdd, the two UPDATE statements on MySQL, the dbSYN thread  *)
(* that copies MySQL to the Redis master, the replication to the Redis     *)
(* replica, and back through the shared pool of Redis connections into the *)
(* loop's result pages (EventLoop::InitVoteSituation, updateHtml).         *)
(*                                                                         *)
(* The eight counters of the code are seen as bags of votes: a count is a  *)
(* function from votes to the number of times the vote was added, so that  *)
(* losing and counting twice can be told apart.  Which of these counters a *)
(* vote adds to follows from its option, a byte nobody checks: it may be   *)
(* one of the other row, or none at all.                                   *)
(*                                                                         *)
(* A loop's phase is its place in EventLoop::loop and, before that, in     *)
(* EventLoopThread::threadFunc, which runs the same three steps once.      *)
(***************************************************************************)
EXTENDS Integers, Sequences, FiniteSets

CONSTANTS NumLoops,       \* threads of EventLoopThreadPool (8 in the code)
          Sent,           \* the votes clients may send
          VoteOption,     \* AnalyseData::voteOption of each: voteWhat and option
          RedisCapacity,  \* connections CachePool::init asks for (8)
          ReplicaUp,      \* did redisConnect to the replica's port succeed
          Faults          \* the failures the environment may produce

ASSUME NumLoopsAssumption == NumLoops \in Nat \ {0}
ASSUME RedisAssumption == RedisCapacity \in Nat \ {0, 1} /\ ReplicaUp \in BOOLEAN
ASSUME VotesAssumption == VoteOption \in [Sent -> {0, 1} \X Int]
ASSUME FaultsAssumption == Faults \subseteq {"update", "reply", "mset", "crash"}

Loops == 0 .. (NumLoops - 1)        \* loopOrder_ of the I/O loops

\* The option is contextData[9] - '0', whatever that byte is, and the counter is
\* voteAdd[voteWhat][option]: counted from voteAdd[0][0], this cell.  Cells 0 to 7
\* are the two rows of voteAdd, 8 to 15 those of voteSituation, the next member.
\* What lies elsewhere is nothing this module has.
Cell(v) == 4 * VoteOption[v][1] + VoteOption[v][2]
SportVotes == {v \in Sent : Cell(v) \in 0 .. 3}
FruitVotes == {v \in Sent : Cell(v) \in 4 .. 7}
Votes == SportVotes \cup FruitVotes             \* those that add to a counter of voteAdd
Strays == {v \in Sent : Cell(v) \in 8 .. 15}     \* those that add to a total instead
Proper == {v \in Sent : VoteOption[v][2] \in 0 .. 3}

Counts == [Sent -> Nat]
NoVotes == [v \in Sent |-> 0]
AtMost(c, d) == \A v \in Votes : c[v] <= d[v]

Phases == {"off",      \* the thread does not run yet
           "poll",     \* blocked in epoll_wait
           "events",   \* handling the events poll returned
           "sport",    \* about to send the first UPDATE
           "fruit",    \* about to send the second UPDATE
           "take",     \* about to take a Redis connection
           "read"}     \* holds the connection, MGET not answered yet

Links == {"master", "replica"}

VARIABLES phase,          \* phase[k]: where loop k is
          listening,      \* the acceptor listens (TcpServer::start is over)
          voteAdd,        \* EventLoop::voteAdd of loop k
          voteSituation,  \* EventLoop::voteSituation of loop k
          page,           \* what the result pages of loop k show
          cast,           \* the votes accepted so far (history)
          mysql,          \* the table VoteSituation.user
          syncPc,         \* the dbSYN thread: "off", "select" or "mset"
          voteCount,      \* dbSYN::voteCount
          master,         \* the keys vote00..vote13 of the Redis master
          replica,        \* the same keys on the replica
          redisPool,      \* CachePool::redisConnPool
          redisConn       \* the connection loop k holds, or "none"

loopVars == <<phase, voteAdd, voteSituation, page>>
syncVars == <<syncPc, voteCount>>
redisVars == <<master, replica>>
poolVars == <<redisPool, redisConn>>
vars == <<phase, listening, voteAdd, voteSituation, page, cast, mysql,
          syncPc, voteCount, master, replica, redisPool, redisConn>>

-----------------------------------------------------------------------------
(* What the code computes.  An operator named Mut... is a plausible bug: the *)
(* definition after it, gone wrong; PROJECT.json says which property sees it. *)

\* CachePool::init: the first half of the connections goes to the master's
\* port, the second half to the replica's; a replica that does not answer is
\* only logged, so the pool is then half as long.
RedisLinks ==
    [i \in 1 .. (IF ReplicaUp THEN RedisCapacity ELSE RedisCapacity \div 2) |->
        IF i <= RedisCapacity \div 2 THEN "master" ELSE "replica"]

\* (the UPDATE writes the loop's own numbers instead of adding them)
MutAddRow(Row, c, d) == [v \in Sent |-> IF v \in Row THEN d[v] ELSE c[v]]

\* option = option + (n) on the columns of one row.
AddRow(Row, c, d) == [v \in Sent |-> IF v \in Row THEN c[v] + d[v] ELSE c[v]]

\* (an early return on an error reply)
MutClearVoteAdd(c, answered) == IF answered THEN NoVotes ELSE c

\* The end of InitVoteSituation: reached whatever Redis answered.
ClearVoteAdd(c, answered) == NoVotes

\* (the page runs ahead: the votes of this loop are added to what was read)
MutMGET(k) == [v \in Sent |-> (IF redisConn[k] = "master" THEN master ELSE replica)[v]
                                 + voteAdd[k][v]]

\* What MGET returns on the connection loop k holds.
MGET(k) == IF redisConn[k] = "master" THEN master ELSE replica

\* (the counters are reset before the read)
MutSituationReset(k, answered) == IF answered THEN MGET(k) ELSE NoVotes

\* (the test of the reply's type is inverted)
MutSituationInverted(k, answered) == IF answered THEN voteSituation[k] ELSE MGET(k)

\* voteSituation after InitVoteSituation: an error keeps what was read before.
Situation(k, answered) == IF answered THEN MGET(k) ELSE voteSituation[k]

-----------------------------------------------------------------------------
Init ==
    /\ phase = [k \in Loops |-> "off"]
    /\ listening = FALSE
    /\ voteAdd = [k \in Loops |-> NoVotes]
    /\ voteSituation = [k \in Loops |-> NoVotes]
    /\ page = [k \in Loops |-> NoVotes]
    /\ cast = {}
    /\ mysql = NoVotes
    /\ syncPc = "off"
    /\ voteCount = NoVotes
    /\ master = NoVotes
    /\ replica = NoVotes
    /\ redisPool = RedisLinks
    /\ redisConn = [k \in Loops |-> "none"]

\* TcpServer::start: the dbSYN thread is started first; the call returns when
\* the thread runs, not when its first pass is over.
StartSync ==
    /\ syncPc = "off"
    /\ syncPc' = "select"
    /\ UNCHANGED <<loopVars, listening, cast, mysql, voteCount, redisVars, poolVars>>

\* EventLoopThreadPool::start runs the loops one after the other; startLoop
\* returns once the thread has done its first update, read and page.
StartLoop(k) ==
    /\ syncPc # "off"
    /\ phase[k] = "off"
    /\ \A j \in Loops : j < k => phase[j] = "poll"
    /\ phase' = [phase EXCEPT ![k] = "sport"]
    /\ UNCHANGED <<listening, voteAdd, voteSituation, page, cast, mysql,
                   syncVars, redisVars, poolVars>>

\* The acceptor starts to listen after the pool is started.
Listen ==
    /\ ~listening
    /\ \A k \in Loops : phase[k] = "poll"
    /\ listening' = TRUE
    /\ UNCHANGED <<loopVars, cast, mysql, syncVars, redisVars, poolVars>>

\* epoll_wait has no timeout: a loop leaves it only when a client, or a task
\* queued for it, wakes it.
Wake(k) ==
    /\ listening
    /\ phase[k] = "poll"
    /\ phase' = [phase EXCEPT ![k] = "events"]
    /\ UNCHANGED <<listening, voteAdd, voteSituation, page, cast, mysql,
                   syncVars, redisVars, poolVars>>

\* A request for a vote is answered with FILE_REQUESE: AddVote, then the 200,
\* whatever the option was.
Vote(k, v) ==
    /\ phase[k] = "events"
    /\ v \notin cast
    /\ cast' = cast \cup {v}
    /\ voteAdd' = IF v \in Votes THEN [voteAdd EXCEPT ![k][v] = @ + 1] ELSE voteAdd
    /\ voteSituation' = IF v \in Strays THEN [voteSituation EXCEPT ![k][v] = @ + 1]
                        ELSE voteSituation
    /\ UNCHANGED <<phase, listening, page, mysql, syncVars, redisVars, poolVars>>

\* The last event is handled, the pending functors are done.
FinishEvents(k) ==
    /\ phase[k] = "events"
    /\ phase' = [phase EXCEPT ![k] = "sport"]
    /\ UNCHANGED <<listening, voteAdd, voteSituation, page, cast, mysql,
                   syncVars, redisVars, poolVars>>

\* One UPDATE of UpdateVoteSituation.  A failure is logged and forgotten: the
\* loop goes on to the next statement either way.
UpdateRow(k, from, to, Row) ==
    /\ phase[k] = from
    /\ phase' = [phase EXCEPT ![k] = to]
    /\ \/ mysql' = AddRow(Row, mysql, voteAdd[k])
       \/ "update" \in Faults /\ mysql' = mysql
    /\ UNCHANGED <<listening, voteAdd, voteSituation, page, cast,
                   syncVars, redisVars, poolVars>>

\* (the statement is skipped)
MutUpdateFruitSkipped(k) ==
    /\ phase[k] = "fruit"
    /\ phase' = [phase EXCEPT ![k] = "take"]
    /\ UNCHANGED <<listening, voteAdd, voteSituation, page, cast, mysql,
                   syncVars, redisVars, poolVars>>

\* (the second statement names the row of the first)
MutUpdateFruitWrongRow(k) == UpdateRow(k, "fruit", "take", SportVotes)

UpdateSport(k) == UpdateRow(k, "sport", "fruit", SportVotes)
UpdateFruit(k) == UpdateRow(k, "fruit", "take", FruitVotes)

\* InitVoteSituation takes the oldest connection; it waits while none is free.
TakeRedis(k) ==
    /\ phase[k] = "take"
    /\ redisPool # << >>
    /\ redisConn' = [redisConn EXCEPT ![k] = Head(redisPool)]
    /\ redisPool' = Tail(redisPool)
    /\ phase' = [phase EXCEPT ![k] = "read"]
    /\ UNCHANGED <<listening, voteAdd, voteSituation, page, cast, mysql,
                   syncVars, redisVars>>

\* The MGET is answered, or fails (the counters read before are kept); voteAdd
\* is cleared, the connection goes back to the end of the pool, and updateHtml
\* writes the loop's pages.  Only loop k uses voteSituation[k] and page[k].
InitVoteSituation(k, answered) ==
    /\ phase[k] = "read"
    /\ voteSituation' = [voteSituation EXCEPT ![k] = Situation(k, answered)]
    /\ voteAdd' = [voteAdd EXCEPT ![k] = ClearVoteAdd(@, answered)]
    /\ page' = [page EXCEPT ![k] = voteSituation'[k]]
    /\ redisPool' = Append(redisPool, redisConn[k])
    /\ redisConn' = [redisConn EXCEPT ![k] = "none"]
    /\ phase' = [phase EXCEPT ![k] = "poll"]
    /\ UNCHANGED <<listening, cast, mysql, syncVars, redisVars>>

ReadRedis(k) ==
    \E answered \in {TRUE} \cup (IF "reply" \in Faults THEN {FALSE} ELSE {}) :
        InitVoteSituation(k, answered)

\* synFuncOnce: read the table ...
SyncSelect ==
    /\ syncPc = "select"
    /\ voteCount' = mysql
    /\ syncPc' = "mset"
    /\ UNCHANGED <<loopVars, listening, cast, mysql, redisVars, poolVars>>

\* ... and set the keys of the master; the reply is not looked at.
SyncMset ==
    /\ syncPc = "mset"
    /\ \/ master' = voteCount
       \/ "mset" \in Faults /\ master' = master
    /\ syncPc' = "select"
    /\ UNCHANGED <<loopVars, listening, cast, mysql, voteCount, replica, poolVars>>

\* Redis replication, outside the repository: asynchronous.
Replicate ==
    /\ replica # master
    /\ replica' = master
    /\ UNCHANGED <<loopVars, listening, cast, mysql, syncVars, master, poolVars>>

\* The server dies and is started again: what only its memory held is gone.
Crash ==
    /\ "crash" \in Faults
    /\ syncPc # "off"
    /\ phase' = [k \in Loops |-> "off"]
    /\ listening' = FALSE
    /\ voteAdd' = [k \in Loops |-> NoVotes]
    /\ voteSituation' = [k \in Loops |-> NoVotes]
    /\ syncPc' = "off"
    /\ voteCount' = NoVotes
    /\ redisPool' = RedisLinks
    /\ redisConn' = [k \in Loops |-> "none"]
    /\ UNCHANGED <<page, cast, mysql, redisVars>>

LoopStep(k) ==
    \/ StartLoop(k)
    \/ FinishEvents(k)
    \/ UpdateSport(k)
    \/ UpdateFruit(k)
    \/ TakeRedis(k)
    \/ ReadRedis(k)

SyncStep == StartSync \/ SyncSelect \/ SyncMset

Next ==
    \/ \E k \in Loops : LoopStep(k) \/ Wake(k)
    \/ \E k \in Loops, v \in Sent : Vote(k, v)
    \/ SyncStep
    \/ Listen
    \/ Replicate
    \/ Crash

Spec == Init /\ [][Next]_vars

\* The threads keep running and MySQL, Redis and the replication answer; Redis
\* may fail again and again, but not every time it is asked.  No client is
\* obliged to send anything, so Wake and Vote are not fair.
FairSpec ==
    /\ Spec
    /\ \A k \in Loops :
          WF_vars(LoopStep(k)) /\ SF_vars(InitVoteSituation(k, TRUE))
    /\ WF_vars(SyncStep) /\ SF_vars(SyncMset /\ master' = voteCount)
    /\ WF_vars(Listen) /\ WF_vars(Replicate)

-----------------------------------------------------------------------------
(* Properties. *)

\* Every variable holds a value of its kind; a loop holds a connection of the
\* pool exactly while it waits for the answer to its MGET.
TypeOK ==
    /\ phase \in [Loops -> Phases]
    /\ listening \in BOOLEAN
    /\ voteAdd \in [Loops -> Counts]
    /\ voteSituation \in [Loops -> Counts]
    /\ page \in [Loops -> Counts]
    /\ cast \subseteq Sent
    /\ mysql \in Counts
    /\ syncPc \in {"off", "select", "mset"}
    /\ voteCount \in Counts
    /\ master \in Counts
    /\ replica \in Counts
    /\ redisPool \in Seq(Links)
    /\ redisConn \in [Loops -> Links \cup {"none"}]
    /\ \A k \in Loops : phase[k] = "read" <=> redisConn[k] # "none"

\* Vote v is in voteAdd of loop k and its UPDATE is still to come.
Unflushed(k, v) ==
    /\ voteAdd[k][v] > 0
    /\ \/ phase[k] \in {"events", "sport"}
       \/ phase[k] = "fruit" /\ v \in FruitVotes

\* No vote is counted twice in the database, whatever fails: an error of a
\* query or of Redis, or a crash between an UPDATE and the clearing of the
\* counters (UpdateVoteSituation adds, InitVoteSituation clears much later).
AtMostOnce ==
    \A v \in Votes :
        /\ mysql[v] <= 1
        /\ mysql[v] = 1 => v \in cast
        /\ \A k \in Loops : Unflushed(k, v) => mysql[v] = 0

\* As long as the process lives and the UPDATEs succeed, an accepted vote that
\* found a counter in voteAdd is either in the database or waits for its UPDATE
\* in exactly one loop, never both, and no other is anywhere: trouble with Redis
\* neither costs nor adds one, although InitVoteSituation clears the counters in
\* a function that only reads Redis.  For a vote with an option from 0 to 3 the
\* counter is its own.  One with an option just outside may be counted in the
\* other row; of the rest, accepted with a 200 all the same, nothing is said.
VotesBalance ==
    \A v \in Votes :
        mysql[v] + Cardinality({k \in Loops : Unflushed(k, v)}) = IF v \in cast THEN 1 ELSE 0

\* Data only flows from MySQL to the master to the replica to the pages: of the
\* votes that are counted at all nothing downstream shows one the database does
\* not hold, even after a crash or when a copy step fails.  (A stray one adds to
\* a total in voteSituation, which a page shows if the next MGET fails.)
PagesBehindDatabase ==
    /\ AtMost(replica, master)
    /\ AtMost(master, mysql)
    /\ AtMost(voteCount, mysql)
    /\ \A k \in Loops : AtMost(voteSituation[k], mysql) /\ AtMost(page[k], mysql)

\* A page goes back to an older result only when its loop has just read the
\* replica: not when the MGET on a connection to the master overtakes one on
\* another connection, nor when a read or an MSET fails in between.
PageNeverRegresses ==
    [][\A k \in Loops : redisConn[k] # "replica" => AtMost(page[k], page'[k])]_vars

\* An accepted vote with an option from 0 to 3 reaches the database: the loop
\* that accepted it gets to both UPDATEs without any further event.
VoteRecorded == \A v \in Proper : (v \in cast) ~> (mysql[v] = 1)

\* A loop that keeps being woken shows every accepted vote that was counted from
\* some time on.
BusyPagesCatchUp ==
    \A k \in Loops, v \in Votes :
        (/\ v \in cast /\ []<>(phase[k] = "events")) ~> [](page[k][v] = 1)

\* README: the pages with the counts are updated "in real time".  Refuted: a
\* loop rewrites its pages only after an event of its own.
PagesCatchUp ==
    \A k \in Loops, v \in Votes : (v \in cast) ~> (page[k][v] = 1)

\* What the server promises (VoteTally) of the votes that add to a counter of
\* voteAdd: every step of the pipeline accepts a vote, counts accepted and
\* uncounted ones once, rewrites a page with counted ones, or changes none of this.
OfVotes(c) == [v \in Votes |-> c[v]]
Tally == INSTANCE VoteTally WITH accepted <- cast \cap Votes, tally <- OfVotes(mysql),
                                 shown <- [k \in Loops |-> OfVotes(page[k])], Pages <- Loops
TallySpec == Tally!Spec

\* The connections to Redis are lent as a pool promises (Pool); a crash makes a new one.
Lending == INSTANCE Pool WITH Users <- Loops, None <- "none", Fillings <- {RedisLinks},
                              free <- redisPool, holds <- redisConn
PoolSpec == Lending!Init /\ [][Lending!Next \/ Crash]_(Lending!vars)
=============================================================================
