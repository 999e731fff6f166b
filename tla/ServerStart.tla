------------------------------ MODULE ServerStart ------------------------------
(***************************************************************************)
(* From the constructor of TcpServer to loops that share their connections *)
(* to the databases: the main thread fills the pools, starts dbSYN and one *)
(* loop after the other, each time waiting on a latch and a condition, and *)
(* listens; every loop takes a connection of MySQL and then one of Redis   *)
(* when it starts and at the end of each of its iterations.                *)
(*                                                                         *)
(* What happens under a mutex is one step.  What the loops do with the     *)
(* connections is in VotePipeline.                                         *)
(***************************************************************************)
EXTENDS Naturals, Sequences, SequencesExt, FiniteSets

CONSTANTS NumLoops,      \* numThreads_
          MysqlConns,    \* MaxConn of Mysql_pool::init
          RedisConns,    \* _capacity of CachePool::init
          MaxClients,    \* bound: clients accepted
          Faults         \* what may fail

FaultKinds == {"mysql", "master", "replica", "thread", "mset", "reply"}

ASSUME StartAssumption ==
    /\ NumLoops \in Nat \ {0} /\ MysqlConns \in Nat \ {0}
    /\ RedisConns \in Nat /\ RedisConns > 1
    /\ MaxClients \in Nat
    /\ Faults \subseteq FaultKinds

Loops == 1 .. NumLoops
Sync == 0               \* the thread of dbSYN
Threads == {Sync} \cup Loops
None == 0               \* NULL

Half == RedisConns \div 2   \* the connections to the master
Servers == {"master", "replica"}
Server(c) == IF c <= Half THEN "master" ELSE "replica"      \* who answers on connection c

VARIABLES
    main,      \* place of the main thread
    pc,        \* place of each other thread
    counted,   \* which latches (Thread::latch_) are at zero
    running,   \* which loop_ are set
    loops,     \* loops_ of the EventLoopThreadPool, in order
    next,      \* next_, counted from 0
    clients,   \* connections given to each loop
    pool,      \* the pool a loop is dealing with, "mysql" or "redis"
    conn,      \* the connection it holds
    free,      \* connList, redisConnPool
    sem,       \* reserve of each pool
    keys,      \* the servers of Redis that have the keys of the votes
    refused,   \* the first MGET of a loop was answered with an error (history)
    outcome,   \* "up", "exit", "null" (MySQL) or "nokeys"
    failed     \* a thread could not be created (history)

startVars == <<counted, running, loops, failed>>
poolVars == <<pool, conn, free, sem>>
clientVars == <<next, clients>>
redisVars == <<keys, refused>>
vars == <<main, pc, startVars, poolVars, clientVars, redisVars, outcome>>

Init ==
    /\ main = "setConn"
    /\ pc = [t \in Threads |-> "none"]
    /\ counted = {} /\ running = {} /\ loops = << >> /\ failed = FALSE
    /\ next = 0 /\ clients = [l \in Loops |-> 0]
    /\ pool = [l \in Loops |-> "mysql"] /\ conn = [l \in Loops |-> None]
    /\ free = [p \in {"mysql", "redis"} |-> << >>]
    /\ sem = [p \in {"mysql", "redis"} |-> 0]
    /\ keys \in {{}, {"master"}, Servers} /\ refused = FALSE
    /\ outcome = "up"

Up == outcome = "up"

-----------------------------------------------------------------------------
(* The main thread.                                                        *)

\* The thread that is being started: dbSYN, then the loops in order.
Starting == IF main \in {"startSyn", "syncLatch", "syncSleep"} THEN Sync ELSE Len(loops) + 1

Exit(f) ==
    /\ Up /\ f \in Faults
    /\ outcome' = "exit"
    /\ UNCHANGED <<main, pc, startVars, poolVars, clientVars, redisVars>>

\* dbSYN::setConn, in the constructor of TcpServer.
SetConn ==
    /\ Up /\ main = "setConn"
    /\ main' = "mysqlInit"
    /\ UNCHANGED <<pc, startVars, poolVars, clientVars, redisVars, outcome>>

SetConnFails == main = "setConn" /\ (Exit("mysql") \/ Exit("master"))

Fill(p, n) ==
    /\ free' = [free EXCEPT ![p] = [i \in 1 .. n |-> i]]
    /\ sem' = [sem EXCEPT ![p] = n]
    /\ UNCHANGED <<pool, conn>>

\* (one connection less)
MutMysqlInit ==
    /\ Up /\ main = "mysqlInit"
    /\ Fill("mysql", MysqlConns - 1)
    /\ main' = "redisInit"
    /\ UNCHANGED <<pc, startVars, clientVars, redisVars, outcome>>

\* Mysql_pool::init: all connections or none.
MysqlInit ==
    /\ Up /\ main = "mysqlInit"
    /\ Fill("mysql", MysqlConns)
    /\ main' = "redisInit"
    /\ UNCHANGED <<pc, startVars, clientVars, redisVars, outcome>>

MysqlInitFails == main = "mysqlInit" /\ Exit("mysql")

\* (a replica that does not answer is counted all the same)
MutRedisInit ==
    /\ Up /\ main = "redisInit"
    /\ \E n \in Half .. RedisConns :
          /\ n < RedisConns => "replica" \in Faults
          /\ free' = [free EXCEPT !["redis"] = [i \in 1 .. n |-> i]]
          /\ sem' = [sem EXCEPT !["redis"] = RedisConns]
    /\ main' = "startSyn"
    /\ UNCHANGED <<pc, startVars, clientVars, pool, conn, redisVars, outcome>>

\* CachePool::init: the connections to the replica may be missing.
RedisInit ==
    /\ Up /\ main = "redisInit"
    /\ \E n \in Half .. RedisConns : (n < RedisConns => "replica" \in Faults) /\ Fill("redis", n)
    /\ main' = "startSyn"
    /\ UNCHANGED <<pc, startVars, clientVars, redisVars, outcome>>

RedisInitFails == main = "redisInit" /\ Exit("master")

\* Thread::start, by startSyn or startLoop.  Nobody asks whether it succeeded.
Create ==
    /\ Up /\ main \in {"startSyn", "create"}
    /\ \/ /\ pc' = [pc EXCEPT ![Starting] = "created"]
          /\ main' = IF main = "startSyn" THEN "syncLatch" ELSE "latch"
          /\ UNCHANGED failed
       \/ /\ "thread" \in Faults
          /\ failed' = TRUE
          /\ main' = IF main = "startSyn" THEN "create" ELSE "cond"
          /\ UNCHANGED pc
    /\ UNCHANGED <<counted, running, loops, poolVars, clientVars, redisVars, outcome>>

\* CountDownLatch::wait: the count is looked at, or sleep begins, under its mutex.
LatchWait ==
    /\ Up /\ main \in {"syncLatch", "latch"}
    /\ main' = IF Starting \in counted
               THEN IF main = "syncLatch" THEN "create" ELSE "cond"
               ELSE IF main = "syncLatch" THEN "syncSleep" ELSE "latchSleep"
    /\ UNCHANGED <<pc, startVars, poolVars, clientVars, redisVars, outcome>>

\* EventLoopThread::startLoop waits for loop_; EventLoopThreadPool::start goes on
\* with the next thread.
LoopWait ==
    /\ Up /\ main = "cond"
    /\ IF Starting \in running
       THEN /\ loops' = Append(loops, Starting)
            /\ main' = IF Starting = NumLoops THEN "listen" ELSE "create"
       ELSE main' = "condSleep" /\ UNCHANGED loops
    /\ UNCHANGED <<pc, counted, running, failed, poolVars, clientVars, redisVars, outcome>>

\* Acceptor::listen
Listen ==
    /\ Up /\ main = "listen"
    /\ main' = "loop"
    /\ UNCHANGED <<pc, startVars, poolVars, clientVars, redisVars, outcome>>

\* getNextLoop
NextLoop == IF next + 1 >= Len(loops) THEN 0 ELSE next + 1

\* TcpServer::newConnection
NewConnection ==
    /\ Up /\ main = "loop"
    /\ clients[loops[next + 1]] < MaxClients
    /\ clients' = [clients EXCEPT ![loops[next + 1]] = @ + 1]
    /\ next' = NextLoop
    /\ UNCHANGED <<main, pc, startVars, poolVars, redisVars, outcome>>

-----------------------------------------------------------------------------
(* The other threads.                                                      *)

Woken(sleep, awake, t) == main' = IF main = sleep /\ Starting = t THEN awake ELSE main

\* (notifyall forgotten)
MutCountDown(t) ==
    /\ Up /\ pc[t] = "created"
    /\ counted' = counted \cup {t}
    /\ pc' = [pc EXCEPT ![t] = IF t = Sync THEN "copy" ELSE "check"]
    /\ UNCHANGED <<main, running, loops, failed, poolVars, clientVars, redisVars, outcome>>

\* (loop_ is set as soon as the loop is there)
MutAnnounceEarly(t) ==
    /\ Up /\ pc[t] = "created"
    /\ counted' = counted \cup {t} /\ running' = running \cup ({t} \cap Loops)
    /\ IF t = Sync THEN Woken("syncSleep", "syncLatch", t) ELSE Woken("latchSleep", "latch", t)
    /\ pc' = [pc EXCEPT ![t] = IF t = Sync THEN "copy" ELSE "check"]
    /\ UNCHANGED <<loops, failed, poolVars, clientVars, redisVars, outcome>>

\* runInThread: the latch is counted down, then the thread's own function runs.
CountDown(t) ==
    /\ Up /\ pc[t] = "created"
    /\ counted' = counted \cup {t}
    /\ IF t = Sync THEN Woken("syncSleep", "syncLatch", t) ELSE Woken("latchSleep", "latch", t)
    /\ pc' = [pc EXCEPT ![t] = IF t = Sync THEN "copy" ELSE "check"]
    /\ UNCHANGED <<running, loops, failed, poolVars, clientVars, redisVars, outcome>>

\* synFuncOnce, over and over: MSET writes the keys of the master ...
Copy ==
    /\ Up /\ pc[Sync] = "copy"
    /\ keys' = keys \cup {"master"} \/ ("mset" \in Faults /\ keys' = keys)
    /\ UNCHANGED <<main, pc, startVars, poolVars, clientVars, refused, outcome>>

\* ... and the replica has them some time later (outside the repository).
Replicate ==
    /\ Up /\ "master" \in keys
    /\ keys' = Servers
    /\ UNCHANGED <<main, pc, startVars, poolVars, clientVars, refused, outcome>>

\* getMysqlConn looks at the size of the list first, without the lock, and returns
\* NULL, which UpdateVoteSituation passes to mysql_query.
Check(l) ==
    /\ Up /\ pc[l] = "check"
    /\ IF free["mysql"] = << >> THEN outcome' = "null" /\ pc' = pc
                                ELSE pc' = [pc EXCEPT ![l] = "wait"] /\ outcome' = outcome
    /\ UNCHANGED <<main, startVars, poolVars, clientVars, redisVars>>

\* reserve.wait()
Wait(l) ==
    /\ Up /\ pc[l] = "wait" /\ sem[pool[l]] > 0
    /\ sem' = [sem EXCEPT ![pool[l]] = @ - 1]
    /\ pc' = [pc EXCEPT ![l] = "pop"]
    /\ UNCHANGED <<main, startVars, pool, conn, free, clientVars, redisVars, outcome>>

\* (pop_front forgotten)
MutPop(l) ==
    /\ Up /\ pc[l] = "pop" /\ free[pool[l]] # << >>
    /\ conn' = [conn EXCEPT ![l] = Head(free[pool[l]])]
    /\ pc' = [pc EXCEPT ![l] = "use"]
    /\ UNCHANGED <<main, startVars, pool, free, sem, clientVars, redisVars, outcome>>

\* front and pop_front, under the lock.
Pop(l) ==
    /\ Up /\ pc[l] = "pop" /\ free[pool[l]] # << >>
    /\ conn' = [conn EXCEPT ![l] = Head(free[pool[l]])]
    /\ free' = [free EXCEPT ![pool[l]] = Tail(@)]
    /\ pc' = [pc EXCEPT ![l] = "use"]
    /\ UNCHANGED <<main, startVars, pool, sem, clientVars, redisVars, outcome>>

\* MGET finds no keys on the server of the connection loop l holds.
NoKeys(l) == pool[l] = "redis" /\ Server(conn[l]) \notin keys

\* The UPDATEs, or MGET.  A key that is not there is answered with nil, whose
\* text, NULL, is passed to atoi; an error reply is logged and has no keys.
Use(l) ==
    /\ Up /\ pc[l] = "use"
    /\ \/ ~NoKeys(l) /\ pc' = [pc EXCEPT ![l] = "put"] /\ UNCHANGED <<refused, outcome>>
       \/ NoKeys(l) /\ outcome' = "nokeys" /\ UNCHANGED <<pc, refused>>
       \/ /\ pool[l] = "redis" /\ "reply" \in Faults
          /\ pc' = [pc EXCEPT ![l] = "put"]
          /\ refused' = (refused \/ l \notin running)
          /\ UNCHANGED outcome
    /\ UNCHANGED <<main, startVars, poolVars, clientVars, keys>>

\* ReleaseMysql, recoveryConn: push_back under the lock ...
Put(l) ==
    /\ Up /\ pc[l] = "put"
    /\ free' = [free EXCEPT ![pool[l]] = Append(@, conn[l])]
    /\ conn' = [conn EXCEPT ![l] = None]
    /\ pc' = [pc EXCEPT ![l] = "post"]
    /\ UNCHANGED <<main, startVars, pool, sem, clientVars, redisVars, outcome>>

\* ... then reserve.post().  UpdateVoteSituation is followed by InitVoteSituation,
\* this by the announcement of a new loop or by the next iteration.
Post(l) ==
    /\ Up /\ pc[l] = "post"
    /\ sem' = [sem EXCEPT ![pool[l]] = @ + 1]
    /\ pool' = [pool EXCEPT ![l] = IF @ = "mysql" THEN "redis" ELSE "mysql"]
    /\ pc' = [pc EXCEPT ![l] = IF pool[l] = "mysql" THEN "wait"
                               ELSE IF l \in running THEN "poll" ELSE "announce"]
    /\ UNCHANGED <<main, startVars, conn, free, clientVars, redisVars, outcome>>

\* threadFunc sets loop_ and notifies, under the mutex, and calls loop().
Announce(l) ==
    /\ Up /\ pc[l] = "announce"
    /\ running' = running \cup {l}
    /\ Woken("condSleep", "cond", l)
    /\ pc' = [pc EXCEPT ![l] = "poll"]
    /\ UNCHANGED <<counted, loops, failed, poolVars, clientVars, redisVars, outcome>>

\* An iteration; only a loop with clients ever has an event.
Wake(l) ==
    /\ Up /\ pc[l] = "poll" /\ clients[l] > 0
    /\ pc' = [pc EXCEPT ![l] = "check"]
    /\ UNCHANGED <<main, startVars, poolVars, clientVars, redisVars, outcome>>

MainStep ==
    \/ SetConn \/ MysqlInit \/ RedisInit \/ Create \/ LatchWait \/ LoopWait \/ Listen

InitFails == SetConnFails \/ MysqlInitFails \/ RedisInitFails

LoopStep(l) ==
    \/ CountDown(l) \/ Check(l) \/ Wait(l) \/ Pop(l) \/ Use(l) \/ Put(l) \/ Post(l)
    \/ Announce(l)

Next ==
    \/ MainStep \/ InitFails \/ NewConnection
    \/ CountDown(Sync) \/ Copy \/ Replicate
    \/ \E l \in Loops : LoopStep(l) \/ Wake(l)

Spec == Init /\ [][Next]_vars

\* Threads are scheduled and the databases answer; no client has to come, and the
\* semaphores favour nobody.
FairSpec ==
    /\ Spec
    /\ WF_vars(MainStep) /\ WF_vars(CountDown(Sync))
    /\ \A l \in Loops : WF_vars(LoopStep(l))

-----------------------------------------------------------------------------
(* Properties.                                                             *)

Pools == {"mysql", "redis"}
Holders(p) == {l \in Loops : pool[l] = p /\ conn[l] # None}

\* Every variable holds a value of its kind.
TypeOK ==
    /\ main \in {"setConn", "mysqlInit", "redisInit", "startSyn", "syncLatch", "syncSleep",
                 "create", "latch", "latchSleep", "cond", "condSleep", "listen", "loop"}
    /\ pc \in [Threads -> {"none", "created", "copy", "check", "wait", "pop", "use", "put",
                           "post", "announce", "poll"}]
    /\ counted \subseteq Threads /\ running \subseteq Loops
    /\ loops \in Seq(Loops) /\ Len(loops) <= NumLoops
    /\ next \in Nat /\ clients \in [Loops -> Nat]
    /\ pool \in [Loops -> Pools] /\ conn \in [Loops -> Nat]
    /\ free \in [Pools -> Seq(Nat \ {None})] /\ sem \in [Pools -> Nat]
    /\ keys \in SUBSET Servers /\ refused \in BOOLEAN /\ failed \in BOOLEAN
    /\ outcome \in {"up", "exit", "null", "nokeys"}

\* A connection is held by one loop or is once in the list, never both: no two
\* threads speak on the same one.
OneHolder ==
    \A p \in Pools :
        /\ IsInjective(free[p])
        /\ \A l \in Holders(p) : conn[l] \notin ToSet(free[p])
        /\ \A k, l \in Holders(p) : conn[k] = conn[l] => k = l

\* Whoever passed the semaphore finds a connection (front of an empty list is
\* undefined), however many loops are between the semaphore and the lock.
PopFinds ==
    \A p \in Pools :
        Cardinality({l \in Loops : pool[l] = p /\ pc[l] = "pop"}) <= Len(free[p])

\* With as many connections to MySQL as loops, getMysqlConn never returns NULL,
\* although it looks at the size of the list without the lock.
NeverNull == MysqlConns >= NumLoops => outcome # "null"

\* Keys missing in Redis can end the process only while it starts.  Those of the
\* master are missed by the first read of the first loop or not at all, and if there
\* are more loops than connections to the master, those of the replica by the first
\* read of a later loop, but before anybody is served.  An error in the place of a
\* loop's first answer voids both: what it did not ask for it may miss at any time.
KeysMissedEarly ==
    outcome = "nokeys" /\ ~refused =>
        /\ "master" \notin keys => running = {}
        /\ NumLoops > Half => main # "loop"

\* Clients are given to the loops in turn, so that no loop has two more than another,
\* and only to loops that run: startLoop has never handed out a pointer too early, and
\* next_ never leaves loops_.
ClientsInTurn ==
    /\ ToSet(loops) \subseteq running
    /\ main = "loop" => next + 1 \in DOMAIN loops
    /\ \A k, l \in Loops : clients[k] <= clients[l] + 1
    /\ \A l \in Loops : clients[l] > 0 => l \in running

\* start returns, unless the process ends or a thread cannot be created (then
\* startLoop waits for ever).
StartReturns == <>(main = "loop" \/ outcome # "up" \/ failed)

\* Each pool lends its connections (Pool), whatever its semaphore and its unlocked
\* tests do in between.
Held(p) == [l \in Loops |-> IF pool[l] = p THEN conn[l] ELSE None]
Mysql == INSTANCE Pool WITH Users <- Loops, free <- free["mysql"], holds <- Held("mysql"),
                            Fillings <- {[i \in 1 .. MysqlConns |-> i]}
Redis == INSTANCE Pool WITH Users <- Loops, free <- free["redis"], holds <- Held("redis"),
                            Fillings <- {[i \in 1 .. n |-> i] : n \in Half .. RedisConns}
PoolSpecs == Mysql!Spec /\ Redis!Spec

=============================================================================
