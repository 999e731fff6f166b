------------------------- MODULE ConnectionLifecycle -------------------------
(***************************************************************************)
(* The life of a TcpConn across threads: accepted by the main loop, handed *)
(* to an I/O loop, watched by that loop's epoll and time wheel, closed on  *)
(* a hang-up or when its timer entry expires, erased by the main loop and  *)
(* destroyed by the I/O loop.                                              *)
(*                                                                         *)
(* The loops exchange tasks through EventLoop::runInLoop; how a task gets  *)
(* there is the matter of EventLoopQueue, here a task is pushed and the    *)
(* eventfd written in one step.  The TcpConn itself is kept alive by       *)
(* shared_ptrs only (the map's, and those bound in tasks), while its       *)
(* callbacks hold a raw "this"; Alive says when it exists.                 *)
(*                                                                         *)
(* Left out: writing the reply (a read that brings data answers it at      *)
(* once), accept() failing, and file descriptor numbers.                   *)
(***************************************************************************)
EXTENDS Integers, Sequences

CONSTANTS Conns,       \* the connections clients may open
          NumLoops,    \* I/O loops
          WheelSize,   \* buckets of a TimeWheel (11 in EventLoop's constructor)
          QueueBound   \* bound: no hang-up or expiry is handled while the main
                       \* loop has this many tasks pending

ASSUME NumLoopsAssumption == NumLoops \in Nat \ {0}
ASSUME WheelAssumption == WheelSize \in Nat \ {0}
ASSUME QueueAssumption == QueueBound \in Nat \ {0}

Main == -1                      \* order of the loop of main()
IOLoops == 0 .. (NumLoops - 1)
Loops == {Main} \cup IOLoops

Tasks == {"established", "destroyed", "remove"} \X Conns
WakeupEvent == <<"loop", "wakeup">>
AcceptEvent == <<"loop", "accept">>
ConnEvents == Conns \X {"in", "hup"}
Events == {WakeupEvent, AcceptEvent} \cup ConnEvents

VARIABLES
    (* the clients and the kernel *)
    peer,       \* "none", "open", "fin" or "rst": what the client last did
    unread,     \* data the server has not read
    sockError,  \* a reset no read has reported yet
    backlog,    \* connections waiting for accept()
    watched,    \* epoll's interest: "no", "none" (only hang-ups) or "in"
    (* the server's objects *)
    loopOf,     \* TcpConn::loop_, or Main before the TcpConn exists
    state,      \* TcpConn::state_, or "absent"
    connectionMap,
    nextLoop,   \* EventLoopThreadPool::next_
    wheel,      \* TimeManager's wheel of each I/O loop, oldest bucket first
    expiring,   \* entries of the bucket being overwritten, not destroyed yet
    silence,    \* turns of the wheel a connection with an entry has not been
                \* heard of (history)
    (* the loops *)
    pc,         \* "poll", "events", "run", "click" or "expire"
    ready,      \* events of this iteration not handled yet
    eventfd,    \* is the loop's eventfd readable
    pending,    \* pendingFunctors_
    functors,   \* the vector doPendingFunctors runs ...
    nextFunctor \* ... and how far it is (it is destroyed as a whole)

clientVars == <<peer, unread, sockError, backlog>>
connVars == <<loopOf, state, connectionMap, nextLoop>>
wheelVars == <<wheel, expiring, silence>>
queueVars == <<eventfd, pending>>
batchVars == <<functors, nextFunctor>>
vars == <<peer, unread, sockError, backlog, watched, loopOf, state,
          connectionMap, nextLoop, wheelVars, pc, ready, eventfd,
          pending, functors, nextFunctor>>

Init ==
    /\ peer = [c \in Conns |-> "none"]
    /\ unread = [c \in Conns |-> FALSE]
    /\ sockError = [c \in Conns |-> FALSE]
    /\ backlog = {}
    /\ watched = [c \in Conns |-> "no"]
    /\ loopOf = [c \in Conns |-> Main]
    /\ state = [c \in Conns |-> "absent"]
    /\ connectionMap = {}
    /\ nextLoop = 0
    /\ wheel = [l \in IOLoops |-> [i \in 1 .. WheelSize |-> {}]]
    /\ expiring = [l \in IOLoops |-> {}]
    /\ silence = [c \in Conns |-> 0]
    /\ pc = [l \in Loops |-> "poll"]
    /\ ready = [l \in Loops |-> {}]
    /\ eventfd = [l \in Loops |-> FALSE]
    /\ pending = [l \in Loops |-> << >>]
    /\ functors = [l \in Loops |-> << >>]
    /\ nextFunctor = [l \in Loops |-> 1]

-----------------------------------------------------------------------------
(* Operators. *)

InQueue(q, c) == \E i \in DOMAIN q : q[i][2] = c

\* Somebody holds a shared_ptr to the TcpConn: the map, or a task that is
\* pending or belongs to a vector doPendingFunctors has not destroyed.
Alive(c) ==
    \/ c \in connectionMap
    \/ \E l \in Loops : InQueue(pending[l], c) \/ InQueue(functors[l], c)

\* The client's side of a connection exists and the server has not closed it.
Usable(c) == peer[c] # "none" /\ (state[c] = "absent" \/ Alive(c))

\* The Entry of the connection is still in its wheel, so that the weak_ptr
\* TcpConn::addTimer locks is not expired.
EntryAlive(c) ==
    /\ loopOf[c] \in IOLoops
    /\ \E i \in 1 .. WheelSize : c \in wheel[loopOf[c]][i]

\* queueInLoop from another thread: push, then write the eventfd.
Post(l, task) ==
    /\ pending' = [pending EXCEPT ![l] = Append(@, task)]
    /\ eventfd' = [eventfd EXCEPT ![l] = TRUE]

\* What epoll_wait reports of a connection: input, end of file and error only
\* if the channel asks for input; a hang-up always.  Channel::handleEvent looks
\* at the hang-up only when there is no input.
Reported(c) ==
    IF watched[c] = "in" /\ (unread[c] \/ peer[c] \in {"fin", "rst"})
    THEN {<<c, "in">>}
    ELSE IF watched[c] # "no" /\ peer[c] = "rst" THEN {<<c, "hup">>} ELSE {}

EventsOf(l) ==
    (IF eventfd[l] THEN {WakeupEvent} ELSE {})
    \cup (IF l = Main THEN (IF backlog # {} THEN {AcceptEvent} ELSE {})
          ELSE UNION {Reported(c) : c \in {d \in Conns : loopOf[d] = l}})

\* The task loop l is about to run.
Running(l) == pc[l] = "run" /\ nextFunctor[l] <= Len(functors[l])
Current(l) == functors[l][nextFunctor[l]]

-----------------------------------------------------------------------------
(* The clients. *)

Connect(c) ==
    /\ peer[c] = "none"
    /\ peer' = [peer EXCEPT ![c] = "open"]
    /\ backlog' = backlog \cup {c}
    /\ UNCHANGED <<unread, sockError, watched, connVars, wheelVars, pc, ready,
                   queueVars, batchVars>>

Send(c) ==
    /\ Usable(c) /\ peer[c] = "open"
    /\ ~unread[c]
    /\ unread' = [unread EXCEPT ![c] = TRUE]
    /\ UNCHANGED <<peer, sockError, backlog, watched, connVars, wheelVars, pc,
                   ready, queueVars, batchVars>>

HalfClose(c) ==
    /\ Usable(c) /\ peer[c] = "open"
    /\ peer' = [peer EXCEPT ![c] = "fin"]
    /\ UNCHANGED <<unread, sockError, backlog, watched, connVars, wheelVars, pc,
                   ready, queueVars, batchVars>>

Reset(c) ==
    /\ Usable(c) /\ peer[c] \in {"open", "fin"}
    /\ peer' = [peer EXCEPT ![c] = "rst"]
    /\ sockError' = [sockError EXCEPT ![c] = TRUE]
    /\ UNCHANGED <<unread, backlog, watched, connVars, wheelVars, pc, ready,
                   queueVars, batchVars>>
-----------------------------------------------------------------------------
(* One iteration of EventLoop::loop.  An operator named Mut... is a          *)
(* plausible bug: the definition after it, gone wrong.                       *)

\* epoll_wait returns everything that is ready; it has no timeout.
Poll(l) ==
    /\ pc[l] = "poll"
    /\ EventsOf(l) # {}
    /\ ready' = [ready EXCEPT ![l] = EventsOf(l)]
    /\ pc' = [pc EXCEPT ![l] = "events"]
    /\ UNCHANGED <<clientVars, watched, connVars, wheelVars, queueVars, batchVars>>

\* One event of the iteration is handled.
Take(l, event) ==
    /\ pc[l] = "events"
    /\ event \in ready[l]
    /\ ready' = [ready EXCEPT ![l] = @ \ {event}]

\* EventLoop::handleRead
HandleWakeup(l) ==
    /\ Take(l, WakeupEvent)
    /\ eventfd' = [eventfd EXCEPT ![l] = FALSE]
    /\ UNCHANGED <<clientVars, watched, connVars, wheelVars, pc, pending, batchVars>>

\* Acceptor::handleRead and TcpServer::newConnection: one connection for each
\* event; the I/O loops take turns.
HandleAccept(c) ==
    /\ Take(Main, AcceptEvent)
    /\ c \in backlog
    /\ backlog' = backlog \ {c}
    /\ loopOf' = [loopOf EXCEPT ![c] = nextLoop]
    /\ nextLoop' = (nextLoop + 1) % NumLoops
    /\ state' = [state EXCEPT ![c] = "new"]
    /\ connectionMap' = connectionMap \cup {c}
    /\ Post(nextLoop, <<"established", c>>)
    /\ UNCHANGED <<peer, unread, sockError, watched, wheelVars, pc, batchVars>>

\* TcpConn::addTimer: the entry, if it still exists, goes into the newest
\* bucket, and stays in the older ones it is in.
Rearmed(c) ==
    IF EntryAlive(c)
    THEN [wheel EXCEPT ![loopOf[c]][WheelSize] = @ \cup {c}]
    ELSE wheel

\* TcpConn::handleRead: data is handed to onMessage, which re-arms the timer; an
\* error is ignored; at the end of the stream the channel is disabled.
HandleRead(l, c) ==
    /\ Take(l, <<c, "in">>)
    /\ \/ /\ unread[c]
          /\ unread' = [unread EXCEPT ![c] = FALSE]
          /\ wheel' = Rearmed(c)
          /\ silence' = [silence EXCEPT ![c] = IF EntryAlive(c) THEN 0 ELSE @]
          /\ UNCHANGED <<sockError, watched>>
       \/ /\ ~unread[c] /\ sockError[c]
          /\ sockError' = [sockError EXCEPT ![c] = FALSE]
          /\ UNCHANGED <<unread, wheel, silence, watched>>
       \/ /\ ~unread[c] /\ ~sockError[c]
          /\ watched' = [watched EXCEPT ![c] = "none"]
          /\ UNCHANGED <<unread, sockError, wheel, silence>>
    /\ UNCHANGED <<peer, backlog, connVars, expiring, pc, queueVars, batchVars>>

\* TcpConn::handleClose: the main loop is told to remove the connection.  The
\* hang-up is reported again in every iteration until the channel is removed.
HandleClose(l, c) ==
    /\ Take(l, <<c, "hup">>)
    /\ Len(pending[Main]) < QueueBound
    /\ Post(Main, <<"remove", c>>)
    /\ UNCHANGED <<clientVars, watched, connVars, wheelVars, pc, batchVars>>

\* doPendingFunctors takes what is pending ...
Swap(l) ==
    /\ pc[l] = "events" /\ ready[l] = {}
    /\ functors' = [functors EXCEPT ![l] = pending[l]]
    /\ pending' = [pending EXCEPT ![l] = << >>]
    /\ nextFunctor' = [nextFunctor EXCEPT ![l] = 1]
    /\ pc' = [pc EXCEPT ![l] = "run"]
    /\ UNCHANGED <<clientVars, watched, connVars, wheelVars, ready, eventfd>>

\* ... and runs it in order.
RunTask(l, kind, c) ==
    /\ Running(l)
    /\ Current(l) = <<kind, c>>
    /\ nextFunctor' = [nextFunctor EXCEPT ![l] = @ + 1]

\* TcpConn::connectEstablished; onConnection makes the entry of the time wheel.
ConnectEstablished(l, c) ==
    /\ RunTask(l, "established", c)
    /\ state' = [state EXCEPT ![c] = "connected"]
    /\ wheel' = [wheel EXCEPT ![l][WheelSize] = @ \cup {c}]
    /\ silence' = [silence EXCEPT ![c] = 0]
    /\ watched' = [watched EXCEPT ![c] = "in"]
    /\ UNCHANGED <<clientVars, loopOf, connectionMap, nextLoop, expiring, pc,
                   ready, queueVars, functors>>

\* (the channel stays in epoll)
MutConnectDestroyed(l, c) ==
    /\ RunTask(l, "destroyed", c)
    /\ state' = [state EXCEPT ![c] = "disconnected"]
    /\ UNCHANGED <<clientVars, watched, loopOf, connectionMap, nextLoop, wheelVars,
                   pc, ready, queueVars, functors>>

\* TcpConn::connectDestroyed; what its assert demands is a property below.
ConnectDestroyed(l, c) ==
    /\ RunTask(l, "destroyed", c)
    /\ state' = [state EXCEPT ![c] = "disconnected"]
    /\ watched' = [watched EXCEPT ![c] = "no"]
    /\ UNCHANGED <<clientVars, loopOf, connectionMap, nextLoop, wheelVars, pc,
                   ready, queueVars, functors>>

\* (the result of erase is not looked at)
MutRemoveTwice(c) ==
    /\ RunTask(Main, "remove", c)
    /\ connectionMap' = connectionMap \ {c}
    /\ Post(loopOf[c], <<"destroyed", c>>)
    /\ UNCHANGED <<clientVars, watched, loopOf, state, nextLoop, wheelVars, pc,
                   ready, functors>>

\* (the connection is only dropped from the map)
MutRemoveOnly(c) ==
    /\ RunTask(Main, "remove", c)
    /\ connectionMap' = connectionMap \ {c}
    /\ UNCHANGED <<clientVars, watched, loopOf, state, nextLoop, wheelVars, pc,
                   ready, queueVars, functors>>

\* TcpServer::removeConnectionInLoop: a connection that is not in the map any
\* more was removed by an earlier task.
RemoveConnectionInLoop(c) ==
    /\ RunTask(Main, "remove", c)
    /\ connectionMap' = connectionMap \ {c}
    /\ \/ c \in connectionMap /\ Post(loopOf[c], <<"destroyed", c>>)
       \/ c \notin connectionMap /\ UNCHANGED queueVars
    /\ UNCHANGED <<clientVars, watched, loopOf, state, nextLoop, wheelVars, pc,
                   ready, functors>>

\* The vector of tasks is destroyed; an I/O loop goes on to its time wheel.
EndFunctors(l) ==
    /\ pc[l] = "run" /\ ~Running(l)
    /\ functors' = [functors EXCEPT ![l] = << >>]
    /\ nextFunctor' = [nextFunctor EXCEPT ![l] = 1]
    /\ pc' = [pc EXCEPT ![l] = IF l = Main THEN "poll" ELSE "click"]
    /\ UNCHANGED <<clientVars, watched, connVars, wheelVars, ready, queueVars>>

\* The loop's connections have been silent for one more turn.
Aged(l) == [c \in Conns |-> IF loopOf[c] = l /\ EntryAlive(c)
                            THEN silence[c] + 1 ELSE silence[c]]

\* (who is in the bucket expires, though a message has re-armed the timer since)
MutClickAll(l) ==
    /\ pc[l] = "click"
    /\ wheel' = [wheel EXCEPT ![l] = Append(Tail(@), {})]
    /\ expiring' = [expiring EXCEPT ![l] = wheel[l][1]]
    /\ silence' = Aged(l)
    /\ pc' = [pc EXCEPT ![l] = "expire"]
    /\ UNCHANGED <<clientVars, watched, connVars, ready, queueVars, batchVars>>

\* TimeManager::click, once in every iteration: an empty bucket is pushed and
\* overwrites the oldest; entries no other bucket holds are destroyed.
Click(l) ==
    /\ pc[l] = "click"
    /\ wheel' = [wheel EXCEPT ![l] = Append(Tail(@), {})]
    /\ expiring' = [expiring EXCEPT ![l] =
            {c \in wheel[l][1] : \A i \in 2 .. WheelSize : c \notin wheel[l][i]}]
    /\ silence' = Aged(l)
    /\ pc' = [pc EXCEPT ![l] = "expire"]
    /\ UNCHANGED <<clientVars, watched, connVars, ready, queueVars, batchVars>>

\* (the destructor forgets to close)
MutExpire(l, c) ==
    /\ pc[l] = "expire" /\ c \in expiring[l]
    /\ expiring' = [expiring EXCEPT ![l] = @ \ {c}]
    /\ UNCHANGED <<clientVars, watched, connVars, wheel, silence, pc, ready, queueVars,
                   batchVars>>

\* Entry::~Entry: if the TcpConn still exists it is closed.
Expire(l, c) ==
    /\ pc[l] = "expire" /\ c \in expiring[l]
    /\ expiring' = [expiring EXCEPT ![l] = @ \ {c}]
    /\ \/ Alive(c) /\ Len(pending[Main]) < QueueBound /\ Post(Main, <<"remove", c>>)
       \/ ~Alive(c) /\ UNCHANGED queueVars
    /\ UNCHANGED <<clientVars, watched, connVars, wheel, silence, pc, ready, batchVars>>

EndIteration(l) ==
    /\ pc[l] = "expire" /\ expiring[l] = {}
    /\ pc' = [pc EXCEPT ![l] = "poll"]
    /\ UNCHANGED <<clientVars, watched, connVars, wheelVars, ready, queueVars,
                   batchVars>>

-----------------------------------------------------------------------------
LoopStep(l) == Poll(l) \/ HandleWakeup(l) \/ Swap(l) \/ EndFunctors(l)

MainStep ==
    \/ LoopStep(Main)
    \/ \E c \in Conns : HandleAccept(c) \/ RemoveConnectionInLoop(c)

IOStep(l) ==
    \/ LoopStep(l)
    \/ Click(l)
    \/ EndIteration(l)
    \/ \E c \in Conns :
          \/ HandleRead(l, c)
          \/ HandleClose(l, c)
          \/ ConnectEstablished(l, c)
          \/ ConnectDestroyed(l, c)
          \/ Expire(l, c)

ClientStep(c) == Connect(c) \/ Send(c) \/ HalfClose(c) \/ Reset(c)

Next ==
    \/ MainStep
    \/ \E l \in IOLoops : IOStep(l)
    \/ \E c \in Conns : ClientStep(c)

Spec == Init /\ [][Next]_vars

\* Every thread is scheduled; a client need not do anything.
FairSpec == Spec /\ WF_vars(MainStep) /\ \A l \in IOLoops : WF_vars(IOStep(l))

-----------------------------------------------------------------------------
(* Properties. *)

\* Every variable holds a value of its kind, the wheels keep their size, and a
\* loop has events, tasks or expiring entries only in their part of the
\* iteration.
TypeOK ==
    /\ peer \in [Conns -> {"none", "open", "fin", "rst"}]
    /\ unread \in [Conns -> BOOLEAN] /\ sockError \in [Conns -> BOOLEAN]
    /\ backlog \subseteq Conns /\ connectionMap \subseteq Conns
    /\ watched \in [Conns -> {"no", "none", "in"}]
    /\ loopOf \in [Conns -> Loops]
    /\ state \in [Conns -> {"absent", "new", "connected", "disconnected"}]
    /\ nextLoop \in IOLoops
    /\ wheel \in [IOLoops -> [1 .. WheelSize -> SUBSET Conns]]
    /\ expiring \in [IOLoops -> SUBSET Conns] /\ silence \in [Conns -> Nat]
    /\ pc \in [Loops -> {"poll", "events", "run", "click", "expire"}]
    /\ ready \in [Loops -> SUBSET Events]
    /\ eventfd \in [Loops -> BOOLEAN]
    /\ pending \in [Loops -> Seq(Tasks)] /\ functors \in [Loops -> Seq(Tasks)]
    /\ nextFunctor \in [Loops -> Nat \ {0}]
    /\ \A l \in Loops :
          /\ ready[l] # {} => pc[l] = "events"
          /\ functors[l] # << >> => pc[l] = "run"
    /\ \A l \in IOLoops : expiring[l] # {} => pc[l] = "expire"

\* A channel calls its TcpConn through a raw pointer.  Whenever epoll watches
\* the channel, or an event of it waits to be handled, the TcpConn exists, so
\* no callback ever runs on a destroyed one.
CallbacksSafe ==
    \A c \in Conns :
        /\ watched[c] # "no" => Alive(c)
        /\ \A l \in Loops : <<c, "in">> \in ready[l] \/ <<c, "hup">> \in ready[l] =>
              Alive(c) /\ watched[c] # "no" /\ l = loopOf[c]

\* The assert of TcpConn::connectDestroyed: when the task runs, the connection
\* is connected; it is never destroyed twice, however often it hangs up and
\* expires in the meantime, and never before it was established.
DestroyAssert ==
    \A l \in Loops, c \in Conns :
        Running(l) /\ Current(l) = <<"destroyed", c>> => state[c] = "connected"

\* The assert of TcpConn::~TcpConn: the last shared_ptr goes away only after
\* connectDestroyed has run.
DestructorAssert ==
    [][\A c \in Conns : Alive(c) /\ ~Alive(c)' => state'[c] = "disconnected"]_vars

\* No connection escapes its timer: while a connection is up, its entry is in
\* the wheel or a task to remove it is on its way.
Removing(c) ==
    \/ \E i \in DOMAIN pending[Main] : pending[Main][i] = <<"remove", c>>
    \/ \E i \in DOMAIN functors[Main] : functors[Main][i] = <<"remove", c>>
    \/ \E l \in IOLoops : c \in expiring[l]
TimerArmed ==
    \A c \in connectionMap : state[c] = "connected" => EntryAlive(c) \/ Removing(c)

\* The timer is exact: the entry of a served client is in the wheel just until it was
\* silent for all the turns of the wheel, however often it was re-armed, and from then
\* on its removal is on its way.
TimerExact ==
    \A c \in connectionMap : state[c] = "connected" =>
        /\ EntryAlive(c) <=> silence[c] < WheelSize
        /\ silence[c] >= WheelSize => Removing(c)

\* A client that resets its connection is forgotten: the hang-up, or the timer
\* it keeps turning, gets the connection removed and destroyed.
ResetsAreCollected ==
    \A c \in Conns : (peer[c] = "rst") ~> (state[c] = "disconnected" /\ ~Alive(c))

\* Only a silent client is timed out: one that was heard of in this iteration of
\* its loop or in the WheelSize - 1 before ("the heartbeats are one less than the
\* number set", EventLoop.cpp:29) is not closed by its timer, however many older
\* buckets it was in.
OnlySilentExpire ==
    \A l \in IOLoops : \A c \in expiring[l] : silence[c] = WheelSize

\* What the server promises its clients (Service): every step of the loops takes a
\* connection one stage on, or the wheel one turn, or changes none of this; nobody is
\* left without a reset of his own or a full turn of the wheel in silence, and the
\* last shared_ptr goes away after connectDestroyed.
Stage(c) ==
    IF state[c] = "absent" THEN "away"
    ELSE IF ~Alive(c) THEN "gone"
    ELSE IF state[c] = "new" THEN "accepted"
    ELSE IF state[c] = "disconnected" THEN "down"
    ELSE IF c \in connectionMap THEN "served" ELSE "leaving"
Promise == INSTANCE Service WITH Patience <- WheelSize, stage <- [c \in Conns |-> Stage(c)]
ServiceSpec == Promise!Spec
===============================================================================
