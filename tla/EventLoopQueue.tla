---------------------------- MODULE EventLoopQueue ----------------------------
(***************************************************************************)
(* The task queue of an EventLoop: runInLoop/queueInLoop called by other   *)
(* threads and by the loop's own handlers and tasks, the eventfd that      *)
(* wakes the loop out of epoll_wait, doPendingFunctors, and quit.          *)
(*                                                                         *)
(* What happens under mutex_ is one step; between the push and the write   *)
(* to the eventfd any thread may run.  A task is one of a finite set and   *)
(* is given to the loop at most once; this also bounds the eventfd.        *)
(***************************************************************************)
EXTENDS Naturals, Sequences

CONSTANTS Producers,   \* threads other than the loop's
          Tasks,       \* the functors that may be queued
          MayQuit      \* is EventLoop::quit called

ASSUME MayQuitAssumption == MayQuit \in BOOLEAN

Sources == {"wakeup", "io"}   \* the eventfd, and every other descriptor

VARIABLES pendingFunctors,        \* guarded by mutex_
          functors,               \* what is left of doPendingFunctors' vector
          callingPendingFunctors,
          eventfd,                \* the counter of wakeupFd_
          ready,                  \* events of this iteration not handled yet
          loopPc,                 \* "poll", "events", "run" or "stopped"
          quit,
          waking,                 \* the producers between push and wakeup()
          fresh,                  \* tasks not queued so far (history)
          ran                     \* tasks done, in order (history)

vars == <<pendingFunctors, functors, callingPendingFunctors, eventfd, ready,
          loopPc, quit, waking, fresh, ran>>

Init ==
    /\ pendingFunctors = << >>
    /\ functors = << >>
    /\ callingPendingFunctors = FALSE
    /\ eventfd = 0
    /\ ready = {}
    /\ loopPc = "poll"
    /\ quit = FALSE
    /\ waking = {}
    /\ fresh = Tasks
    /\ ran = << >>

-----------------------------------------------------------------------------
(* The other threads.  An operator named Mut... is a plausible bug: the      *)
(* definition after it, gone wrong.                                          *)

\* queueInLoop called by another thread: push under the lock ...
Post(p, t) ==
    /\ p \notin waking
    /\ t \in fresh
    /\ pendingFunctors' = Append(pendingFunctors, t)
    /\ fresh' = fresh \ {t}
    /\ waking' = waking \cup {p}
    /\ UNCHANGED <<functors, callingPendingFunctors, eventfd, ready, loopPc, quit, ran>>

\* (the write is saved when the loop does not sleep)
MutSignal(p) ==
    /\ p \in waking
    /\ waking' = waking \ {p}
    /\ eventfd' = IF loopPc = "poll" THEN eventfd + 1 ELSE eventfd
    /\ UNCHANGED <<pendingFunctors, functors, callingPendingFunctors, ready,
                   loopPc, quit, fresh, ran>>

\* ... then wakeup().
Signal(p) ==
    /\ p \in waking
    /\ waking' = waking \ {p}
    /\ eventfd' = eventfd + 1
    /\ UNCHANGED <<pendingFunctors, functors, callingPendingFunctors, ready,
                   loopPc, quit, fresh, ran>>

\* (quit() without the wakeup)
MutRequestQuit(p) ==
    /\ MayQuit /\ ~quit
    /\ p \notin waking
    /\ quit' = TRUE
    /\ UNCHANGED <<pendingFunctors, functors, callingPendingFunctors, eventfd,
                   ready, loopPc, waking, fresh, ran>>

\* quit() called by another thread: the flag, then wakeup().
RequestQuit(p) ==
    /\ MayQuit /\ ~quit
    /\ p \notin waking
    /\ quit' = TRUE
    /\ waking' = waking \cup {p}
    /\ UNCHANGED <<pendingFunctors, functors, callingPendingFunctors, eventfd,
                   ready, loopPc, fresh, ran>>

-----------------------------------------------------------------------------
(* The loop's thread. *)

\* epoll_wait, without timeout and level triggered: the eventfd is reported as
\* long as its counter is not zero; another descriptor may be ready any time.
Poll(sources) ==
    /\ loopPc = "poll"
    /\ sources # {}
    /\ ("wakeup" \in sources) <=> (eventfd > 0)
    /\ ready' = sources
    /\ loopPc' = "events"
    /\ UNCHANGED <<pendingFunctors, functors, callingPendingFunctors, eventfd,
                   quit, waking, fresh, ran>>

\* EventLoop::handleRead: reading the eventfd sets its counter to zero.
HandleWakeup ==
    /\ loopPc = "events" /\ "wakeup" \in ready
    /\ eventfd' = 0
    /\ ready' = ready \ {"wakeup"}
    /\ UNCHANGED <<pendingFunctors, functors, callingPendingFunctors, loopPc,
                   quit, waking, fresh, ran>>

\* The handler of another descriptor returns.
HandleIO ==
    /\ loopPc = "events" /\ "io" \in ready
    /\ ready' = ready \ {"io"}
    /\ UNCHANGED <<pendingFunctors, functors, callingPendingFunctors, eventfd,
                   loopPc, quit, waking, fresh, ran>>

\* The loop's thread is inside a handler or inside a task.
InCallback ==
    \/ loopPc = "events" /\ "io" \in ready
    \/ loopPc = "run" /\ functors # << >>

\* (only other threads wake the loop)
MutQueueInLoop(t) ==
    /\ InCallback
    /\ t \in fresh
    /\ pendingFunctors' = Append(pendingFunctors, t)
    /\ fresh' = fresh \ {t}
    /\ UNCHANGED <<functors, callingPendingFunctors, eventfd, ready, loopPc,
                   quit, waking, ran>>

\* queueInLoop called by a handler or by a task: only a task, which runs after
\* the swap, needs the eventfd.
QueueInLoop(t) ==
    /\ InCallback
    /\ t \in fresh
    /\ pendingFunctors' = Append(pendingFunctors, t)
    /\ fresh' = fresh \ {t}
    /\ eventfd' = IF callingPendingFunctors THEN eventfd + 1 ELSE eventfd
    /\ UNCHANGED <<functors, callingPendingFunctors, ready, loopPc, quit, waking, ran>>

\* (the vector is copied, not swapped)
MutSwap ==
    /\ loopPc = "events" /\ ready = {}
    /\ callingPendingFunctors' = TRUE
    /\ functors' = pendingFunctors
    /\ loopPc' = "run"
    /\ UNCHANGED <<pendingFunctors, eventfd, ready, quit, waking, fresh, ran>>

\* doPendingFunctors takes everything that is pending, under the lock.
Swap ==
    /\ loopPc = "events" /\ ready = {}
    /\ callingPendingFunctors' = TRUE
    /\ functors' = pendingFunctors
    /\ pendingFunctors' = << >>
    /\ loopPc' = "run"
    /\ UNCHANGED <<eventfd, ready, quit, waking, fresh, ran>>

\* The task doPendingFunctors is at returns.
FunctorDone ==
    /\ loopPc = "run" /\ functors # << >>
    /\ ran' = Append(ran, Head(functors))
    /\ functors' = Tail(functors)
    /\ UNCHANGED <<pendingFunctors, callingPendingFunctors, eventfd, ready,
                   loopPc, quit, waking, fresh>>

\* doPendingFunctors returns; what the iteration still does queues no task
\* for its own loop; then the condition of the while.
EndIteration ==
    /\ loopPc = "run" /\ functors = << >>
    /\ callingPendingFunctors' = FALSE
    /\ loopPc' = IF quit THEN "stopped" ELSE "poll"
    /\ UNCHANGED <<pendingFunctors, functors, eventfd, ready, quit, waking, fresh, ran>>

\* The loop is over; only this keeps a stopped system from being a deadlock.
Stopped ==
    /\ loopPc = "stopped"
    /\ UNCHANGED vars

LoopStep == HandleWakeup \/ HandleIO \/ Swap \/ FunctorDone \/ EndIteration

Next ==
    \/ \E p \in Producers, t \in Tasks : Post(p, t)
    \/ \E p \in Producers : Signal(p) \/ RequestQuit(p)
    \/ \E sources \in SUBSET Sources : Poll(sources)
    \/ \E t \in Tasks : QueueInLoop(t)
    \/ LoopStep
    \/ Stopped

Spec == Init /\ [][Next]_vars

\* The loop's thread is scheduled, epoll_wait returns when the eventfd is
\* readable, and a thread that has pushed a task goes on to wakeup().  Nothing
\* is assumed of the other descriptors.
FairSpec ==
    /\ Spec
    /\ WF_vars(LoopStep)
    /\ WF_vars(eventfd > 0 /\ \E sources \in SUBSET Sources : Poll(sources))
    /\ \A p \in Producers : WF_vars(Signal(p))

-----------------------------------------------------------------------------
(* Properties. *)

\* Every variable holds a value of its kind; the handlers have all returned
\* outside the "events" part of the iteration.
TypeOK ==
    /\ pendingFunctors \in Seq(Tasks)
    /\ functors \in Seq(Tasks)
    /\ callingPendingFunctors \in BOOLEAN
    /\ eventfd \in Nat
    /\ ready \subseteq Sources
    /\ loopPc \in {"poll", "events", "run", "stopped"}
    /\ quit \in BOOLEAN
    /\ waking \subseteq Producers
    /\ fresh \subseteq Tasks
    /\ ran \in Seq(Tasks)
    /\ loopPc # "events" => ready = {}

\* The loop never goes to sleep on work: while it is in epoll_wait, or about
\* to be, a pending task or a request to quit means that the eventfd is
\* readable or that a thread is on its way to write it.  (The condition of
\* queueInLoop, EventLoop.cpp:126, is there for this.)
WakeupComing == eventfd > 0 \/ waking # {}
TaskWakes == loopPc \in {"poll", "run"} /\ pendingFunctors # << >> => WakeupComing
QuitWakes == loopPc = "poll" /\ quit => WakeupComing
NoLostWakeup == TaskWakes /\ QuitWakes

\* Every task given to the loop is run, whoever gave it and whenever, unless
\* the loop is told to quit (which nobody is obliged to do).
Queued(t) == t \notin fresh
Done(t) == \E i \in DOMAIN ran : ran[i] = t
EveryTaskRuns == \A t \in Tasks : Queued(t) ~> (Done(t) \/ quit)

\* A loop that is told to quit ends.
QuitStops == quit ~> (loopPc = "stopped")

\* The loop runs the tasks in order, each once (Mailbox).
Box == INSTANCE Mailbox WITH queue <- functors \o pendingFunctors, ran <- ran
MailboxSpec == Box!Spec
=============================================================================
