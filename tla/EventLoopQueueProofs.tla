------------------------- MODULE EventLoopQueueProofs -------------------------
(***************************************************************************)
(* Proofs about EventLoopQueue, for any set of producers and of tasks.     *)
(***************************************************************************)
EXTENDS EventLoopQueue, TLAPS

\* Every step of the loop and of the other threads keeps the types.
LEMMA TypeStep == TypeOK /\ [Next]_vars => TypeOK'
<1> SUFFICES ASSUME TypeOK, [Next]_vars
             PROVE  TypeOK'
  OBVIOUS
<1> USE DEF TypeOK, Sources
<1>1. CASE UNCHANGED vars \/ Stopped
  BY <1>1 DEF vars, Stopped
<1>2. ASSUME NEW p \in Producers, NEW t \in Tasks, Post(p, t)
      PROVE  TypeOK'
  BY <1>2 DEF Post
<1>3. ASSUME NEW p \in Producers, Signal(p) \/ RequestQuit(p)
      PROVE  TypeOK'
  <2>1. CASE Signal(p)
    BY <2>1 DEF Signal
  <2>2. CASE RequestQuit(p)
    BY <2>2 DEF RequestQuit
  <2> QED
    BY <1>3, <2>1, <2>2
<1>4. ASSUME NEW sources \in SUBSET Sources, Poll(sources)
      PROVE  TypeOK'
  BY <1>4 DEF Poll
<1>5. ASSUME NEW t \in Tasks, QueueInLoop(t)
      PROVE  TypeOK'
  BY <1>5 DEF QueueInLoop
<1>6. CASE HandleWakeup \/ HandleIO
  <2>1. CASE HandleWakeup
    BY <2>1 DEF HandleWakeup
  <2>2. CASE HandleIO
    BY <2>2 DEF HandleIO
  <2> QED
    BY <1>6, <2>1, <2>2
<1>7. CASE Swap
  BY <1>7 DEF Swap
<1>8. CASE FunctorDone
  <2>1. Head(functors) \in Tasks /\ Tail(functors) \in Seq(Tasks)
    BY <1>8 DEF FunctorDone
  <2> QED
    BY <1>8, <2>1 DEF FunctorDone
<1>9. CASE EndIteration
  BY <1>9 DEF EndIteration
<1> QED
  BY <1>1, <1>2, <1>3, <1>4, <1>5, <1>6, <1>7, <1>8, <1>9 DEF Next, LoopStep

\* Type correctness of the queue.
THEOREM TypeCorrect == Spec => []TypeOK
<1>1. Init => TypeOK
  <2> SUFFICES ASSUME Init
               PROVE  TypeOK
    OBVIOUS
  <2>1. << >> \in Seq(Tasks)
    OBVIOUS
  <2>2. callingPendingFunctors \in BOOLEAN /\ quit \in BOOLEAN
    BY DEF Init
  <2> QED
    BY <2>1, <2>2 DEF Init, TypeOK
<1> QED
  BY <1>1, TypeStep, PTL DEF Spec

-----------------------------------------------------------------------------
(* The loop never goes to sleep on work.  NoLostWakeup is inductive because  *)
(* it speaks of the loop that runs tasks as well as of the one that sleeps.  *)

\* The flag queueInLoop tests says whether the loop runs tasks.
CallingInRun == callingPendingFunctors <=> loopPc = "run"

LEMMA CallingStep == CallingInRun /\ [Next]_vars => CallingInRun'
<1> SUFFICES ASSUME CallingInRun, [Next]_vars
             PROVE  CallingInRun'
  OBVIOUS
<1>1. CASE UNCHANGED <<callingPendingFunctors, loopPc>>
  BY <1>1, Zenon DEF CallingInRun
<1>2. ASSUME NEW sources \in SUBSET Sources, Poll(sources)
      PROVE  CallingInRun'
  <2>1. loopPc = "poll" /\ loopPc' = "events"
        /\ callingPendingFunctors' = callingPendingFunctors
    BY <1>2 DEF Poll
  <2> QED
    BY <2>1 DEF CallingInRun
<1>3. CASE Swap
  BY <1>3 DEF Swap, CallingInRun
<1>4. CASE EndIteration
  <2>1. callingPendingFunctors' = FALSE /\ loopPc' \in {"stopped", "poll"}
    BY <1>4 DEF EndIteration
  <2> QED
    BY <2>1 DEF CallingInRun
<1> QED
  BY <1>1, <1>2, <1>3, <1>4, Zenon
     DEF Next, vars, LoopStep, Post, Signal, RequestQuit, HandleWakeup, HandleIO,
         QueueInLoop, FunctorDone, Stopped

\* A write to the eventfd that is due, or done and not read, stays so until
\* the loop handles it; a task queued by a task brings its own write.
LEMMA TaskWakesStep == TypeOK /\ CallingInRun /\ TaskWakes /\ [Next]_vars => TaskWakes'
<1> SUFFICES ASSUME TypeOK, CallingInRun, TaskWakes, [Next]_vars
             PROVE  TaskWakes'
  OBVIOUS
<1> USE DEF TaskWakes, WakeupComing
<1>1. CASE UNCHANGED <<pendingFunctors, loopPc, eventfd, waking>>
  BY <1>1
<1>2. ASSUME NEW p \in Producers, NEW t \in Tasks, Post(p, t)
      PROVE  TaskWakes'
  BY <1>2 DEF Post
<1>3. ASSUME NEW p \in Producers, Signal(p)
      PROVE  TaskWakes'
  BY <1>3 DEF Signal, TypeOK
<1>4. ASSUME NEW p \in Producers, RequestQuit(p)
      PROVE  TaskWakes'
  <2>1. UNCHANGED <<pendingFunctors, loopPc, eventfd>> /\ waking' = waking \cup {p}
    BY <1>4 DEF RequestQuit
  <2> QED
    BY <2>1
<1>5. ASSUME NEW sources \in SUBSET Sources, Poll(sources)
      PROVE  TaskWakes'
  BY <1>5 DEF Poll
<1>6. ASSUME NEW t \in Tasks, QueueInLoop(t)
      PROVE  TaskWakes'
  <2>1. CASE loopPc = "events"
    BY <1>6, <2>1 DEF QueueInLoop
  <2>2. CASE loopPc = "run"
    <3>1. callingPendingFunctors
      BY <2>2 DEF CallingInRun
    <3>2. eventfd' = eventfd + 1
      BY <1>6, <3>1, Zenon DEF QueueInLoop
    <3> QED
      BY <3>2 DEF TypeOK
  <2> QED
    BY <1>6, <2>1, <2>2 DEF QueueInLoop, InCallback
<1>7. CASE HandleWakeup
  BY <1>7 DEF HandleWakeup
<1>8. CASE Swap
  BY <1>8 DEF Swap
<1>9. CASE EndIteration
  BY <1>9 DEF EndIteration
<1> QED
  BY <1>1, <1>2, <1>3, <1>4, <1>5, <1>6, <1>7, <1>8, <1>9
     DEF Next, vars, LoopStep, HandleIO, FunctorDone, Stopped

LEMMA QuitWakesStep == TypeOK /\ QuitWakes /\ [Next]_vars => QuitWakes'
<1> SUFFICES ASSUME TypeOK, QuitWakes, [Next]_vars
             PROVE  QuitWakes'
  OBVIOUS
<1> USE DEF QuitWakes, WakeupComing
<1>1. CASE UNCHANGED <<quit, loopPc, eventfd, waking>>
  BY <1>1, Zenon
<1>2. CASE loopPc' # "poll"
  BY <1>2, Zenon
<1>3. CASE eventfd' = eventfd + 1
  <2>1. eventfd' > 0
    BY <1>3 DEF TypeOK
  <2> QED
    BY <2>1, Zenon
<1>4. CASE waking' # {}
  BY <1>4, Zenon
<1>5. CASE HandleWakeup \/ Swap \/ HandleIO
  BY <1>2, <1>5 DEF HandleWakeup, Swap, HandleIO
<1>6. CASE EndIteration
  <2>1. CASE quit
    <3>1. loopPc' # "poll"
      BY <1>6, <2>1, Zenon DEF EndIteration
    <3> QED
      BY <1>2, <3>1
  <2>2. CASE ~quit
    <3>1. quit' = quit
      BY <1>6, Zenon DEF EndIteration
    <3> QED
      BY <2>2, <3>1, Zenon
  <2> QED
    BY <2>1, <2>2
<1>7. ASSUME NEW t \in Tasks, QueueInLoop(t)
      PROVE  QuitWakes'
  <2>1. UNCHANGED <<quit, loopPc, waking>>
    BY <1>7, Zenon DEF QueueInLoop
  <2>2. eventfd' = eventfd \/ eventfd' = eventfd + 1
    BY <1>7, Zenon DEF QueueInLoop
  <2> QED
    BY <1>1, <1>3, <2>1, <2>2, Zenon
<1>8. ASSUME NEW p \in Producers, NEW t \in Tasks, Post(p, t)
      PROVE  QuitWakes'
  BY <1>4, <1>8 DEF Post
<1>9. ASSUME NEW p \in Producers, Signal(p)
      PROVE  QuitWakes'
  BY <1>3, <1>9, Zenon DEF Signal
<1>10. ASSUME NEW p \in Producers, RequestQuit(p)
       PROVE  QuitWakes'
  <2>1. waking' = waking \cup {p}
    BY <1>10, Zenon DEF RequestQuit
  <2>2. waking' # {}
    BY <2>1
  <2> QED
    BY <1>4, <2>2
<1>11. ASSUME NEW sources \in SUBSET Sources, Poll(sources)
       PROVE  QuitWakes'
  BY <1>2, <1>11 DEF Poll
<1>12. CASE FunctorDone \/ Stopped
  BY <1>1, <1>12, Zenon DEF FunctorDone, Stopped, vars
<1>13. CASE UNCHANGED vars
  BY <1>1, <1>13, Zenon DEF vars
<1> QED
  BY <1>5, <1>6, <1>7, <1>8, <1>9, <1>10, <1>11, <1>12, <1>13 DEF Next, LoopStep

\* No wakeup is lost: a loop in epoll_wait with a task pending, or told to
\* quit, is about to be woken.
THEOREM WakeupNeverLost == Spec => []NoLostWakeup
<1>1. Init => CallingInRun /\ TaskWakes /\ QuitWakes
  BY DEF Init, CallingInRun, TaskWakes, QuitWakes
<1>2. TaskWakes /\ QuitWakes => NoLostWakeup
  BY DEF NoLostWakeup
<1> QED
  BY <1>1, <1>2, TypeCorrect, CallingStep, TaskWakesStep, QuitWakesStep, PTL DEF Spec

-----------------------------------------------------------------------------
(* The loop implements the mailbox. *)

\* Tasks that are queued or done are not fresh, and between iterations the
\* vector of doPendingFunctors is empty.
BoxInv ==
    /\ \A i \in DOMAIN pendingFunctors : pendingFunctors[i] \notin fresh
    /\ \A i \in DOMAIN functors : functors[i] \notin fresh
    /\ \A i \in DOMAIN ran : ran[i] \notin fresh
    /\ functors # << >> => loopPc = "run"

\* How appending and taking the head go through a concatenation.
LEMMA ConcatAppend ==
    ASSUME NEW s \in Seq(Tasks), NEW r \in Seq(Tasks), NEW t \in Tasks
    PROVE  s \o Append(r, t) = Append(s \o r, t)
OBVIOUS

LEMMA ConcatHead ==
    ASSUME NEW s \in Seq(Tasks), NEW r \in Seq(Tasks), s # << >>
    PROVE  /\ s \o r # << >>
           /\ Head(s \o r) = Head(s)
           /\ Tail(s \o r) = Tail(s) \o r
OBVIOUS

LEMMA ConcatEmpty ==
    ASSUME NEW s \in Seq(Tasks)
    PROVE  << >> \o s = s /\ s \o << >> = s
OBVIOUS

\* A task leaves "fresh" when it is queued and is only moved from there on.
LEMMA BoxInvStep == TypeOK /\ BoxInv /\ [Next]_vars => BoxInv'
<1> SUFFICES ASSUME TypeOK, BoxInv, [Next]_vars
             PROVE  BoxInv'
  OBVIOUS
<1>1. CASE UNCHANGED <<pendingFunctors, functors, fresh, ran, loopPc>>
  BY <1>1 DEF BoxInv
<1>2. ASSUME NEW t \in Tasks, t \in fresh,
             pendingFunctors' = Append(pendingFunctors, t), fresh' = fresh \ {t},
             UNCHANGED <<functors, ran, loopPc>>
      PROVE  BoxInv'
  <2>1. \A i \in DOMAIN pendingFunctors' :
           pendingFunctors'[i] = t \/ (i \in DOMAIN pendingFunctors
                                       /\ pendingFunctors'[i] = pendingFunctors[i])
    BY <1>2 DEF TypeOK
  <2> QED
    BY <1>2, <2>1 DEF BoxInv
<1>3. CASE (\E sources \in SUBSET Sources : Poll(sources)) \/ EndIteration
  <2>1. UNCHANGED <<pendingFunctors, functors, fresh, ran>>
    BY <1>3 DEF Poll, EndIteration
  <2>2. functors = << >>
    BY <1>3 DEF Poll, EndIteration, BoxInv
  <2> QED
    BY <2>1, <2>2 DEF BoxInv
<1>4. CASE Swap
  BY <1>4 DEF Swap, BoxInv
<1>5. CASE FunctorDone
  <2>1. \A i \in DOMAIN functors' : i + 1 \in DOMAIN functors /\ functors'[i] = functors[i + 1]
    BY <1>5 DEF FunctorDone, TypeOK
  <2>2. \A i \in DOMAIN ran' :
           ran'[i] = functors[1] \/ (i \in DOMAIN ran /\ ran'[i] = ran[i])
    BY <1>5 DEF FunctorDone, TypeOK
  <2>3. 1 \in DOMAIN functors
    BY <1>5 DEF FunctorDone, TypeOK
  <2>4. UNCHANGED <<pendingFunctors, fresh, loopPc>> /\ loopPc = "run"
    BY <1>5 DEF FunctorDone
  <2> QED
    BY <2>1, <2>2, <2>3, <2>4 DEF BoxInv
<1> QED
  BY <1>1, <1>2, <1>3, <1>4, <1>5
     DEF Next, vars, LoopStep, Post, Signal, RequestQuit, QueueInLoop, HandleWakeup,
         HandleIO, Stopped

\* A fresh task is neither in the mailbox nor done.
LEMMA FreshIsNew ==
    ASSUME TypeOK, BoxInv, NEW t \in fresh
    PROVE  /\ \A i \in DOMAIN (functors \o pendingFunctors) :
                 (functors \o pendingFunctors)[i] # t
           /\ \A i \in DOMAIN ran : ran[i] # t
<1>1. ASSUME NEW i \in DOMAIN (functors \o pendingFunctors)
      PROVE  (functors \o pendingFunctors)[i] # t
  <2> DEFINE m == Len(functors)
  <2>1. CASE i <= m
    <3>1. (functors \o pendingFunctors)[i] = functors[i] /\ i \in DOMAIN functors
      BY <2>1 DEF TypeOK
    <3> QED
      BY <3>1 DEF BoxInv
  <2>2. CASE i > m
    <3>1. /\ (functors \o pendingFunctors)[i] = pendingFunctors[i - m]
          /\ i - m \in DOMAIN pendingFunctors
      BY <2>2 DEF TypeOK
    <3> QED
      BY <3>1 DEF BoxInv
  <2> QED
    BY <2>1, <2>2 DEF TypeOK
<1> QED
  BY <1>1 DEF BoxInv

\* Every step gives a new task, finishes the oldest, or is invisible.
LEMMA BoxStep == TypeOK /\ BoxInv /\ [Next]_vars => [Box!Next]_(Box!vars)
<1> SUFFICES ASSUME TypeOK, BoxInv, [Next]_vars
             PROVE  [Box!Next]_(Box!vars)
  OBVIOUS
<1>1. CASE UNCHANGED <<pendingFunctors, functors, ran>>
  BY <1>1 DEF Box!vars
<1>2. ASSUME NEW t \in Tasks, t \in fresh,
             pendingFunctors' = Append(pendingFunctors, t),
             UNCHANGED <<functors, ran>>
      PROVE  Box!Next
  <2>1. functors' \o pendingFunctors' = Append(functors \o pendingFunctors, t)
    BY <1>2, ConcatAppend DEF TypeOK
  <2>2. Box!Give(t)
    BY <1>2, <2>1, FreshIsNew DEF Box!Give
  <2> QED
    BY <2>2 DEF Box!Next
<1>3. CASE Swap
  <2>1. functors = << >>
    BY <1>3 DEF Swap, BoxInv
  <2>2. functors' \o pendingFunctors' = functors \o pendingFunctors
    BY <1>3, <2>1, ConcatEmpty DEF Swap, TypeOK
  <2>3. ran' = ran
    BY <1>3 DEF Swap
  <2> QED
    BY <2>2, <2>3 DEF Box!vars
<1>4. CASE FunctorDone
  <2>1. functors # << >> /\ pendingFunctors' = pendingFunctors
        /\ functors' = Tail(functors) /\ ran' = Append(ran, Head(functors))
    BY <1>4 DEF FunctorDone
  <2>2. /\ functors \o pendingFunctors # << >>
        /\ ran' = Append(ran, Head(functors \o pendingFunctors))
        /\ functors' \o pendingFunctors' = Tail(functors \o pendingFunctors)
    BY <2>1, ConcatHead DEF TypeOK
  <2>3. Box!Run
    BY <2>2 DEF Box!Run
  <2> QED
    BY <2>3 DEF Box!Next
<1> QED
  BY <1>1, <1>2, <1>3, <1>4
     DEF Next, vars, LoopStep, Post, Signal, RequestQuit, Poll, QueueInLoop,
         HandleWakeup, HandleIO, EndIteration, Stopped

\* The tasks given to a loop are run in order, each once.
THEOREM LoopImplementsMailbox == Spec => MailboxSpec
<1>1. Init => Box!Init /\ BoxInv
  BY ConcatEmpty DEF Init, Box!Init, BoxInv
<1> QED
  BY <1>1, TypeCorrect, BoxInvStep, BoxStep, PTL DEF Spec, MailboxSpec, Box!Spec
=============================================================================
