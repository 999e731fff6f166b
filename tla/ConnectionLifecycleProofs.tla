---------------------- MODULE ConnectionLifecycleProofs ----------------------
(***************************************************************************)
(* Proofs about ConnectionLifecycle, for any number of connections and of  *)
(* I/O loops and for wheels of every size.                                 *)
(***************************************************************************)
EXTENDS ConnectionLifecycle, TLAPS

LEMMA LoopsFacts ==
    /\ Main \in Loops /\ Main \notin IOLoops
    /\ IOLoops \subseteq Loops
    /\ 0 \in IOLoops /\ \A l \in IOLoops : (l + 1) % NumLoops \in IOLoops
    /\ WheelSize \in 1 .. WheelSize
BY NumLoopsAssumption, WheelAssumption DEF Main, Loops, IOLoops

LEMMA TypeInit == Init => TypeOK
<1> SUFFICES ASSUME Init
             PROVE  TypeOK
  OBVIOUS
<1>1. << >> \in Seq(Tasks)
  OBVIOUS
<1>2. wheel \in [IOLoops -> [1 .. WheelSize -> SUBSET Conns]]
  BY DEF Init
<1> QED
  BY <1>1, <1>2, LoopsFacts DEF Init, TypeOK

LEMMA EventsType ==
    ASSUME NEW l \in Loops
    PROVE  EventsOf(l) \in SUBSET Events
BY DEF EventsOf, Events, ConnEvents, Reported, WakeupEvent, AcceptEvent

Wheels == [1 .. WheelSize -> SUBSET Conns]

(* A connection is put into the newest bucket. *)
Added(l, c) == [wheel EXCEPT ![l][WheelSize] = @ \cup {c}]

LEMMA AddedToWheel ==
    ASSUME TypeOK, NEW l \in IOLoops, NEW c \in Conns
    PROVE  /\ Added(l, c) \in [IOLoops -> Wheels]
           /\ \A m \in IOLoops, i \in 1 .. WheelSize :
                 Added(l, c)[m][i] = IF m = l /\ i = WheelSize THEN wheel[m][i] \cup {c}
                                     ELSE wheel[m][i]
<1>1. wheel \in [IOLoops -> Wheels] /\ wheel[l] \in Wheels
  BY DEF TypeOK, Wheels
<1> DEFINE bucket == wheel[l][WheelSize] \cup {c}
           newest == [wheel[l] EXCEPT ![WheelSize] = bucket]
<1>2. bucket \in SUBSET Conns
  BY <1>1, LoopsFacts DEF Wheels
<1>3. newest \in Wheels
      /\ \A i \in 1 .. WheelSize : newest[i] = IF i = WheelSize THEN bucket ELSE wheel[l][i]
  BY <1>1, <1>2, LoopsFacts DEF Wheels
<1>4. Added(l, c) = [wheel EXCEPT ![l] = newest]
  BY DEF Added
<1> HIDE DEF newest
<1>5. /\ [wheel EXCEPT ![l] = newest] \in [IOLoops -> Wheels]
      /\ \A m \in IOLoops : [wheel EXCEPT ![l] = newest][m] = IF m = l THEN newest ELSE wheel[m]
  BY <1>1, <1>3
<1> QED
  BY <1>3, <1>4, <1>5

LEMMA SeqIsFunction ==
    ASSUME NEW S, NEW s \in Seq(S)
    PROVE  s \in [1 .. Len(s) -> S]
OBVIOUS

(* The wheel is turned. *)
LEMMA TurnedWheel ==
    ASSUME NEW w \in Wheels
    PROVE  /\ Append(Tail(w), {}) \in Wheels
           /\ \A i \in 1 .. WheelSize :
                 Append(Tail(w), {})[i] = IF i = WheelSize THEN {} ELSE w[i + 1]
<1>1. w \in Seq(SUBSET Conns) /\ Len(w) = WheelSize
  BY WheelAssumption DEF Wheels
<1>2. Tail(w) \in Seq(SUBSET Conns) /\ Len(Tail(w)) = WheelSize - 1
      /\ \A i \in 1 .. WheelSize - 1 : Tail(w)[i] = w[i + 1]
  BY <1>1, WheelAssumption
<1>3. /\ Append(Tail(w), {}) \in Seq(SUBSET Conns)
      /\ Len(Append(Tail(w), {})) = WheelSize
      /\ \A i \in 1 .. WheelSize :
            Append(Tail(w), {})[i] = IF i = WheelSize THEN {} ELSE w[i + 1]
  BY <1>2, WheelAssumption
<1>4. Append(Tail(w), {}) \in [1 .. WheelSize -> SUBSET Conns]
  BY <1>3, SeqIsFunction
<1> QED
  BY <1>3, <1>4 DEF Wheels

LEMMA RearmedType ==
    ASSUME TypeOK, NEW c \in Conns
    PROVE  Rearmed(c) \in [IOLoops -> Wheels]
<1>1. CASE EntryAlive(c)
  BY <1>1, AddedToWheel DEF Rearmed, EntryAlive, Added
<1>2. CASE ~EntryAlive(c)
  BY <1>2 DEF Rearmed, TypeOK, Wheels
<1> QED
  BY <1>1, <1>2

LEMMA RunType ==
    ASSUME TypeOK, NEW l \in Loops, NEW kind, NEW c, RunTask(l, kind, c)
    PROVE  nextFunctor' \in [Loops -> Nat \ {0}] /\ pc[l] = "run"
<1>1. nextFunctor[l] + 1 \in Nat \ {0}
  BY DEF TypeOK
<1> QED
  BY <1>1 DEF RunTask, Running, TypeOK

LEMMA PostType ==
    ASSUME TypeOK, NEW l \in Loops, NEW task \in Tasks, Post(l, task)
    PROVE  eventfd' \in [Loops -> BOOLEAN] /\ pending' \in [Loops -> Seq(Tasks)]
BY DEF Post, TypeOK

LEMMA TypeStep == TypeOK /\ [Next]_vars => TypeOK'
<1> SUFFICES ASSUME TypeOK, [Next]_vars
             PROVE  TypeOK'
  OBVIOUS
<1> USE DEF clientVars, connVars, wheelVars, queueVars, batchVars
<1>1. CASE UNCHANGED vars
  BY <1>1 DEF vars, TypeOK
<1>2. ASSUME NEW c \in Conns, ClientStep(c)
      PROVE  TypeOK'
  <2>1. CASE Connect(c)
    BY <2>1 DEF Connect, TypeOK
  <2>2. CASE Send(c)
    BY <2>2 DEF Send, TypeOK
  <2>3. CASE HalfClose(c)
    BY <2>3 DEF HalfClose, TypeOK
  <2>4. CASE Reset(c)
    BY <2>4 DEF Reset, TypeOK
  <2> QED
    BY <1>2, <2>1, <2>2, <2>3, <2>4 DEF ClientStep
<1>3. ASSUME NEW l \in Loops, LoopStep(l)
      PROVE  TypeOK'
  <2>1. CASE Poll(l)
    BY <2>1, EventsType DEF Poll, TypeOK
  <2>2. CASE HandleWakeup(l)
    BY <2>2 DEF HandleWakeup, Take, TypeOK
  <2>3. CASE Swap(l)
    BY <2>3 DEF Swap, TypeOK
  <2>4. CASE EndFunctors(l)
    BY <2>4 DEF EndFunctors, TypeOK
  <2> QED
    BY <1>3, <2>1, <2>2, <2>3, <2>4 DEF LoopStep
<1>4. ASSUME NEW c \in Conns, HandleAccept(c)
      PROVE  TypeOK'
  <2>1. <<"established", c>> \in Tasks /\ nextLoop \in Loops
    BY LoopsFacts DEF Tasks, TypeOK
  <2>2. eventfd' \in [Loops -> BOOLEAN] /\ pending' \in [Loops -> Seq(Tasks)]
    BY <1>4, <2>1, PostType DEF HandleAccept
  <2> QED
    BY <1>4, <2>1, <2>2, LoopsFacts DEF HandleAccept, Take, TypeOK
<1>5. ASSUME NEW c \in Conns, RemoveConnectionInLoop(c)
      PROVE  TypeOK'
  <2>1. <<"destroyed", c>> \in Tasks /\ loopOf[c] \in Loops
    BY DEF Tasks, TypeOK
  <2>2. eventfd' \in [Loops -> BOOLEAN] /\ pending' \in [Loops -> Seq(Tasks)]
    BY <1>5, <2>1, PostType DEF RemoveConnectionInLoop, TypeOK
  <2>3. nextFunctor' \in [Loops -> Nat \ {0}]
    BY <1>5, RunType, LoopsFacts DEF RemoveConnectionInLoop
  <2> QED
    BY <1>5, <2>2, <2>3 DEF RemoveConnectionInLoop, TypeOK
<1>6. ASSUME NEW l \in IOLoops, Click(l)
      PROVE  TypeOK'
  <2>1. wheel[l] \in Wheels
    BY DEF TypeOK, Wheels
  <2>2. Append(Tail(wheel[l]), {}) \in Wheels
    BY <2>1, TurnedWheel
  <2>3. wheel[l][1] \in SUBSET Conns
    BY WheelAssumption DEF TypeOK
  <2>4. Aged(l) \in [Conns -> Nat]
    BY DEF Aged, TypeOK
  <2> QED
    BY <1>6, <2>2, <2>3, <2>4, LoopsFacts DEF Click, TypeOK, Wheels
<1>7. ASSUME NEW l \in IOLoops, EndIteration(l)
      PROVE  TypeOK'
  BY <1>7, LoopsFacts DEF EndIteration, TypeOK
<1>8. ASSUME NEW l \in IOLoops, NEW c \in Conns, HandleRead(l, c)
      PROVE  TypeOK'
  <2>1. wheel' \in [IOLoops -> Wheels]
    BY <1>8, RearmedType DEF HandleRead, TypeOK, Wheels
  <2>2. silence' \in [Conns -> Nat]
    BY <1>8 DEF HandleRead, TypeOK
  <2>3. unread' \in [Conns -> BOOLEAN] /\ sockError' \in [Conns -> BOOLEAN]
        /\ watched' \in [Conns -> {"no", "none", "in"}]
    <3>1. \/ unread' = unread \/ unread' = [unread EXCEPT ![c] = FALSE]
      BY <1>8 DEF HandleRead
    <3>2. \/ sockError' = sockError \/ sockError' = [sockError EXCEPT ![c] = FALSE]
      BY <1>8 DEF HandleRead
    <3>3. \/ watched' = watched \/ watched' = [watched EXCEPT ![c] = "none"]
      BY <1>8 DEF HandleRead
    <3>4. unread' \in [Conns -> BOOLEAN]
      BY <3>1 DEF TypeOK
    <3>5. sockError' \in [Conns -> BOOLEAN]
      BY <3>2 DEF TypeOK
    <3>6. watched' \in [Conns -> {"no", "none", "in"}]
      BY <3>3 DEF TypeOK
    <3> QED
      BY <3>4, <3>5, <3>6
  <2>4. UNCHANGED <<peer, backlog, loopOf, state, connectionMap, nextLoop, expiring, pc,
                    eventfd, pending, functors, nextFunctor>>
    BY <1>8 DEF HandleRead
  <2>5. pc[l] = "events" /\ ready' \in [Loops -> SUBSET Events]
        /\ \A m \in Loops : ready'[m] # {} => ready[m] # {}
    BY <1>8, LoopsFacts, SMTT(30) DEF HandleRead, Take, TypeOK
  <2> QED
    BY <2>1, <2>2, <2>3, <2>4, <2>5 DEF TypeOK, Wheels
<1>9. ASSUME NEW l \in IOLoops, NEW c \in Conns, HandleClose(l, c) \/ Expire(l, c)
      PROVE  TypeOK'
  <2>1. <<"remove", c>> \in Tasks
    BY DEF Tasks
  <2>2. eventfd' \in [Loops -> BOOLEAN] /\ pending' \in [Loops -> Seq(Tasks)]
    BY <1>9, <2>1, PostType, LoopsFacts DEF HandleClose, Expire, TypeOK
  <2>3. CASE HandleClose(l, c)
    BY <2>2, <2>3, LoopsFacts DEF HandleClose, Take, TypeOK
  <2>4. CASE Expire(l, c)
    BY <2>2, <2>4 DEF Expire, TypeOK
  <2> QED
    BY <1>9, <2>3, <2>4
<1>10. ASSUME NEW l \in IOLoops, NEW c \in Conns, ConnectEstablished(l, c)
       PROVE  TypeOK'
  <2>1. wheel' \in [IOLoops -> Wheels]
    BY <1>10, AddedToWheel DEF ConnectEstablished, Added
  <2>2. silence' \in [Conns -> Nat]
    BY <1>10 DEF ConnectEstablished, TypeOK
  <2>3. nextFunctor' \in [Loops -> Nat \ {0}]
    BY <1>10, RunType, LoopsFacts DEF ConnectEstablished
  <2> QED
    BY <1>10, <2>1, <2>2, <2>3 DEF ConnectEstablished, TypeOK, Wheels
<1>11. ASSUME NEW l \in IOLoops, NEW c \in Conns, ConnectDestroyed(l, c)
       PROVE  TypeOK'
  <2>1. nextFunctor' \in [Loops -> Nat \ {0}]
    BY <1>11, RunType, LoopsFacts DEF ConnectDestroyed
  <2> QED
    BY <1>11, <2>1 DEF ConnectDestroyed, TypeOK
<1> QED
  BY <1>1, <1>2, <1>3, <1>4, <1>5, <1>6, <1>7, <1>8, <1>9, <1>10, <1>11, LoopsFacts
     DEF Next, MainStep, IOStep

\* Every variable keeps its kind, for any number of connections and loops.
THEOREM TypeCorrect == Spec => []TypeOK
BY TypeInit, TypeStep, PTL DEF Spec

-----------------------------------------------------------------------------
(* What the queues of a loop hold, and what each step does to that.          *)

Has(q, task) == \E i \in DOMAIN q : q[i] = task
Single(q, task) == \A i, j \in DOMAIN q : q[i] = task /\ q[j] = task => i = j

\* A task is somewhere in loop l; it has still to run; it is there once at most.
Held(l, task) == Has(pending[l], task) \/ Has(functors[l], task)
Due(l, task) ==
    \/ Has(pending[l], task)
    \/ \E i \in DOMAIN functors[l] : i >= nextFunctor[l] /\ functors[l][i] = task
Once(l, task) ==
    /\ Single(pending[l], task) /\ Single(functors[l], task)
    /\ ~(Has(pending[l], task) /\ Has(functors[l], task))

LEMMA DueIsHeld == \A l, task : Due(l, task) => Held(l, task)
BY DEF Due, Held, Has

LEMMA HasAppended ==
    ASSUME NEW q \in Seq(Tasks), NEW t \in Tasks
    PROVE  /\ \A u : Has(Append(q, t), u) <=> Has(q, u) \/ u = t
           /\ \A u : Single(q, u) /\ ~(u = t /\ Has(q, u)) => Single(Append(q, t), u)
<1>1. /\ DOMAIN Append(q, t) = 1 .. Len(q) + 1 /\ DOMAIN q = 1 .. Len(q) /\ Len(q) \in Nat
      /\ \A i \in 1 .. Len(q) + 1 : Append(q, t)[i] = IF i = Len(q) + 1 THEN t ELSE q[i]
  OBVIOUS
<1>2. ASSUME NEW u
      PROVE  Has(Append(q, t), u) <=> Has(q, u) \/ u = t
  BY <1>1 DEF Has
<1>3. ASSUME NEW u, Single(q, u), ~(u = t /\ Has(q, u))
      PROVE  Single(Append(q, t), u)
  BY <1>1, <1>3 DEF Has, Single
<1> QED
  BY <1>2, <1>3

LEMMA SameAt ==
    ASSUME NEW m, pending'[m] = pending[m], functors'[m] = functors[m],
           nextFunctor'[m] = nextFunctor[m], NEW u
    PROVE  (Held(m, u)' <=> Held(m, u)) /\ (Due(m, u)' <=> Due(m, u)) /\ (Once(m, u)' <=> Once(m, u))
BY DEF Held, Due, Once

LEMMA PostedAt ==
    ASSUME TypeOK, NEW m \in Loops, NEW t \in Tasks, pending'[m] = Append(pending[m], t),
           functors'[m] = functors[m], nextFunctor'[m] = nextFunctor[m], NEW u \in Tasks
    PROVE  /\ Held(m, u)' <=> Held(m, u) \/ u = t
           /\ Due(m, u)' <=> Due(m, u) \/ u = t
           /\ Once(m, u) /\ ~(u = t /\ Held(m, u)) => Once(m, u)'
<1>1. pending[m] \in Seq(Tasks)
  BY DEF TypeOK
<1>2. Has(pending'[m], u) <=> Has(pending[m], u) \/ u = t
  BY <1>1, HasAppended
<1>3. Single(pending[m], u) /\ ~(u = t /\ Has(pending[m], u)) => Single(pending'[m], u)
  BY <1>1, HasAppended
<1>4. Held(m, u)' <=> Held(m, u) \/ u = t
  BY <1>2 DEF Held
<1>5. Due(m, u)' <=> Due(m, u) \/ u = t
  BY <1>2 DEF Due
<1>6. Once(m, u) /\ ~(u = t /\ Held(m, u)) => Once(m, u)'
  BY <1>2, <1>3 DEF Once, Held
<1> QED
  BY <1>4, <1>5, <1>6

LEMMA PostEffect ==
    ASSUME TypeOK, NEW l \in Loops, NEW t \in Tasks, Post(l, t), UNCHANGED batchVars,
           NEW m \in Loops, NEW u \in Tasks
    PROVE  /\ Held(m, u)' <=> Held(m, u) \/ (m = l /\ u = t)
           /\ Due(m, u)' <=> Due(m, u) \/ (m = l /\ u = t)
           /\ Once(m, u) /\ ~(m = l /\ u = t /\ Held(m, u)) => Once(m, u)'
<1>1. pending'[m] = IF m = l THEN Append(pending[l], t) ELSE pending[m]
  BY DEF Post, TypeOK
<1>2. functors'[m] = functors[m] /\ nextFunctor'[m] = nextFunctor[m]
  BY DEF batchVars
<1>3. CASE m # l
  BY <1>1, <1>2, <1>3, SameAt
<1>4. CASE m = l
  BY <1>1, <1>2, <1>4, PostedAt
<1> QED
  BY <1>3, <1>4

LEMMA QuietEffect ==
    ASSUME UNCHANGED <<pending, functors, nextFunctor>>, NEW m, NEW u
    PROVE  (Held(m, u)' <=> Held(m, u)) /\ (Due(m, u)' <=> Due(m, u)) /\ (Once(m, u)' <=> Once(m, u))
BY DEF Held, Due, Once

LEMMA SwapEffect ==
    ASSUME TypeOK, NEW l \in Loops, Swap(l), NEW m \in Loops, NEW u \in Tasks
    PROVE  /\ Held(m, u)' <=> Held(m, u)
           /\ Due(m, u)' <=> Due(m, u)
           /\ Once(m, u) => Once(m, u)'
<1>1. functors[l] = << >>
  BY DEF Swap, TypeOK
<1>2. /\ functors'[m] = IF m = l THEN pending[m] ELSE functors[m]
      /\ pending'[m] = IF m = l THEN << >> ELSE pending[m]
      /\ nextFunctor'[m] = IF m = l THEN 1 ELSE nextFunctor[m]
  BY DEF Swap, TypeOK
<1>3. CASE m # l
  BY <1>2, <1>3 DEF Held, Due, Once
<1>4. CASE m = l
  <2>1. pending[m] \in Seq(Tasks)
    BY DEF TypeOK
  <2>2. ~Has(<< >>, u) /\ Single(<< >>, u)
    BY DEF Has, Single
  <2>3. Held(m, u)' <=> Held(m, u)
    BY <1>1, <1>2, <1>4, <2>2 DEF Held
  <2>4. Due(m, u)' <=> Has(pending[m], u)
    BY <1>2, <1>4, <2>1, <2>2 DEF Due, Has
  <2>5. Due(m, u) <=> Has(pending[m], u)
    BY <1>1, <1>4 DEF Due
  <2>6. Once(m, u) => Once(m, u)'
    BY <1>1, <1>2, <1>4, <2>2 DEF Once
  <2> QED
    BY <2>3, <2>4, <2>5, <2>6
<1> QED
  BY <1>3, <1>4

LEMMA EndEffect ==
    ASSUME TypeOK, NEW l \in Loops, EndFunctors(l), NEW m \in Loops, NEW u \in Tasks
    PROVE  /\ Held(m, u)' => Held(m, u)
           /\ Due(m, u)' <=> Due(m, u)
           /\ Once(m, u) => Once(m, u)'
<1>1. /\ functors'[m] = IF m = l THEN << >> ELSE functors[m]
      /\ pending'[m] = pending[m]
      /\ nextFunctor'[m] = IF m = l THEN 1 ELSE nextFunctor[m]
  BY DEF EndFunctors, TypeOK, queueVars
<1>2. nextFunctor[l] > Len(functors[l])
  BY DEF EndFunctors, Running, TypeOK
<1>3. CASE m # l
  BY <1>1, <1>3 DEF Held, Due, Once
<1>4. CASE m = l
  <2>1. ~Has(<< >>, u) /\ Single(<< >>, u)
    BY DEF Has, Single
  <2>2. Held(m, u)' => Held(m, u)
    BY <1>1, <1>4, <2>1 DEF Held
  <2>3. Due(m, u)' <=> Has(pending[m], u)
    BY <1>1, <1>4 DEF Due
  <2>4. Due(m, u) <=> Has(pending[m], u)
    BY <1>2, <1>4 DEF Due, TypeOK
  <2>5. Once(m, u) => Once(m, u)'
    BY <1>1, <1>4, <2>1 DEF Once
  <2> QED
    BY <2>2, <2>3, <2>4, <2>5
<1> QED
  BY <1>3, <1>4

LEMMA CurrentIsDue ==
    ASSUME TypeOK, NEW l \in Loops, NEW u, Running(l), Current(l) = u
    PROVE  Due(l, u) /\ Held(l, u)
<1>1. nextFunctor[l] \in DOMAIN functors[l] /\ functors[l][nextFunctor[l]] = u
      /\ nextFunctor[l] >= nextFunctor[l]
  BY DEF Running, Current, TypeOK
<1> QED
  BY <1>1 DEF Due, Held, Has

\* A task has run.
LEMMA RanAt ==
    ASSUME TypeOK, NEW l \in Loops, NEW kind, NEW c, RunTask(l, kind, c),
           functors'[l] = functors[l], pending'[l] = pending[l], NEW u \in Tasks
    PROVE  /\ Held(l, u)' <=> Held(l, u)
           /\ Due(l, u)' => Due(l, u)
           /\ Due(l, u) /\ u # <<kind, c>> => Due(l, u)'
           /\ u = <<kind, c>> => Due(l, u)
           /\ u = <<kind, c>> /\ Once(l, u) => ~Due(l, u)'
           /\ Once(l, u)' <=> Once(l, u)
<1>1. nextFunctor[l] \in DOMAIN functors[l] /\ functors[l][nextFunctor[l]] = <<kind, c>>
  BY DEF RunTask, Running, Current, TypeOK
<1>2. nextFunctor'[l] = nextFunctor[l] + 1
  BY DEF RunTask, TypeOK
<1>3. (Held(l, u)' <=> Held(l, u)) /\ (Once(l, u)' <=> Once(l, u))
  BY DEF Held, Once
<1>4. nextFunctor[l] \in Nat /\ \A i \in DOMAIN functors[l] : i \in Nat
  BY DEF TypeOK
<1>5. Due(l, u)' => Due(l, u)
  BY <1>2, <1>4 DEF Due
<1>6. Due(l, u) /\ u # <<kind, c>> => Due(l, u)'
  <2>1. CASE Has(pending[l], u)
    BY <2>1 DEF Due
  <2>2. ASSUME NEW i \in DOMAIN functors[l], i >= nextFunctor[l], functors[l][i] = u,
               u # <<kind, c>>
        PROVE  Due(l, u)'
    <3>1. i # nextFunctor[l]
      BY <1>1, <2>2, Zenon
    <3>2. i >= nextFunctor[l] + 1
      BY <1>4, <2>2, <3>1
    <3> QED
      BY <1>2, <2>2, <3>2 DEF Due
  <2> QED
    BY <2>1, <2>2 DEF Due
<1>7. u = <<kind, c>> => Due(l, u)
  BY <1>1, <1>4 DEF Due
<1>8. u = <<kind, c>> /\ Once(l, u) => ~Due(l, u)'
  <2> SUFFICES ASSUME u = <<kind, c>>, Once(l, u), Due(l, u)'
               PROVE  FALSE
    OBVIOUS
  <2>1. ~Has(pending[l], u) /\ Single(functors[l], u)
    BY <1>1 DEF Once, Has
  <2>2. PICK i \in DOMAIN functors[l] : i >= nextFunctor[l] + 1 /\ functors[l][i] = u
    BY <1>2, <2>1 DEF Due
  <2> QED
    BY <1>1, <1>4, <2>1, <2>2 DEF Single
<1> QED
  BY <1>3, <1>5, <1>6, <1>7, <1>8

LEMMA RunEffect ==
    ASSUME TypeOK, NEW l \in Loops, NEW kind, NEW c, RunTask(l, kind, c),
           functors' = functors, pending' = pending, NEW m \in Loops, NEW u \in Tasks
    PROVE  /\ Held(m, u)' <=> Held(m, u)
           /\ Due(m, u)' => Due(m, u)
           /\ Due(m, u) /\ ~(m = l /\ u = <<kind, c>>) => Due(m, u)'
           /\ m = l /\ u = <<kind, c>> => Due(m, u)
           /\ m = l /\ u = <<kind, c>> /\ Once(m, u) => ~Due(m, u)'
           /\ Once(m, u)' <=> Once(m, u)
<1>1. CASE m # l
  <2>1. nextFunctor'[m] = nextFunctor[m]
    BY <1>1 DEF RunTask, TypeOK
  <2> QED
    BY <1>1, <2>1, SameAt
<1>2. CASE m = l
  BY <1>2, RanAt
<1> QED
  BY <1>1, <1>2

-----------------------------------------------------------------------------
(* The stages of a connection, and where its tasks and entries may be.       *)

Up == {"connected", "disconnected"}

TaskInv ==
    \A l \in Loops, c \in Conns :
        /\ \A kind \in {"established", "destroyed", "remove"} :
              Held(l, <<kind, c>>) => state[c] # "absent"
        /\ Held(l, <<"remove", c>>) => l = Main /\ state[c] \in Up
        /\ Held(l, <<"established", c>>) => l = loopOf[c]
        /\ Held(l, <<"destroyed", c>>) =>
              l = loopOf[c] /\ c \notin connectionMap /\ state[c] \in Up
        /\ Due(l, <<"established", c>>) => state[c] = "new"
        /\ Due(l, <<"destroyed", c>>) => state[c] = "connected"
        /\ Once(l, <<"established", c>>) /\ Once(l, <<"destroyed", c>>)

DestroyDue(c) == \E l \in Loops : Due(l, <<"destroyed", c>>)

StateInv ==
    \A c \in Conns :
        /\ peer[c] = "none" => state[c] = "absent" /\ c \notin backlog
        /\ state[c] = "absent" => c \notin connectionMap
        /\ state[c] # "absent" => loopOf[c] \in IOLoops /\ c \notin backlog
        /\ state[c] = "new" => c \in connectionMap
        /\ state[c] = "connected" => c \in connectionMap \/ DestroyDue(c)
        /\ state[c] = "disconnected" => c \notin connectionMap
        /\ watched[c] # "no" => state[c] = "connected"

InWheel(l, c) == \E i \in 1 .. WheelSize : c \in wheel[l][i]

EntryInv ==
    \A l \in IOLoops, c \in Conns :
        InWheel(l, c) \/ c \in expiring[l] => l = loopOf[c] /\ state[c] \in Up

ReadyInv ==
    \A l \in Loops, c \in Conns :
        <<c, "in">> \in ready[l] \/ <<c, "hup">> \in ready[l] =>
            l \in IOLoops /\ l = loopOf[c] /\ watched[c] # "no"

LifeInv == TaskInv /\ StateInv /\ EntryInv /\ ReadyInv

LEMMA TaskKinds ==
    /\ \A c \in Conns : /\ <<"established", c>> \in Tasks
                        /\ <<"destroyed", c>> \in Tasks
                        /\ <<"remove", c>> \in Tasks
    /\ \A c, d \in Conns : \A j, k \in {"established", "destroyed", "remove"} :
          <<j, c>> = <<k, d>> => j = k /\ c = d
BY DEF Tasks

LEMMA LifeInit == Init => LifeInv
<1> SUFFICES ASSUME Init
             PROVE  LifeInv
  OBVIOUS
<1>1. ASSUME NEW l \in Loops, NEW u
      PROVE  ~Held(l, u) /\ ~Due(l, u) /\ Once(l, u)
  <2>1. pending[l] = << >> /\ functors[l] = << >>
    BY DEF Init
  <2> QED
    BY <2>1 DEF Held, Due, Once, Has, Single
<1>2. TaskInv
  BY <1>1 DEF TaskInv
<1>3. StateInv
  BY DEF Init, StateInv
<1>4. EntryInv
  BY DEF Init, EntryInv, InWheel
<1>5. ReadyInv
  BY DEF Init, ReadyInv
<1> QED
  BY <1>2, <1>3, <1>4, <1>5 DEF LifeInv

(* The steps that leave the tasks alone. *)
LEMMA LifeQuiet ==
    ASSUME LifeInv, UNCHANGED <<pending, functors, nextFunctor, connectionMap, loopOf, state>>
    PROVE  /\ TaskInv'
           /\ \A c \in Conns : DestroyDue(c)' <=> DestroyDue(c)
<1>1. ASSUME NEW l, NEW u
      PROVE  (Held(l, u)' <=> Held(l, u)) /\ (Due(l, u)' <=> Due(l, u)) /\ (Once(l, u)' <=> Once(l, u))
  BY QuietEffect
<1>2. TaskInv'
  BY <1>1, ZenonT(30) DEF LifeInv, TaskInv
<1>3. ASSUME NEW c \in Conns
      PROVE  DestroyDue(c)' <=> DestroyDue(c)
  BY <1>1 DEF DestroyDue
<1> QED
  BY <1>2, <1>3

(* The steps of the clients. *)
LEMMA LifeClient ==
    ASSUME TypeOK, LifeInv, NEW c \in Conns, ClientStep(c)
    PROVE  LifeInv'
<1>1. UNCHANGED <<watched, connVars, wheelVars, pc, ready, queueVars, batchVars>>
  BY DEF ClientStep, Connect, Send, HalfClose, Reset
<1>2. /\ TaskInv'
      /\ \A d \in Conns : DestroyDue(d)' <=> DestroyDue(d)
  BY <1>1, LifeQuiet DEF connVars, queueVars, batchVars
<1>3. EntryInv' /\ ReadyInv'
  BY <1>1 DEF LifeInv, EntryInv, InWheel, ReadyInv, connVars, wheelVars
<1>4. \A d \in Conns :
         /\ peer'[d] = "none" => peer[d] = "none" /\ d # c
         /\ d \in backlog' => d \in backlog \/ (d = c /\ peer[d] = "none")
  BY DEF ClientStep, Connect, Send, HalfClose, Reset, TypeOK
<1>5. StateInv'
  BY <1>1, <1>2, <1>4 DEF LifeInv, StateInv, connVars
<1> QED
  BY <1>2, <1>3, <1>5 DEF LifeInv

(* epoll_wait, and the ends of its handlers. *)
LEMMA LifePoll ==
    ASSUME TypeOK, LifeInv, NEW l \in Loops,
           Poll(l) \/ HandleWakeup(l) \/ EndIteration(l)
    PROVE  LifeInv'
<1>1. UNCHANGED <<clientVars, watched, connVars, wheelVars, pending, batchVars>>
  BY DEF Poll, HandleWakeup, EndIteration, queueVars
<1>2. /\ TaskInv'
      /\ \A d \in Conns : DestroyDue(d)' <=> DestroyDue(d)
  BY <1>1, LifeQuiet DEF connVars, batchVars
<1>3. EntryInv'
  BY <1>1 DEF LifeInv, EntryInv, InWheel, connVars, wheelVars
<1>4. StateInv'
  BY <1>1, <1>2 DEF LifeInv, StateInv, connVars, clientVars
<1>5. ReadyInv'
  <2>1. CASE Poll(l)
    <3> SUFFICES ASSUME NEW m \in Loops, NEW c \in Conns,
                        <<c, "in">> \in ready'[m] \/ <<c, "hup">> \in ready'[m]
                 PROVE  m \in IOLoops /\ m = loopOf[c] /\ watched[c] # "no"
      BY <1>1 DEF ReadyInv, connVars
    <3>1. CASE m # l
      BY <2>1, <3>1 DEF Poll, LifeInv, ReadyInv, TypeOK
    <3>2. CASE m = l
      <4>1. <<c, "in">> \in EventsOf(l) \/ <<c, "hup">> \in EventsOf(l)
        BY <2>1, <3>2 DEF Poll, TypeOK
      <4> QED
        BY <3>2, <4>1, LoopsFacts
           DEF EventsOf, Reported, WakeupEvent, AcceptEvent, Loops
    <3> QED
      BY <3>1, <3>2
  <2>2. CASE HandleWakeup(l)
    BY <1>1, <2>2 DEF HandleWakeup, Take, LifeInv, ReadyInv, connVars, TypeOK
  <2>3. CASE EndIteration(l)
    BY <1>1, <2>3 DEF EndIteration, LifeInv, ReadyInv, connVars
  <2> QED
    BY <2>1, <2>2, <2>3
<1> QED
  BY <1>2, <1>3, <1>4, <1>5 DEF LifeInv

LEMMA LifeClick ==
    ASSUME TypeOK, LifeInv, NEW l \in IOLoops, Click(l)
    PROVE  LifeInv'
<1>1. UNCHANGED <<clientVars, watched, connVars, ready, pending, batchVars>>
  BY DEF Click, queueVars
<1>2. /\ TaskInv'
      /\ \A d \in Conns : DestroyDue(d)' <=> DestroyDue(d)
  BY <1>1, LifeQuiet DEF connVars, batchVars
<1>3. StateInv' /\ ReadyInv'
  BY <1>1, <1>2 DEF LifeInv, StateInv, ReadyInv, connVars, clientVars
<1>4. wheel[l] \in Wheels
  BY DEF TypeOK, Wheels
<1>5. ASSUME NEW m \in IOLoops, NEW c \in Conns, InWheel(m, c)' \/ c \in expiring'[m]
      PROVE  InWheel(m, c) \/ c \in expiring[m]
  <2>1. CASE m # l
    BY <1>5, <2>1 DEF Click, InWheel, TypeOK
  <2>2. CASE m = l
    <3>1. wheel'[m] = Append(Tail(wheel[m]), {})
      BY <2>2 DEF Click, TypeOK
    <3>2. InWheel(m, c)' => InWheel(m, c)
      <4> SUFFICES ASSUME NEW i \in 1 .. WheelSize, c \in wheel'[m][i]
                   PROVE  InWheel(m, c)
        BY DEF InWheel
      <4>1. i # WheelSize /\ c \in wheel[m][i + 1]
        BY <1>4, <2>2, <3>1, TurnedWheel
      <4>2. i + 1 \in 1 .. WheelSize
        BY <4>1, WheelAssumption
      <4> QED
        BY <4>1, <4>2 DEF InWheel
    <3>3. c \in expiring'[m] => c \in wheel[m][1]
      BY <2>2 DEF Click, TypeOK
    <3>4. 1 \in 1 .. WheelSize
      BY WheelAssumption
    <3> QED
      BY <1>5, <3>2, <3>3, <3>4 DEF InWheel
  <2> QED
    BY <2>1, <2>2
<1>6. EntryInv'
  BY <1>1, <1>5 DEF LifeInv, EntryInv, connVars
<1> QED
  BY <1>2, <1>3, <1>6 DEF LifeInv

LEMMA LifeRead ==
    ASSUME TypeOK, LifeInv, NEW l \in IOLoops, NEW c \in Conns, HandleRead(l, c)
    PROVE  LifeInv'
<1>1. UNCHANGED <<peer, backlog, connVars, expiring, pc, queueVars, batchVars>>
  BY DEF HandleRead
<1>2. /\ TaskInv'
      /\ \A d \in Conns : DestroyDue(d)' <=> DestroyDue(d)
  BY <1>1, LifeQuiet DEF connVars, queueVars, batchVars
<1>3. watched[c] # "no" /\ l = loopOf[c] /\ state[c] = "connected"
  BY LoopsFacts DEF HandleRead, Take, LifeInv, ReadyInv, StateInv
<1>4. \A d \in Conns : watched'[d] # "no" <=> watched[d] # "no"
  <2>1. watched' = watched \/ watched' = [watched EXCEPT ![c] = "none"]
    BY DEF HandleRead
  <2> QED
    BY <1>3, <2>1 DEF TypeOK
<1>5. StateInv'
  BY <1>1, <1>2, <1>4 DEF LifeInv, StateInv, connVars
<1>6. ReadyInv'
  <2>1. \A m \in Loops : ready'[m] \subseteq ready[m]
    BY LoopsFacts DEF HandleRead, Take, TypeOK
  <2> QED
    BY <1>1, <1>4, <2>1 DEF LifeInv, ReadyInv, connVars
<1>7. ASSUME NEW m \in IOLoops, NEW d \in Conns, InWheel(m, d)'
      PROVE  InWheel(m, d) \/ (d = c /\ m = loopOf[c])
  <2>1. wheel' = wheel \/ wheel' = Added(l, c)
    BY <1>3 DEF HandleRead, Rearmed, Added
  <2> QED
    <3>1. CASE wheel' = wheel
      BY <1>7, <3>1 DEF InWheel
    <3>2. CASE wheel' = Added(l, c)
      <4>1. PICK i \in 1 .. WheelSize : d \in wheel'[m][i]
        BY <1>7 DEF InWheel
      <4>2. d \in wheel[m][i] \/ (m = loopOf[c] /\ d = c)
        <5>1. \A k \in IOLoops, j \in 1 .. WheelSize :
                 Added(l, c)[k][j] = IF k = l /\ j = WheelSize THEN wheel[k][j] \cup {c}
                                     ELSE wheel[k][j]
          BY AddedToWheel
        <5> QED
          BY <1>3, <3>2, <4>1, <5>1, ZenonT(30)
      <4> QED
        BY <4>2 DEF InWheel
    <3> QED
      BY <2>1, <3>1, <3>2
<1>8. EntryInv'
  BY <1>1, <1>3, <1>7 DEF LifeInv, EntryInv, connVars, Up
<1> QED
  BY <1>2, <1>5, <1>6, <1>8 DEF LifeInv

(* A removal is posted: by a hang-up, or by an entry that expires. *)
LEMMA LifePostRemove ==
    ASSUME TypeOK, LifeInv, NEW c \in Conns, state[c] \in Up, Post(Main, <<"remove", c>>),
           UNCHANGED <<peer, backlog, watched, connVars, batchVars>>
    PROVE  TaskInv' /\ StateInv'
<1>1. \A m \in Loops, u \in Tasks :
        /\ Held(m, u)' <=> Held(m, u) \/ (m = Main /\ u = <<"remove", c>>)
        /\ Due(m, u)' <=> Due(m, u) \/ (m = Main /\ u = <<"remove", c>>)
        /\ Once(m, u) /\ u # <<"remove", c>> => Once(m, u)'
  BY TaskKinds, LoopsFacts, PostEffect
<1>2. ASSUME NEW l \in Loops, NEW d \in Conns
      PROVE  /\ Held(l, <<"remove", d>>)' <=> Held(l, <<"remove", d>>) \/ (l = Main /\ d = c)
             /\ Held(l, <<"established", d>>)' <=> Held(l, <<"established", d>>)
             /\ Held(l, <<"destroyed", d>>)' <=> Held(l, <<"destroyed", d>>)
             /\ Due(l, <<"established", d>>)' <=> Due(l, <<"established", d>>)
             /\ Due(l, <<"destroyed", d>>)' <=> Due(l, <<"destroyed", d>>)
             /\ Once(l, <<"established", d>>) => Once(l, <<"established", d>>)'
             /\ Once(l, <<"destroyed", d>>) => Once(l, <<"destroyed", d>>)'
  BY <1>1, TaskKinds
<1>3. TaskInv'
  BY <1>2, ZenonT(30) DEF LifeInv, TaskInv, connVars, Up
<1>4. \A d \in Conns : DestroyDue(d)' <=> DestroyDue(d)
  BY <1>2 DEF DestroyDue
<1>5. StateInv'
  BY <1>4 DEF LifeInv, StateInv, connVars
<1> QED
  BY <1>3, <1>5

LEMMA LifeClose ==
    ASSUME TypeOK, LifeInv, NEW l \in IOLoops, NEW c \in Conns, HandleClose(l, c)
    PROVE  LifeInv'
<1>1. state[c] \in Up
  BY LoopsFacts DEF HandleClose, Take, LifeInv, ReadyInv, StateInv, Up
<1>2. TaskInv' /\ StateInv'
  BY <1>1, LifePostRemove DEF HandleClose, clientVars
<1>3. EntryInv'
  BY DEF HandleClose, LifeInv, EntryInv, InWheel, connVars, wheelVars
<1>4. \A m \in Loops : ready'[m] \subseteq ready[m]
  BY LoopsFacts DEF HandleClose, Take, TypeOK
<1>5. ReadyInv'
  BY <1>4 DEF HandleClose, LifeInv, ReadyInv, connVars
<1> QED
  BY <1>2, <1>3, <1>5 DEF LifeInv

LEMMA LifeExpire ==
    ASSUME TypeOK, LifeInv, NEW l \in IOLoops, NEW c \in Conns, Expire(l, c)
    PROVE  LifeInv'
<1>1. UNCHANGED <<clientVars, watched, connVars, wheel, ready, batchVars>>
  BY DEF Expire
<1>2. state[c] \in Up
  BY DEF Expire, LifeInv, EntryInv
<1>3. TaskInv' /\ StateInv'
  <2>1. CASE Post(Main, <<"remove", c>>)
    BY <1>1, <1>2, <2>1, LifePostRemove DEF clientVars
  <2>2. CASE UNCHANGED queueVars
    <3>1. /\ TaskInv'
          /\ \A d \in Conns : DestroyDue(d)' <=> DestroyDue(d)
      BY <1>1, <2>2, LifeQuiet DEF connVars, queueVars, batchVars
    <3> QED
      BY <1>1, <3>1 DEF LifeInv, StateInv, connVars, clientVars
  <2> QED
    BY <2>1, <2>2 DEF Expire
<1>4. \A m \in IOLoops : expiring'[m] \subseteq expiring[m]
  BY DEF Expire, TypeOK
<1>5. EntryInv'
  BY <1>1, <1>4 DEF LifeInv, EntryInv, InWheel, connVars
<1>6. ReadyInv'
  BY <1>1 DEF LifeInv, ReadyInv, connVars
<1> QED
  BY <1>3, <1>5, <1>6 DEF LifeInv

(* The tasks are taken, and their vector is destroyed. *)
LEMMA LifeBatch ==
    ASSUME TypeOK, LifeInv, NEW l \in Loops, Swap(l) \/ EndFunctors(l)
    PROVE  LifeInv'
<1>1. UNCHANGED <<clientVars, watched, connVars, wheelVars, ready>>
  BY DEF Swap, EndFunctors
<1>2. ASSUME NEW m \in Loops, NEW u \in Tasks
      PROVE  /\ Held(m, u)' => Held(m, u)
             /\ Due(m, u)' <=> Due(m, u)
             /\ Once(m, u) => Once(m, u)'
  BY SwapEffect, EndEffect
<1>3. TaskInv'
  BY <1>1, <1>2, TaskKinds, ZenonT(30) DEF LifeInv, TaskInv, connVars
<1>4. \A d \in Conns : DestroyDue(d)' <=> DestroyDue(d)
  BY <1>2, TaskKinds DEF DestroyDue
<1>5. StateInv'
  BY <1>1, <1>4 DEF LifeInv, StateInv, connVars, clientVars
<1>6. EntryInv' /\ ReadyInv'
  BY <1>1 DEF LifeInv, EntryInv, InWheel, ReadyInv, connVars, wheelVars
<1> QED
  BY <1>3, <1>5, <1>6 DEF LifeInv

LEMMA LifeAccept ==
    ASSUME TypeOK, LifeInv, NEW c \in Conns, HandleAccept(c)
    PROVE  LifeInv'
<1>1. state[c] = "absent" /\ peer[c] # "none" /\ nextLoop \in IOLoops /\ nextLoop \in Loops
  BY LoopsFacts DEF HandleAccept, LifeInv, StateInv, TypeOK
<1>2. UNCHANGED <<peer, watched, wheelVars, batchVars>>
  BY DEF HandleAccept
<1>3. /\ \A d \in Conns : d # c => state'[d] = state[d] /\ loopOf'[d] = loopOf[d]
      /\ state'[c] = "new" /\ loopOf'[c] = nextLoop
      /\ connectionMap' = connectionMap \cup {c} /\ backlog' = backlog \ {c}
  BY DEF HandleAccept, TypeOK
<1>4. \A m \in Loops, u \in Tasks :
        /\ Held(m, u)' <=> Held(m, u) \/ (m = nextLoop /\ u = <<"established", c>>)
        /\ Due(m, u)' <=> Due(m, u) \/ (m = nextLoop /\ u = <<"established", c>>)
        /\ Once(m, u) /\ ~(u = <<"established", c>> /\ Held(m, u)) => Once(m, u)'
  <2>1. PICK n \in Loops : n = nextLoop
    BY <1>1
  <2>2. Post(n, <<"established", c>>)
    BY <2>1 DEF HandleAccept
  <2> QED
    BY <1>2, <2>1, <2>2, TaskKinds, PostEffect
<1>5. ASSUME NEW m \in Loops, NEW kind \in {"established", "destroyed", "remove"}
      PROVE  ~Held(m, <<kind, c>>) /\ ~Due(m, <<kind, c>>)
  BY <1>1, DueIsHeld DEF LifeInv, TaskInv
<1>6. ASSUME NEW l \in Loops, NEW d \in Conns
      PROVE  /\ Held(l, <<"remove", d>>)' <=> Held(l, <<"remove", d>>)
             /\ Held(l, <<"established", d>>)' <=>
                   Held(l, <<"established", d>>) \/ (l = nextLoop /\ d = c)
             /\ Held(l, <<"destroyed", d>>)' <=> Held(l, <<"destroyed", d>>)
             /\ Due(l, <<"established", d>>)' <=>
                   Due(l, <<"established", d>>) \/ (l = nextLoop /\ d = c)
             /\ Due(l, <<"destroyed", d>>)' <=> Due(l, <<"destroyed", d>>)
             /\ Once(l, <<"established", d>>) => Once(l, <<"established", d>>)'
             /\ Once(l, <<"destroyed", d>>) => Once(l, <<"destroyed", d>>)'
             /\ d = c => /\ ~Held(l, <<"remove", d>>) /\ ~Held(l, <<"established", d>>)
                         /\ ~Held(l, <<"destroyed", d>>) /\ ~Due(l, <<"established", d>>)
                         /\ ~Due(l, <<"destroyed", d>>)
  BY <1>4, <1>5, TaskKinds
<1>7. TaskInv'
  <2> SUFFICES ASSUME NEW l \in Loops, NEW d \in Conns
               PROVE  /\ \A kind \in {"established", "destroyed", "remove"} :
                            Held(l, <<kind, d>>)' => state'[d] # "absent"
                      /\ Held(l, <<"remove", d>>)' => l = Main /\ state'[d] \in Up
                      /\ Held(l, <<"established", d>>)' => l = loopOf'[d]
                      /\ Held(l, <<"destroyed", d>>)' =>
                            l = loopOf'[d] /\ d \notin connectionMap' /\ state'[d] \in Up
                      /\ Due(l, <<"established", d>>)' => state'[d] = "new"
                      /\ Due(l, <<"destroyed", d>>)' => state'[d] = "connected"
                      /\ Once(l, <<"established", d>>)' /\ Once(l, <<"destroyed", d>>)'
    BY DEF TaskInv
  <2>1. /\ \A kind \in {"established", "destroyed", "remove"} :
              Held(l, <<kind, d>>) => state[d] # "absent"
        /\ Held(l, <<"remove", d>>) => l = Main /\ state[d] \in Up
        /\ Held(l, <<"established", d>>) => l = loopOf[d]
        /\ Held(l, <<"destroyed", d>>) =>
              l = loopOf[d] /\ d \notin connectionMap /\ state[d] \in Up
        /\ Due(l, <<"established", d>>) => state[d] = "new"
        /\ Due(l, <<"destroyed", d>>) => state[d] = "connected"
        /\ Once(l, <<"established", d>>) /\ Once(l, <<"destroyed", d>>)
    BY DEF LifeInv, TaskInv
  <2>2. Once(l, <<"established", d>>)' /\ Once(l, <<"destroyed", d>>)'
    BY <1>6, <2>1
  <2>3. CASE d = c
    <3>1. /\ ~Held(l, <<"remove", d>>)' /\ ~Held(l, <<"destroyed", d>>)'
          /\ ~Due(l, <<"destroyed", d>>)'
          /\ Held(l, <<"established", d>>)' => l = nextLoop
      BY <1>6, <2>3
    <3> QED
      BY <1>3, <2>2, <2>3, <3>1
  <2>4. CASE d # c
    <3>1. /\ Held(l, <<"remove", d>>)' <=> Held(l, <<"remove", d>>)
          /\ Held(l, <<"established", d>>)' <=> Held(l, <<"established", d>>)
          /\ Held(l, <<"destroyed", d>>)' <=> Held(l, <<"destroyed", d>>)
          /\ Due(l, <<"established", d>>)' <=> Due(l, <<"established", d>>)
          /\ Due(l, <<"destroyed", d>>)' <=> Due(l, <<"destroyed", d>>)
      BY <1>6, <2>4
    <3>2. state'[d] = state[d] /\ loopOf'[d] = loopOf[d]
          /\ (d \in connectionMap' <=> d \in connectionMap)
      BY <1>3, <2>4
    <3> QED
      BY <2>1, <2>2, <3>1, <3>2
  <2> QED
    BY <2>3, <2>4
<1>8. \A d \in Conns : DestroyDue(d)' <=> DestroyDue(d)
  BY <1>6 DEF DestroyDue
<1>9. StateInv'
  BY <1>1, <1>2, <1>3, <1>8 DEF LifeInv, StateInv
<1>10. EntryInv'
  BY <1>1, <1>2, <1>3 DEF LifeInv, EntryInv, InWheel, wheelVars, Up
<1>11. \A m \in Loops : ready'[m] \subseteq ready[m]
  BY LoopsFacts DEF HandleAccept, Take, TypeOK
<1>12. watched[c] = "no"
  BY <1>1 DEF LifeInv, StateInv
<1>13. ReadyInv'
  BY <1>2, <1>3, <1>11, <1>12 DEF LifeInv, ReadyInv
<1> QED
  BY <1>7, <1>9, <1>10, <1>13 DEF LifeInv

LEMMA LifeEstablished ==
    ASSUME TypeOK, LifeInv, NEW l \in IOLoops, NEW c \in Conns, ConnectEstablished(l, c)
    PROVE  LifeInv'
<1>1. l \in Loops /\ RunTask(l, "established", c) /\ functors' = functors /\ pending' = pending
  BY LoopsFacts DEF ConnectEstablished, queueVars
<1>2. /\ \A m \in Loops, u \in Tasks :
            /\ Held(m, u)' <=> Held(m, u)
            /\ Due(m, u)' => Due(m, u)
            /\ Due(m, u) /\ u # <<"established", c>> => Due(m, u)'
            /\ Once(m, u)' <=> Once(m, u)
      /\ \A u \in Tasks : u = <<"established", c>> =>
            Due(l, u) /\ (Once(l, u) => ~Due(l, u)')
  BY <1>1, RunEffect
<1>3. /\ Due(l, <<"established", c>>) /\ Held(l, <<"established", c>>)
      /\ state[c] = "new" /\ l = loopOf[c] /\ ~Due(l, <<"established", c>>)'
  BY <1>1, <1>2, TaskKinds, DueIsHeld DEF LifeInv, TaskInv
<1>4. UNCHANGED <<clientVars, loopOf, connectionMap, expiring, ready>>
      /\ wheel' = Added(l, c)
  BY DEF ConnectEstablished, Added
<1>5. /\ \A d \in Conns : d # c => state'[d] = state[d] /\ watched'[d] = watched[d]
      /\ state'[c] = "connected" /\ watched'[c] = "in"
  BY DEF ConnectEstablished, TypeOK
<1>6. ASSUME NEW m \in Loops, NEW d \in Conns
      PROVE  /\ Held(m, <<"remove", d>>)' <=> Held(m, <<"remove", d>>)
             /\ Held(m, <<"established", d>>)' <=> Held(m, <<"established", d>>)
             /\ Held(m, <<"destroyed", d>>)' <=> Held(m, <<"destroyed", d>>)
             /\ Due(m, <<"established", d>>)' => Due(m, <<"established", d>>)
             /\ Due(m, <<"destroyed", d>>)' <=> Due(m, <<"destroyed", d>>)
             /\ Once(m, <<"established", d>>)' <=> Once(m, <<"established", d>>)
             /\ Once(m, <<"destroyed", d>>)' <=> Once(m, <<"destroyed", d>>)
  BY <1>2, TaskKinds
<1>7. \A m \in Loops : ~Due(m, <<"established", c>>)'
  BY <1>3, <1>6, DueIsHeld DEF LifeInv, TaskInv
<1>8. TaskInv'
  <2> SUFFICES ASSUME NEW m \in Loops, NEW d \in Conns
               PROVE  (/\ \A kind \in {"established", "destroyed", "remove"} :
                             Held(m, <<kind, d>>) => state[d] # "absent"
                       /\ Held(m, <<"remove", d>>) => m = Main /\ state[d] \in Up
                       /\ Held(m, <<"established", d>>) => m = loopOf[d]
                       /\ Held(m, <<"destroyed", d>>) =>
                             m = loopOf[d] /\ d \notin connectionMap /\ state[d] \in Up
                       /\ Due(m, <<"established", d>>) => state[d] = "new"
                       /\ Due(m, <<"destroyed", d>>) => state[d] = "connected"
                       /\ Once(m, <<"established", d>>) /\ Once(m, <<"destroyed", d>>))'
    BY DEF TaskInv
  <2>1. CASE d = c
    BY <1>3, <1>4, <1>5, <1>6, <1>7, <2>1 DEF LifeInv, TaskInv, Up
  <2>2. CASE d # c
    BY <1>4, <1>5, <1>6, <2>2 DEF LifeInv, TaskInv
  <2> QED
    BY <2>1, <2>2
<1>9. \A d \in Conns : DestroyDue(d)' <=> DestroyDue(d)
  BY <1>6 DEF DestroyDue
<1>10. StateInv'
  BY <1>3, <1>4, <1>5, <1>9 DEF LifeInv, StateInv, clientVars
<1>11. ASSUME NEW m \in IOLoops, NEW d \in Conns, InWheel(m, d)'
       PROVE  InWheel(m, d) \/ (d = c /\ m = l)
  <2>1. PICK i \in 1 .. WheelSize : d \in Added(l, c)[m][i]
    BY <1>4, <1>11 DEF InWheel
  <2>2. \A k \in IOLoops, j \in 1 .. WheelSize :
           Added(l, c)[k][j] = IF k = l /\ j = WheelSize THEN wheel[k][j] \cup {c}
                               ELSE wheel[k][j]
    BY AddedToWheel
  <2> QED
    BY <2>1, <2>2, ZenonT(30) DEF InWheel
<1>12. EntryInv'
  BY <1>3, <1>4, <1>5, <1>11 DEF LifeInv, EntryInv, Up
<1>13. ReadyInv'
  BY <1>4, <1>5 DEF LifeInv, ReadyInv
<1> QED
  BY <1>8, <1>10, <1>12, <1>13 DEF LifeInv

LEMMA LifeDestroyed ==
    ASSUME TypeOK, LifeInv, NEW l \in IOLoops, NEW c \in Conns, ConnectDestroyed(l, c)
    PROVE  LifeInv'
<1>1. l \in Loops /\ RunTask(l, "destroyed", c) /\ functors' = functors /\ pending' = pending
  BY LoopsFacts DEF ConnectDestroyed, queueVars
<1>2. /\ \A m \in Loops, u \in Tasks :
            /\ Held(m, u)' <=> Held(m, u)
            /\ Due(m, u)' => Due(m, u)
            /\ Due(m, u) /\ u # <<"destroyed", c>> => Due(m, u)'
            /\ Once(m, u)' <=> Once(m, u)
      /\ \A u \in Tasks : u = <<"destroyed", c>> =>
            Due(l, u) /\ (Once(l, u) => ~Due(l, u)')
  BY <1>1, RunEffect
<1>3. /\ Due(l, <<"destroyed", c>>) /\ Held(l, <<"destroyed", c>>)
      /\ state[c] = "connected" /\ l = loopOf[c] /\ ~Due(l, <<"destroyed", c>>)'
      /\ c \notin connectionMap
  BY <1>1, <1>2, TaskKinds, DueIsHeld DEF LifeInv, TaskInv
<1>4. UNCHANGED <<clientVars, loopOf, connectionMap, wheel, expiring, ready>>
  BY DEF ConnectDestroyed, wheelVars
<1>5. /\ \A d \in Conns : d # c => state'[d] = state[d] /\ watched'[d] = watched[d]
      /\ state'[c] = "disconnected" /\ watched'[c] = "no"
  BY DEF ConnectDestroyed, TypeOK
<1>6. ASSUME NEW m \in Loops, NEW d \in Conns
      PROVE  /\ Held(m, <<"remove", d>>)' <=> Held(m, <<"remove", d>>)
             /\ Held(m, <<"established", d>>)' <=> Held(m, <<"established", d>>)
             /\ Held(m, <<"destroyed", d>>)' <=> Held(m, <<"destroyed", d>>)
             /\ Due(m, <<"established", d>>)' => Due(m, <<"established", d>>)
             /\ Due(m, <<"destroyed", d>>)' => Due(m, <<"destroyed", d>>)
             /\ d # c => (Due(m, <<"destroyed", d>>)' <=> Due(m, <<"destroyed", d>>))
             /\ Once(m, <<"established", d>>)' <=> Once(m, <<"established", d>>)
             /\ Once(m, <<"destroyed", d>>)' <=> Once(m, <<"destroyed", d>>)
  BY <1>2, TaskKinds
<1>7. \A m \in Loops : ~Due(m, <<"destroyed", c>>)' /\ ~Due(m, <<"established", c>>)'
  BY <1>3, <1>6, DueIsHeld DEF LifeInv, TaskInv
<1>8. TaskInv'
  <2> SUFFICES ASSUME NEW m \in Loops, NEW d \in Conns
               PROVE  (/\ \A kind \in {"established", "destroyed", "remove"} :
                             Held(m, <<kind, d>>) => state[d] # "absent"
                       /\ Held(m, <<"remove", d>>) => m = Main /\ state[d] \in Up
                       /\ Held(m, <<"established", d>>) => m = loopOf[d]
                       /\ Held(m, <<"destroyed", d>>) =>
                             m = loopOf[d] /\ d \notin connectionMap /\ state[d] \in Up
                       /\ Due(m, <<"established", d>>) => state[d] = "new"
                       /\ Due(m, <<"destroyed", d>>) => state[d] = "connected"
                       /\ Once(m, <<"established", d>>) /\ Once(m, <<"destroyed", d>>))'
    BY DEF TaskInv
  <2>1. CASE d = c
    BY <1>3, <1>4, <1>5, <1>6, <1>7, <2>1 DEF LifeInv, TaskInv, Up
  <2>2. CASE d # c
    BY <1>4, <1>5, <1>6, <2>2 DEF LifeInv, TaskInv
  <2> QED
    BY <2>1, <2>2
<1>9. \A d \in Conns : d # c => (DestroyDue(d)' <=> DestroyDue(d))
  BY <1>6 DEF DestroyDue
<1>10. StateInv'
  BY <1>3, <1>4, <1>5, <1>9 DEF LifeInv, StateInv, clientVars
<1>11. EntryInv'
  BY <1>3, <1>4, <1>5 DEF LifeInv, EntryInv, InWheel, Up
<1>12. ready[l] = {}
  BY <1>1 DEF RunTask, Running, TypeOK
<1>13. ReadyInv'
  BY <1>3, <1>4, <1>5, <1>12 DEF LifeInv, ReadyInv
<1> QED
  BY <1>8, <1>10, <1>11, <1>13 DEF LifeInv

\* A removal runs; when it finds the connection, it posts the task that destroys it.
LEMMA RemoveEffect ==
    ASSUME TypeOK, LifeInv, NEW c \in Conns, RemoveConnectionInLoop(c),
           NEW m \in Loops, NEW d \in Conns
    PROVE  /\ Held(m, <<"remove", d>>)' <=> Held(m, <<"remove", d>>)
           /\ Held(m, <<"established", d>>)' <=> Held(m, <<"established", d>>)
           /\ Held(m, <<"destroyed", d>>)' <=>
                 Held(m, <<"destroyed", d>>) \/ (m = loopOf[c] /\ d = c /\ c \in connectionMap)
           /\ Due(m, <<"established", d>>)' <=> Due(m, <<"established", d>>)
           /\ Due(m, <<"destroyed", d>>)' <=>
                 Due(m, <<"destroyed", d>>) \/ (m = loopOf[c] /\ d = c /\ c \in connectionMap)
           /\ Once(m, <<"established", d>>) => Once(m, <<"established", d>>)'
           /\ Once(m, <<"destroyed", d>>) => Once(m, <<"destroyed", d>>)'
           /\ Held(Main, <<"remove", c>>) /\ state[c] \in Up /\ loopOf[c] \in IOLoops
<1>1. RunTask(Main, "remove", c) /\ functors' = functors
  BY DEF RemoveConnectionInLoop
<1>2. Held(Main, <<"remove", c>>) /\ state[c] \in Up
  <2>1. Held(Main, <<"remove", c>>)
    BY <1>1, CurrentIsDue, LoopsFacts DEF RunTask
  <2> QED
    BY <2>1, LoopsFacts DEF LifeInv, TaskInv
<1>3. PICK n \in IOLoops : n = loopOf[c]
  BY <1>2 DEF LifeInv, StateInv, Up
<1>4. n \in Loops /\ n # Main
  BY LoopsFacts
<1>5. CASE UNCHANGED queueVars /\ c \notin connectionMap
  <2>1. \A u \in Tasks :
           /\ Held(m, u)' <=> Held(m, u)
           /\ Due(m, u)' => Due(m, u)
           /\ Due(m, u) /\ u # <<"remove", c>> => Due(m, u)'
           /\ Once(m, u)' <=> Once(m, u)
    BY <1>1, <1>5, RunEffect, LoopsFacts DEF queueVars
  <2> QED
    BY <1>2, <1>3, <1>5, <2>1, TaskKinds
<1>6. CASE Post(n, <<"destroyed", c>>) /\ c \in connectionMap
  <2>1. pending'[m] = IF m = n THEN Append(pending[m], <<"destroyed", c>>) ELSE pending[m]
    BY <1>6 DEF Post, TypeOK
  <2>2. m # Main => nextFunctor'[m] = nextFunctor[m]
    BY <1>1 DEF RunTask, TypeOK
  <2>3. CASE m = Main
    <3>1. \A u \in Tasks :
             /\ Held(m, u)' <=> Held(m, u)
             /\ Due(m, u)' => Due(m, u)
             /\ Due(m, u) /\ u # <<"remove", c>> => Due(m, u)'
             /\ Once(m, u)' <=> Once(m, u)
      BY <1>1, <1>4, <2>1, <2>3, RanAt
    <3> QED
      BY <1>2, <1>3, <1>4, <2>3, <3>1, TaskKinds
  <2>4. CASE m = n
    <3>1. \A u \in Tasks :
             /\ Held(m, u)' <=> Held(m, u) \/ u = <<"destroyed", c>>
             /\ Due(m, u)' <=> Due(m, u) \/ u = <<"destroyed", c>>
             /\ Once(m, u) /\ ~(u = <<"destroyed", c>> /\ Held(m, u)) => Once(m, u)'
      BY <1>1, <1>4, <2>1, <2>2, <2>4, PostedAt, TaskKinds, ZenonT(30)
    <3>2. ~Held(m, <<"destroyed", c>>)
      BY <1>6 DEF LifeInv, TaskInv
    <3> QED
      BY <1>2, <1>3, <1>6, <2>4, <3>1, <3>2, TaskKinds
  <2>5. CASE m # Main /\ m # n
    <3>1. \A u \in Tasks :
             (Held(m, u)' <=> Held(m, u)) /\ (Due(m, u)' <=> Due(m, u))
             /\ (Once(m, u)' <=> Once(m, u))
      BY <1>1, <2>1, <2>2, <2>5, SameAt
    <3> QED
      BY <1>2, <1>3, <2>5, <3>1, TaskKinds
  <2> QED
    BY <2>3, <2>4, <2>5
<1> QED
  BY <1>3, <1>5, <1>6 DEF RemoveConnectionInLoop

LEMMA LifeRemove ==
    ASSUME TypeOK, LifeInv, NEW c \in Conns, RemoveConnectionInLoop(c)
    PROVE  LifeInv'
<1>1. UNCHANGED <<clientVars, watched, loopOf, state, wheelVars, ready>>
      /\ connectionMap' = connectionMap \ {c}
  BY DEF RemoveConnectionInLoop
<1>2. state[c] \in Up /\ loopOf[c] \in IOLoops
  BY RemoveEffect, LoopsFacts
<1>3. c \in connectionMap => state[c] = "connected"
  BY <1>2 DEF LifeInv, StateInv, Up
<1>4. TaskInv'
  <2> SUFFICES ASSUME NEW m \in Loops, NEW d \in Conns
               PROVE  (/\ \A kind \in {"established", "destroyed", "remove"} :
                             Held(m, <<kind, d>>) => state[d] # "absent"
                       /\ Held(m, <<"remove", d>>) => m = Main /\ state[d] \in Up
                       /\ Held(m, <<"established", d>>) => m = loopOf[d]
                       /\ Held(m, <<"destroyed", d>>) =>
                             m = loopOf[d] /\ d \notin connectionMap /\ state[d] \in Up
                       /\ Due(m, <<"established", d>>) => state[d] = "new"
                       /\ Due(m, <<"destroyed", d>>) => state[d] = "connected"
                       /\ Once(m, <<"established", d>>) /\ Once(m, <<"destroyed", d>>))'
    BY DEF TaskInv
  <2>1. /\ Held(m, <<"remove", d>>)' <=> Held(m, <<"remove", d>>)
        /\ Held(m, <<"established", d>>)' <=> Held(m, <<"established", d>>)
        /\ Held(m, <<"destroyed", d>>)' <=>
              Held(m, <<"destroyed", d>>) \/ (m = loopOf[c] /\ d = c /\ c \in connectionMap)
        /\ Due(m, <<"established", d>>)' <=> Due(m, <<"established", d>>)
        /\ Due(m, <<"destroyed", d>>)' <=>
              Due(m, <<"destroyed", d>>) \/ (m = loopOf[c] /\ d = c /\ c \in connectionMap)
        /\ Once(m, <<"established", d>>) => Once(m, <<"established", d>>)'
        /\ Once(m, <<"destroyed", d>>) => Once(m, <<"destroyed", d>>)'
    BY RemoveEffect
  <2> QED
    BY <1>1, <1>2, <1>3, <2>1 DEF LifeInv, TaskInv, Up
<1>5. /\ \A d \in Conns : DestroyDue(d) => DestroyDue(d)'
      /\ c \in connectionMap => DestroyDue(c)'
  BY <1>2, RemoveEffect, LoopsFacts DEF DestroyDue
<1>6. StateInv'
  BY <1>1, <1>2, <1>5 DEF LifeInv, StateInv, clientVars, Up
<1>7. EntryInv' /\ ReadyInv'
  BY <1>1 DEF LifeInv, EntryInv, InWheel, ReadyInv, wheelVars
<1> QED
  BY <1>4, <1>6, <1>7 DEF LifeInv

LEMMA LifeStep == TypeOK /\ LifeInv /\ [Next]_vars => LifeInv'
<1> SUFFICES ASSUME TypeOK, LifeInv, [Next]_vars
             PROVE  LifeInv'
  OBVIOUS
<1>1. CASE UNCHANGED vars
  <2>1. /\ TaskInv'
        /\ \A d \in Conns : DestroyDue(d)' <=> DestroyDue(d)
    BY <1>1, LifeQuiet DEF vars
  <2>2. StateInv' /\ EntryInv' /\ ReadyInv'
    BY <1>1, <2>1 DEF vars, wheelVars, LifeInv, StateInv, EntryInv, InWheel, ReadyInv
  <2> QED
    BY <2>1, <2>2 DEF LifeInv
<1>2. ASSUME NEW l \in Loops, LoopStep(l)
      PROVE  LifeInv'
  BY <1>2, LifePoll, LifeBatch DEF LoopStep
<1>3. CASE MainStep
  BY <1>2, <1>3, LifeAccept, LifeRemove, LoopsFacts DEF MainStep
<1>4. ASSUME NEW l \in IOLoops, IOStep(l)
      PROVE  LifeInv'
  <2>1. l \in Loops
    BY LoopsFacts
  <2> QED
    BY <1>2, <1>4, <2>1, LifeClick, LifePoll, LifeRead, LifeClose, LifeEstablished,
       LifeDestroyed, LifeExpire DEF IOStep
<1>5. ASSUME NEW c \in Conns, ClientStep(c)
      PROVE  LifeInv'
  BY <1>5, LifeClient
<1> QED
  BY <1>1, <1>3, <1>4, <1>5 DEF Next

LEMMA LifeCorrect == Spec => [](TypeOK /\ LifeInv)
<1>1. Init => TypeOK /\ LifeInv
  BY TypeInit, LifeInit
<1>2. TypeOK /\ LifeInv /\ [Next]_vars => (TypeOK /\ LifeInv)'
  BY TypeStep, LifeStep
<1> QED
  BY <1>1, <1>2, PTL DEF Spec

-----------------------------------------------------------------------------
(* What follows from the stages alone.                                       *)

LEMMA HeldIsAlive ==
    ASSUME NEW l \in Loops, NEW c \in Conns, NEW kind, Held(l, <<kind, c>>)
    PROVE  Alive(c)
<1>1. CASE Has(pending[l], <<kind, c>>)
  BY <1>1 DEF Has, Alive, InQueue
<1>2. CASE Has(functors[l], <<kind, c>>)
  BY <1>2 DEF Has, Alive, InQueue
<1> QED
  BY <1>1, <1>2 DEF Held

AliveInStages ==
    \A c \in Conns : /\ state[c] \in {"new", "connected"} => Alive(c)
                     /\ Alive(c) => state[c] # "absent"

LEMMA AliveStages == TypeOK /\ LifeInv => AliveInStages
<1> SUFFICES ASSUME TypeOK, LifeInv, NEW c \in Conns
             PROVE  /\ state[c] \in {"new", "connected"} => Alive(c)
                    /\ Alive(c) => state[c] # "absent"
  BY DEF AliveInStages
<1>1. DestroyDue(c) => Alive(c)
  BY DueIsHeld, HeldIsAlive DEF DestroyDue
<1>2. state[c] \in {"new", "connected"} => Alive(c)
  BY <1>1 DEF LifeInv, StateInv, Alive
<1>3. ASSUME NEW l \in Loops, InQueue(pending[l], c) \/ InQueue(functors[l], c)
      PROVE  state[c] # "absent"
  <2>1. PICK u \in Tasks : u[2] = c /\ Held(l, u)
    <3>1. pending[l] \in Seq(Tasks) /\ functors[l] \in Seq(Tasks)
      BY DEF TypeOK
    <3>2. CASE InQueue(pending[l], c)
      <4>1. PICK i \in DOMAIN pending[l] : pending[l][i][2] = c
        BY <3>2 DEF InQueue
      <4>2. pending[l][i] \in Tasks
        BY <3>1, <4>1
      <4> QED
        BY <4>1, <4>2 DEF Held, Has
    <3>3. CASE InQueue(functors[l], c)
      <4>1. PICK i \in DOMAIN functors[l] : functors[l][i][2] = c
        BY <3>3 DEF InQueue
      <4>2. functors[l][i] \in Tasks
        BY <3>1, <4>1
      <4> QED
        BY <4>1, <4>2 DEF Held, Has
    <3> QED
      BY <1>3, <3>2, <3>3
  <2>2. PICK kind \in {"established", "destroyed", "remove"} : u = <<kind, c>>
    BY <2>1 DEF Tasks
  <2> QED
    BY <2>1, <2>2, ZenonT(30) DEF LifeInv, TaskInv
<1>4. Alive(c) => state[c] # "absent"
  BY <1>3 DEF Alive, LifeInv, StateInv
<1> QED
  BY <1>2, <1>4

\* No callback runs on a destroyed TcpConn.
THEOREM CallbacksAreSafe == Spec => []CallbacksSafe
<1>1. TypeOK /\ LifeInv => CallbacksSafe
  <2> SUFFICES ASSUME TypeOK, LifeInv, NEW c \in Conns
               PROVE  /\ watched[c] # "no" => Alive(c)
                      /\ \A l \in Loops :
                            <<c, "in">> \in ready[l] \/ <<c, "hup">> \in ready[l] =>
                               Alive(c) /\ watched[c] # "no" /\ l = loopOf[c]
    BY DEF CallbacksSafe
  <2>1. watched[c] # "no" => Alive(c)
    BY AliveStages DEF LifeInv, StateInv, AliveInStages
  <2> QED
    BY <2>1 DEF LifeInv, ReadyInv
<1> QED
  BY LifeCorrect, <1>1, PTL

\* connectDestroyed finds its connection connected: it runs once, after
\* connectEstablished, whatever hang-ups and expiries come in between.
THEOREM DestroyedOnce == Spec => []DestroyAssert
<1>1. TypeOK /\ LifeInv => DestroyAssert
  <2> SUFFICES ASSUME TypeOK, LifeInv, NEW l \in Loops, NEW c \in Conns,
                      Running(l), Current(l) = <<"destroyed", c>>
               PROVE  state[c] = "connected"
    BY DEF DestroyAssert
  <2>1. Due(l, <<"destroyed", c>>)
    BY CurrentIsDue
  <2> QED
    BY <2>1 DEF LifeInv, TaskInv
<1> QED
  BY LifeCorrect, <1>1, PTL

LEMMA StateAdvances ==
    ASSUME TypeOK, [Next]_vars, NEW c \in Conns, state[c] # "absent"
    PROVE  state'[c] # "absent"
<1>1. \/ state' = state
      \/ \E d \in Conns : \/ state' = [state EXCEPT ![d] = "new"]
                         \/ state' = [state EXCEPT ![d] = "connected"]
                         \/ state' = [state EXCEPT ![d] = "disconnected"]
  BY ZenonT(40) DEF Next, MainStep, IOStep, LoopStep, ClientStep, vars, connVars,
         Connect, Send, HalfClose, Reset, Poll, HandleWakeup, HandleAccept, HandleRead,
         HandleClose, Swap, ConnectEstablished, ConnectDestroyed, RemoveConnectionInLoop,
         EndFunctors, Click, Expire, EndIteration
<1> QED
  BY <1>1 DEF TypeOK

\* A TcpConn whose last owner lets go of it has been through connectDestroyed.
THEOREM DestructorFindsItDown == Spec => DestructorAssert
<1>1. TypeOK /\ AliveInStages /\ TypeOK' /\ AliveInStages' /\ [Next]_vars =>
         [\A c \in Conns : Alive(c) /\ ~Alive(c)' => state'[c] = "disconnected"]_vars
  <2> SUFFICES ASSUME TypeOK, AliveInStages, TypeOK', AliveInStages', [Next]_vars,
                      NEW c \in Conns, Alive(c), ~Alive(c)'
               PROVE  state'[c] = "disconnected"
    OBVIOUS
  <2>1. state'[c] # "absent"
    BY StateAdvances DEF AliveInStages
  <2>2. state'[c] \in {"new", "connected"} => Alive(c)'
    BY DEF AliveInStages
  <2> QED
    BY <2>1, <2>2 DEF TypeOK
<1> QED
  BY LifeCorrect, AliveStages, <1>1, PTL DEF Spec, DestructorAssert

-----------------------------------------------------------------------------
(* The time wheel.                                                           *)

\* A removal the main loop has run, in the vector it is still running.
Done(c) ==
    \E i \in DOMAIN functors[Main] :
        i < nextFunctor[Main] /\ functors[Main][i] = <<"remove", c>>

Armed(c) ==
    \/ InWheel(loopOf[c], c)
    \/ Held(Main, <<"remove", c>>)
    \/ \E l \in IOLoops : c \in expiring[l]

ArmedInv == \A c \in connectionMap : state[c] = "connected" => Armed(c)
DoneInv == \A c \in Conns : Done(c) => c \notin connectionMap

\* The newest bucket that holds an entry tells how long its client is silent.
SilenceInv ==
    \A l \in IOLoops, c \in Conns :
        /\ InWheel(l, c) =>
              /\ silence[c] < WheelSize
              /\ c \in wheel[l][WheelSize - silence[c]]
              /\ \A i \in 1 .. WheelSize : c \in wheel[l][i] => i <= WheelSize - silence[c]
        /\ c \in expiring[l] => silence[c] = WheelSize /\ ~InWheel(l, c)

WheelInv == ArmedInv /\ DoneInv /\ SilenceInv

LEMMA WheelInit == Init => WheelInv
BY DEF Init, WheelInv, ArmedInv, DoneInv, Done, SilenceInv, InWheel

(* The steps that take nothing away from an entry or a removal. *)
LEMMA ArmedKept ==
    ASSUME ArmedInv, connectionMap \subseteq Conns,
           \A c \in connectionMap' : state'[c] = "connected" =>
              c \in connectionMap /\ state[c] = "connected" /\ loopOf'[c] = loopOf[c]
              /\ loopOf[c] \in IOLoops,
           \A l \in IOLoops, c \in Conns : InWheel(l, c) => InWheel(l, c)',
           \A c \in Conns : Held(Main, <<"remove", c>>) => Held(Main, <<"remove", c>>)',
           \A l \in IOLoops : expiring[l] \subseteq expiring'[l]
    PROVE  ArmedInv'
<1> SUFFICES ASSUME NEW c \in connectionMap', state'[c] = "connected"
             PROVE  Armed(c)'
  BY DEF ArmedInv
<1>1. c \in Conns /\ Armed(c) /\ loopOf'[c] = loopOf[c] /\ loopOf[c] \in IOLoops
  BY DEF ArmedInv
<1>2. PICK l \in IOLoops : l = loopOf[c]
  BY <1>1
<1>3. InWheel(l, c) => InWheel(l, c)'
  BY <1>1
<1>4. InWheel(loopOf[c], c) => InWheel(loopOf[c], c)'
  BY <1>1, <1>2, <1>3 DEF InWheel
<1> QED
  BY <1>1, <1>4 DEF Armed

LEMMA DoneKept ==
    ASSUME DoneInv, functors'[Main] = functors[Main], nextFunctor'[Main] = nextFunctor[Main],
           \A c \in Conns : Done(c) /\ c \in connectionMap' => c \in connectionMap
    PROVE  DoneInv'
BY DEF DoneInv, Done

LEMMA SilenceKept ==
    ASSUME SilenceInv, UNCHANGED <<wheel, silence>>,
           \A l \in IOLoops : expiring'[l] \subseteq expiring[l]
    PROVE  SilenceInv'
BY DEF SilenceInv, InWheel

LEMMA ConnectedOnLoop ==
    ASSUME TypeOK, LifeInv
    PROVE  \A c \in connectionMap : c \in Conns /\ loopOf[c] \in IOLoops
BY DEF TypeOK, LifeInv, StateInv

LEMMA WheelQuiet ==
    ASSUME TypeOK, LifeInv, WheelInv,
           UNCHANGED <<loopOf, state, connectionMap, wheelVars, pending, batchVars>>
    PROVE  WheelInv'
<1>1. \A c \in Conns : Held(Main, <<"remove", c>>)' <=> Held(Main, <<"remove", c>>)
  BY SameAt DEF batchVars
<1>2. ArmedInv'
  BY <1>1, ArmedKept, ConnectedOnLoop DEF WheelInv, wheelVars, InWheel, TypeOK
<1>3. DoneInv'
  BY DoneKept DEF WheelInv, batchVars
<1>4. SilenceInv'
  BY SilenceKept DEF WheelInv, wheelVars
<1> QED
  BY <1>2, <1>3, <1>4 DEF WheelInv

LEMMA AddedBuckets ==
    ASSUME TypeOK, NEW l \in IOLoops, NEW c \in Conns
    PROVE  \A m \in IOLoops, i \in 1 .. WheelSize, d \in Conns :
              d \in Added(l, c)[m][i] <=> d \in wheel[m][i] \/ (m = l /\ i = WheelSize /\ d = c)
<1>1. \A m \in IOLoops, i \in 1 .. WheelSize :
         Added(l, c)[m][i] = IF m = l /\ i = WheelSize THEN wheel[m][i] \cup {c}
                             ELSE wheel[m][i]
  BY AddedToWheel
<1> QED
  BY <1>1, ZenonT(30)

(* An entry is made, or moved to the newest bucket. *)
LEMMA SilenceBroken ==
    ASSUME TypeOK, WheelInv, NEW l \in IOLoops, NEW c \in Conns, wheel' = Added(l, c),
           \A m \in IOLoops : c \notin expiring[m] /\ (InWheel(m, c) => m = l),
           expiring' = expiring, silence' = [silence EXCEPT ![c] = 0]
    PROVE  SilenceInv' /\ \A m \in IOLoops, d \in Conns : InWheel(m, d) => InWheel(m, d)'
<1>1. \A m \in IOLoops, i \in 1 .. WheelSize, d \in Conns :
         d \in wheel'[m][i] <=> d \in wheel[m][i] \/ (m = l /\ i = WheelSize /\ d = c)
  BY AddedBuckets
<1>2. \A m \in IOLoops, d \in Conns : InWheel(m, d)' <=> InWheel(m, d) \/ (m = l /\ d = c)
  BY <1>1, LoopsFacts DEF InWheel
<1>3. \A d \in Conns : silence'[d] = IF d = c THEN 0 ELSE silence[d]
  BY DEF TypeOK
<1>4. ASSUME NEW m \in IOLoops, NEW d \in Conns, InWheel(m, d)'
      PROVE  /\ silence'[d] < WheelSize
             /\ d \in wheel'[m][WheelSize - silence'[d]]
             /\ \A i \in 1 .. WheelSize : d \in wheel'[m][i] => i <= WheelSize - silence'[d]
  <2>1. CASE d = c
    <3>1. m = l /\ WheelSize - silence'[d] = WheelSize
      BY <1>2, <1>3, <1>4, <2>1, WheelAssumption
    <3> QED
      BY <1>1, <1>3, <2>1, <3>1, WheelAssumption
  <2>2. CASE d # c
    <3>1. InWheel(m, d)
      BY <1>2, <1>4, <2>2
    <3>2. silence'[d] = silence[d] /\ silence[d] \in Nat
      BY <1>3, <2>2 DEF TypeOK
    <3>3. WheelSize - silence[d] \in 1 .. WheelSize
      BY <3>1, <3>2, WheelAssumption DEF WheelInv, SilenceInv
    <3> QED
      BY <1>1, <2>2, <3>1, <3>2, <3>3 DEF WheelInv, SilenceInv
  <2> QED
    BY <2>1, <2>2
<1>5. SilenceInv'
  BY <1>2, <1>3, <1>4 DEF WheelInv, SilenceInv
<1> QED
  BY <1>2, <1>5

LEMMA WheelRead ==
    ASSUME TypeOK, LifeInv, WheelInv, NEW l \in IOLoops, NEW c \in Conns, HandleRead(l, c)
    PROVE  WheelInv'
<1>1. UNCHANGED <<connVars, expiring, pending, batchVars>>
  BY DEF HandleRead, queueVars
<1>2. l = loopOf[c]
  BY LoopsFacts DEF HandleRead, Take, LifeInv, ReadyInv
<1>3. SilenceInv' /\ \A m \in IOLoops, d \in Conns : InWheel(m, d) => InWheel(m, d)'
  <2>1. CASE UNCHANGED <<wheel, silence>>
    BY <1>1, <2>1, SilenceKept DEF WheelInv, InWheel
  <2>2. CASE EntryAlive(c) /\ wheel' = Rearmed(c) /\ silence' = [silence EXCEPT ![c] = 0]
    <3>1. InWheel(l, c) /\ wheel' = Added(l, c)
      BY <1>2, <2>2 DEF EntryAlive, Rearmed, Added, InWheel
    <3>2. \A m \in IOLoops : c \notin expiring[m] /\ (InWheel(m, c) => m = l)
      BY <1>2, <3>1 DEF LifeInv, EntryInv, WheelInv, SilenceInv
    <3> QED
      BY <1>1, <2>2, <3>1, <3>2, SilenceBroken
  <2> QED
    <3>1. \/ UNCHANGED <<wheel, silence>>
          \/ /\ wheel' = Rearmed(c)
             /\ silence' = [silence EXCEPT ![c] = IF EntryAlive(c) THEN 0 ELSE @]
      BY DEF HandleRead
    <3>2. CASE ~EntryAlive(c) /\ wheel' = Rearmed(c)
               /\ silence' = [silence EXCEPT ![c] = IF EntryAlive(c) THEN 0 ELSE @]
      BY <2>1, <3>2 DEF Rearmed, TypeOK
    <3> QED
      BY <2>1, <2>2, <3>1, <3>2
<1>4. \A d \in Conns : Held(Main, <<"remove", d>>)' <=> Held(Main, <<"remove", d>>)
  BY <1>1, SameAt DEF batchVars
<1>5. ArmedInv'
  BY <1>1, <1>3, <1>4, ArmedKept, ConnectedOnLoop DEF WheelInv, connVars, TypeOK
<1>6. DoneInv'
  BY <1>1, DoneKept DEF WheelInv, batchVars, connVars
<1> QED
  BY <1>3, <1>5, <1>6 DEF WheelInv

LEMMA WheelClose ==
    ASSUME TypeOK, LifeInv, WheelInv, NEW l \in IOLoops, NEW c \in Conns, HandleClose(l, c)
    PROVE  WheelInv'
<1>1. UNCHANGED <<connVars, wheelVars, batchVars>> /\ Post(Main, <<"remove", c>>)
  BY DEF HandleClose
<1>2. \A d \in Conns : Held(Main, <<"remove", d>>) => Held(Main, <<"remove", d>>)'
  BY <1>1, PostEffect, TaskKinds, LoopsFacts
<1>3. ArmedInv'
  BY <1>1, <1>2, ArmedKept, ConnectedOnLoop DEF WheelInv, wheelVars, connVars, InWheel, TypeOK
<1>4. DoneInv'
  BY <1>1, DoneKept DEF WheelInv, batchVars, connVars
<1>5. SilenceInv'
  BY <1>1, SilenceKept DEF WheelInv, wheelVars
<1> QED
  BY <1>3, <1>4, <1>5 DEF WheelInv

LEMMA WheelBatch ==
    ASSUME TypeOK, LifeInv, WheelInv, NEW l \in Loops, Swap(l) \/ EndFunctors(l)
    PROVE  WheelInv'
<1>1. UNCHANGED <<connVars, wheelVars>>
  BY DEF Swap, EndFunctors
<1>2. SilenceInv'
  BY <1>1, SilenceKept DEF WheelInv, wheelVars
<1>3. \A d \in Conns : Held(Main, <<"remove", d>>) =>
         Held(Main, <<"remove", d>>)' \/ d \notin connectionMap
  <2>1. CASE Swap(l)
    BY <2>1, SwapEffect, TaskKinds, LoopsFacts
  <2>2. CASE EndFunctors(l) /\ l # Main
    <3>1. pending'[Main] = pending[Main] /\ functors'[Main] = functors[Main]
          /\ nextFunctor'[Main] = nextFunctor[Main]
      BY <2>2 DEF EndFunctors, queueVars, TypeOK
    <3> QED
      BY <3>1, SameAt
  <2>3. CASE EndFunctors(l) /\ l = Main
    <3>1. pending' = pending /\ nextFunctor[Main] > Len(functors[Main])
      BY <2>3 DEF EndFunctors, queueVars, Running, TypeOK
    <3>2. ASSUME NEW d \in Conns, Held(Main, <<"remove", d>>)
          PROVE  Held(Main, <<"remove", d>>)' \/ d \notin connectionMap
      <4>1. CASE Has(pending[Main], <<"remove", d>>)
        BY <3>1, <4>1 DEF Held
      <4>2. CASE Has(functors[Main], <<"remove", d>>)
        <5>1. PICK i \in DOMAIN functors[Main] : functors[Main][i] = <<"remove", d>>
          BY <4>2 DEF Has
        <5>2. Len(functors[Main]) \in Nat /\ nextFunctor[Main] \in Nat
              /\ DOMAIN functors[Main] = 1 .. Len(functors[Main])
          BY LoopsFacts DEF TypeOK
        <5>3. i < nextFunctor[Main]
          BY <3>1, <5>2
        <5> QED
          BY <5>1, <5>3 DEF WheelInv, DoneInv, Done
      <4> QED
        BY <3>2, <4>1, <4>2 DEF Held
    <3> QED
      BY <3>2
  <2> QED
    BY <2>1, <2>2, <2>3
<1>4. ArmedInv'
  BY <1>1, <1>3, ConnectedOnLoop
     DEF WheelInv, ArmedInv, Armed, InWheel, wheelVars, connVars
<1>5. DoneInv'
  <2>1. CASE l # Main
    <3>1. functors'[Main] = functors[Main] /\ nextFunctor'[Main] = nextFunctor[Main]
      BY <2>1, LoopsFacts DEF Swap, EndFunctors, TypeOK
    <3> QED
      BY <1>1, <3>1, DoneKept DEF WheelInv, connVars
  <2>2. CASE l = Main
    <3>1. nextFunctor'[Main] = 1
      BY <2>2, LoopsFacts DEF Swap, EndFunctors, TypeOK
    <3>2. functors'[Main] \in Seq(Tasks)
      <4>1. CASE Swap(l)
        BY <2>2, <4>1, LoopsFacts DEF Swap, TypeOK
      <4>2. CASE EndFunctors(l)
        BY <2>2, <4>2, LoopsFacts DEF EndFunctors, TypeOK
      <4> QED
        BY <4>1, <4>2
    <3>3. \A i \in DOMAIN functors'[Main] : ~(i < nextFunctor'[Main])
      BY <3>1, <3>2
    <3> QED
      BY <3>3 DEF DoneInv, Done
  <2> QED
    BY <2>1, <2>2
<1> QED
  BY <1>2, <1>4, <1>5 DEF WheelInv

LEMMA WheelAccept ==
    ASSUME TypeOK, LifeInv, WheelInv, NEW c \in Conns, HandleAccept(c)
    PROVE  WheelInv'
<1>1. UNCHANGED <<wheelVars, batchVars>> /\ connectionMap' = connectionMap \cup {c}
  BY DEF HandleAccept
<1>2. PICK n \in Loops : n = nextLoop /\ Post(n, <<"established", c>>)
  BY LoopsFacts DEF HandleAccept, TypeOK
<1>3. \A d \in Conns : Held(Main, <<"remove", d>>) => Held(Main, <<"remove", d>>)'
  BY <1>1, <1>2, PostEffect, TaskKinds, LoopsFacts
<1>4. /\ \A d \in Conns : d # c => state'[d] = state[d] /\ loopOf'[d] = loopOf[d]
      /\ state'[c] = "new"
  BY DEF HandleAccept, TypeOK
<1>5. ArmedInv'
  BY <1>1, <1>3, <1>4, ArmedKept, ConnectedOnLoop DEF WheelInv, wheelVars, InWheel, TypeOK
<1>6. state[c] = "absent"
  BY DEF HandleAccept, LifeInv, StateInv
<1>7. ~Done(c)
  <2>1. Done(c) => Held(Main, <<"remove", c>>)
    BY DEF Done, Held, Has
  <2> QED
    BY <1>6, <2>1, LoopsFacts DEF LifeInv, TaskInv, Up
<1>8. DoneInv'
  BY <1>1, <1>7, DoneKept DEF WheelInv, batchVars
<1>9. SilenceInv'
  BY <1>1, SilenceKept DEF WheelInv, wheelVars
<1> QED
  BY <1>5, <1>8, <1>9 DEF WheelInv

LEMMA WheelRemove ==
    ASSUME TypeOK, LifeInv, WheelInv, NEW c \in Conns, RemoveConnectionInLoop(c)
    PROVE  WheelInv'
<1>1. UNCHANGED <<loopOf, state, wheelVars>> /\ connectionMap' = connectionMap \ {c}
      /\ functors' = functors /\ RunTask(Main, "remove", c)
  BY DEF RemoveConnectionInLoop
<1>2. \A d \in Conns : Held(Main, <<"remove", d>>) => Held(Main, <<"remove", d>>)'
  BY RemoveEffect, LoopsFacts
<1>3. ArmedInv'
  BY <1>1, <1>2, ArmedKept, ConnectedOnLoop DEF WheelInv, wheelVars, InWheel, TypeOK
<1>4. ASSUME NEW d \in Conns, Done(d)'
      PROVE  Done(d) \/ d = c
  <2>1. nextFunctor'[Main] = nextFunctor[Main] + 1 /\ nextFunctor[Main] \in Nat
        /\ functors[Main][nextFunctor[Main]] = <<"remove", c>>
    BY <1>1, LoopsFacts DEF RunTask, Current, TypeOK
  <2>2. PICK i \in DOMAIN functors[Main] :
           i < nextFunctor[Main] + 1 /\ functors[Main][i] = <<"remove", d>>
    BY <1>1, <1>4, <2>1 DEF Done
  <2>3. i < nextFunctor[Main] \/ i = nextFunctor[Main]
    <3>1. functors[Main] \in Seq(Tasks)
      BY LoopsFacts DEF TypeOK
    <3>2. i \in Nat
      BY <2>2, <3>1
    <3> QED
      BY <2>1, <2>2, <3>2
  <2>4. CASE i = nextFunctor[Main]
    BY <2>1, <2>2, <2>4, TaskKinds
  <2> QED
    BY <2>2, <2>3, <2>4 DEF Done
<1>5. DoneInv'
  BY <1>1, <1>4 DEF WheelInv, DoneInv
<1>6. SilenceInv'
  BY <1>1, SilenceKept DEF WheelInv, wheelVars
<1> QED
  BY <1>3, <1>5, <1>6 DEF WheelInv

LEMMA IORunsElsewhere ==
    ASSUME TypeOK, NEW l \in IOLoops, NEW kind, NEW c, RunTask(l, kind, c)
    PROVE  nextFunctor'[Main] = nextFunctor[Main]
BY LoopsFacts DEF RunTask, TypeOK

LEMMA WheelEstablished ==
    ASSUME TypeOK, LifeInv, WheelInv, NEW l \in IOLoops, NEW c \in Conns,
           ConnectEstablished(l, c)
    PROVE  WheelInv'
<1>1. /\ UNCHANGED <<loopOf, connectionMap, expiring, pending, functors>>
      /\ wheel' = Added(l, c) /\ silence' = [silence EXCEPT ![c] = 0]
      /\ RunTask(l, "established", c)
  BY DEF ConnectEstablished, Added, queueVars
<1>2. state[c] = "new" /\ loopOf[c] = l
  BY <1>1, CurrentIsDue, LoopsFacts DEF RunTask, LifeInv, TaskInv
<1>3. \A m \in IOLoops : c \notin expiring[m] /\ ~InWheel(m, c)
  BY <1>2 DEF LifeInv, EntryInv, Up
<1>4. SilenceInv' /\ \A m \in IOLoops, d \in Conns : InWheel(m, d) => InWheel(m, d)'
  BY <1>1, <1>3, SilenceBroken
<1>5. nextFunctor'[Main] = nextFunctor[Main]
  BY <1>1, IORunsElsewhere
<1>6. \A d \in Conns : Held(Main, <<"remove", d>>)' <=> Held(Main, <<"remove", d>>)
  BY <1>1, <1>5, SameAt
<1>7. \A d \in Conns : d # c => state'[d] = state[d]
  BY DEF ConnectEstablished, TypeOK
<1>8. ArmedInv'
  <2> SUFFICES ASSUME NEW d \in connectionMap, state'[d] = "connected"
               PROVE  Armed(d)'
    BY <1>1 DEF ArmedInv
  <2>1. PICK m \in IOLoops : m = loopOf[d] /\ d \in Conns
    BY ConnectedOnLoop
  <2>2. CASE d = c
    <3>1. c \in wheel'[l][WheelSize]
      BY <1>1, AddedBuckets, LoopsFacts
    <3> QED
      BY <1>1, <1>2, <2>2, <3>1, LoopsFacts DEF Armed, InWheel
  <2>3. CASE d # c
    <3>1. Armed(d)
      BY <1>7, <2>1, <2>3 DEF WheelInv, ArmedInv
    <3>2. InWheel(m, d) => InWheel(m, d)'
      BY <1>4, <2>1
    <3>3. InWheel(loopOf[d], d) => InWheel(loopOf[d], d)'
      BY <1>1, <2>1, <3>2 DEF InWheel
    <3> QED
      BY <1>1, <1>6, <2>1, <3>1, <3>3 DEF Armed
  <2> QED
    BY <2>2, <2>3
<1>9. DoneInv'
  BY <1>1, <1>5, DoneKept DEF WheelInv
<1> QED
  BY <1>4, <1>8, <1>9 DEF WheelInv

LEMMA WheelDestroyed ==
    ASSUME TypeOK, LifeInv, WheelInv, NEW l \in IOLoops, NEW c \in Conns,
           ConnectDestroyed(l, c)
    PROVE  WheelInv'
<1>1. /\ UNCHANGED <<loopOf, connectionMap, wheelVars, pending, functors>>
      /\ RunTask(l, "destroyed", c)
  BY DEF ConnectDestroyed, queueVars
<1>2. nextFunctor'[Main] = nextFunctor[Main]
  BY <1>1, IORunsElsewhere
<1>3. \A d \in Conns : Held(Main, <<"remove", d>>)' <=> Held(Main, <<"remove", d>>)
  BY <1>1, <1>2, SameAt
<1>4. \A d \in Conns : state'[d] = "connected" => state[d] = "connected"
  BY DEF ConnectDestroyed, TypeOK
<1>5. ArmedInv'
  BY <1>1, <1>3, <1>4, ArmedKept, ConnectedOnLoop DEF WheelInv, wheelVars, InWheel, TypeOK
<1>6. DoneInv'
  BY <1>1, <1>2, DoneKept DEF WheelInv
<1>7. SilenceInv'
  BY <1>1, SilenceKept DEF WheelInv, wheelVars
<1> QED
  BY <1>5, <1>6, <1>7 DEF WheelInv

LEMMA WheelExpire ==
    ASSUME TypeOK, LifeInv, WheelInv, NEW l \in IOLoops, NEW c \in Conns, Expire(l, c)
    PROVE  WheelInv'
<1>1. UNCHANGED <<connVars, wheel, silence, batchVars>>
      /\ expiring' = [expiring EXCEPT ![l] = @ \ {c}]
  BY DEF Expire
<1>2. \A d \in Conns : Held(Main, <<"remove", d>>) => Held(Main, <<"remove", d>>)'
  <2>1. CASE Post(Main, <<"remove", c>>)
    BY <1>1, <2>1, PostEffect, TaskKinds, LoopsFacts
  <2>2. CASE UNCHANGED queueVars
    BY <1>1, <2>2, SameAt DEF queueVars, batchVars
  <2> QED
    BY <2>1, <2>2 DEF Expire
<1>3. c \in connectionMap => Held(Main, <<"remove", c>>)'
  <2>1. CASE Post(Main, <<"remove", c>>)
    <3>1. \A m \in Loops, u \in Tasks :
             Held(m, u)' <=> Held(m, u) \/ (m = Main /\ u = <<"remove", c>>)
      BY <1>1, <2>1, PostEffect, TaskKinds, LoopsFacts
    <3> QED
      BY <3>1, TaskKinds, LoopsFacts
  <2>2. CASE ~Alive(c)
    BY <2>2 DEF Alive
  <2> QED
    BY <2>1, <2>2 DEF Expire
<1>4. ArmedInv'
  <2> SUFFICES ASSUME NEW d \in connectionMap, state[d] = "connected"
               PROVE  Armed(d)'
    BY <1>1 DEF ArmedInv, connVars
  <2>1. d \in Conns /\ Armed(d)
    BY ConnectedOnLoop DEF WheelInv, ArmedInv
  <2>2. CASE d = c
    BY <1>3, <2>2 DEF Armed
  <2>3. CASE d # c
    <3>1. \A m \in IOLoops : d \in expiring[m] => d \in expiring'[m]
      BY <1>1, <2>3 DEF TypeOK
    <3>2. InWheel(loopOf[d], d) => InWheel(loopOf[d], d)'
      BY <1>1 DEF InWheel, connVars
    <3> QED
      BY <1>2, <2>1, <3>1, <3>2 DEF Armed
  <2> QED
    BY <2>2, <2>3
<1>5. DoneInv'
  BY <1>1, DoneKept DEF WheelInv, batchVars, connVars
<1>6. \A m \in IOLoops : expiring'[m] \subseteq expiring[m]
  BY <1>1 DEF TypeOK
<1>7. SilenceInv'
  BY <1>1, <1>6, SilenceKept DEF WheelInv
<1> QED
  BY <1>4, <1>5, <1>7 DEF WheelInv

(* The wheel turns: an entry in its newest bucket moves one bucket on, and is  *)
(* destroyed when that was the oldest.                                         *)
LEMMA Turned ==
    ASSUME TypeOK, LifeInv, WheelInv, NEW l \in IOLoops, Click(l),
           NEW c \in Conns, InWheel(l, c)
    PROVE  /\ silence'[c] = silence[c] + 1
           /\ silence[c] = WheelSize - 1 => c \in expiring'[l] /\ ~InWheel(l, c)'
           /\ silence[c] # WheelSize - 1 =>
                 /\ c \notin expiring'[l] /\ InWheel(l, c)'
                 /\ silence[c] + 1 < WheelSize
                 /\ c \in wheel'[l][WheelSize - (silence[c] + 1)]
                 /\ \A i \in 1 .. WheelSize :
                       c \in wheel'[l][i] => i <= WheelSize - (silence[c] + 1)
<1>1. /\ silence[c] \in Nat /\ silence[c] < WheelSize /\ c \in wheel[l][WheelSize - silence[c]]
      /\ \A i \in 1 .. WheelSize : c \in wheel[l][i] => i <= WheelSize - silence[c]
  BY DEF WheelInv, SilenceInv, TypeOK
<1>2. \A i \in 1 .. WheelSize : wheel'[l][i] = IF i = WheelSize THEN {} ELSE wheel[l][i + 1]
  <2>1. wheel[l] \in Wheels /\ wheel'[l] = Append(Tail(wheel[l]), {})
    BY DEF Click, TypeOK, Wheels
  <2> QED
    BY <2>1, TurnedWheel
<1>3. c \in expiring'[l] <=>
         c \in wheel[l][1] /\ \A i \in 2 .. WheelSize : c \notin wheel[l][i]
  BY DEF Click, TypeOK
<1>4. silence'[c] = silence[c] + 1
  <2>1. loopOf[c] = l /\ EntryAlive(c)
    BY DEF LifeInv, EntryInv, EntryAlive, InWheel
  <2> QED
    BY <2>1 DEF Click, Aged
<1>5. ASSUME silence[c] = WheelSize - 1
      PROVE  c \in expiring'[l] /\ ~InWheel(l, c)'
  <2>1. c \in wheel[l][1] /\ \A i \in 2 .. WheelSize : c \notin wheel[l][i]
    BY <1>1, <1>5, WheelAssumption
  <2>2. \A i \in 1 .. WheelSize : c \notin wheel'[l][i]
    BY <1>2, <2>1, WheelAssumption
  <2> QED
    BY <1>3, <2>1, <2>2 DEF InWheel
<1>6. ASSUME silence[c] # WheelSize - 1
      PROVE  /\ c \notin expiring'[l] /\ InWheel(l, c)'
             /\ silence[c] + 1 < WheelSize
             /\ c \in wheel'[l][WheelSize - (silence[c] + 1)]
             /\ \A i \in 1 .. WheelSize :
                   c \in wheel'[l][i] => i <= WheelSize - (silence[c] + 1)
  <2>1. silence[c] + 1 < WheelSize /\ WheelSize - silence[c] \in 2 .. WheelSize
    BY <1>1, <1>6, WheelAssumption
  <2>2. c \notin expiring'[l]
    BY <1>1, <1>3, <2>1
  <2>3. WheelSize - (silence[c] + 1) \in 1 .. WheelSize
        /\ WheelSize - (silence[c] + 1) # WheelSize
        /\ (WheelSize - (silence[c] + 1)) + 1 = WheelSize - silence[c]
    BY <1>1, <2>1, WheelAssumption
  <2>4. c \in wheel'[l][WheelSize - (silence[c] + 1)]
    BY <1>1, <1>2, <2>3
  <2>5. ASSUME NEW i \in 1 .. WheelSize, c \in wheel'[l][i]
        PROVE  i <= WheelSize - (silence[c] + 1)
    <3>1. i # WheelSize /\ c \in wheel[l][i + 1]
      BY <1>2, <2>5
    <3>2. i + 1 \in 1 .. WheelSize
      BY <3>1, WheelAssumption
    <3>3. i + 1 <= WheelSize - silence[c]
      BY <1>1, <3>1, <3>2
    <3> QED
      BY <1>1, <3>3, WheelAssumption
  <2> QED
    BY <2>1, <2>2, <2>3, <2>4, <2>5 DEF InWheel
<1> QED
  BY <1>4, <1>5, <1>6

LEMMA WheelClick ==
    ASSUME TypeOK, LifeInv, WheelInv, NEW l \in IOLoops, Click(l)
    PROVE  WheelInv'
<1>1. UNCHANGED <<connVars, pending, batchVars>>
  BY DEF Click, queueVars
<1>2. expiring[l] = {}
  BY DEF Click, TypeOK
<1>3. \A m \in IOLoops : m # l => wheel'[m] = wheel[m] /\ expiring'[m] = expiring[m]
  BY DEF Click, TypeOK
<1>4. \A m \in IOLoops, d \in Conns : m # l => (InWheel(m, d)' <=> InWheel(m, d))
  BY <1>3 DEF InWheel
<1>5. ASSUME NEW d \in Conns, ~InWheel(l, d)
      PROVE  ~InWheel(l, d)' /\ d \notin expiring'[l] /\ silence'[d] = silence[d]
  <2>1. wheel[l] \in Wheels /\ wheel'[l] = Append(Tail(wheel[l]), {})
    BY DEF Click, TypeOK, Wheels
  <2>2. \A i \in 1 .. WheelSize : wheel'[l][i] = IF i = WheelSize THEN {} ELSE wheel[l][i + 1]
    BY <2>1, TurnedWheel
  <2>3. ASSUME NEW i \in 1 .. WheelSize, d \in wheel'[l][i]
        PROVE  FALSE
    <3>1. d \in wheel[l][i + 1] /\ i + 1 \in 1 .. WheelSize
      BY <2>2, <2>3, WheelAssumption
    <3> QED
      BY <1>5, <3>1 DEF InWheel
  <2>4. 1 \in 1 .. WheelSize
    BY WheelAssumption
  <2>5. d \notin expiring'[l]
    BY <1>5, <2>4 DEF Click, InWheel, TypeOK
  <2>6. silence'[d] = silence[d]
    BY <1>5 DEF Click, Aged, EntryAlive, InWheel
  <2> QED
    BY <2>3, <2>5, <2>6 DEF InWheel
<1>6. ASSUME NEW m \in IOLoops, NEW d \in Conns, m # l, InWheel(m, d) \/ d \in expiring[m]
      PROVE  silence'[d] = silence[d]
  <2>1. loopOf[d] = m
    BY <1>6 DEF LifeInv, EntryInv
  <2> QED
    BY <1>6, <2>1 DEF Click, Aged
<1>7. SilenceInv'
  <2> SUFFICES ASSUME NEW m \in IOLoops, NEW d \in Conns
               PROVE  (/\ InWheel(m, d) =>
                             /\ silence[d] < WheelSize
                             /\ d \in wheel[m][WheelSize - silence[d]]
                             /\ \A i \in 1 .. WheelSize :
                                   d \in wheel[m][i] => i <= WheelSize - silence[d]
                       /\ d \in expiring[m] => silence[d] = WheelSize /\ ~InWheel(m, d))'
    BY DEF SilenceInv
  <2>1. CASE m # l
    BY <1>3, <1>4, <1>6, <2>1 DEF WheelInv, SilenceInv
  <2>2. CASE m = l /\ InWheel(l, d)
    BY <2>2, Turned, WheelAssumption
  <2>3. CASE m = l /\ ~InWheel(l, d)
    BY <1>5, <2>3
  <2> QED
    BY <2>1, <2>2, <2>3
<1>8. \A d \in Conns : Held(Main, <<"remove", d>>)' <=> Held(Main, <<"remove", d>>)
  BY <1>1, SameAt DEF batchVars
<1>9. ArmedInv'
  <2> SUFFICES ASSUME NEW d \in connectionMap, state[d] = "connected"
               PROVE  Armed(d)'
    BY <1>1 DEF ArmedInv, connVars
  <2>1. PICK m \in IOLoops : m = loopOf[d] /\ d \in Conns
    BY ConnectedOnLoop
  <2>2. InWheel(m, d) \/ Held(Main, <<"remove", d>>) \/ \E k \in IOLoops : d \in expiring[k]
    <3>1. Armed(d)
      BY DEF WheelInv, ArmedInv
    <3> QED
      BY <2>1, <3>1 DEF Armed
  <2>3. InWheel(m, d) => InWheel(m, d)' \/ d \in expiring'[m]
    BY <1>4, <2>1, Turned
  <2>4. \A k \in IOLoops : d \in expiring[k] => d \in expiring'[k]
    BY <1>2, <1>3
  <2>5. InWheel(m, d)' => InWheel(loopOf[d], d)'
    BY <1>1, <2>1 DEF InWheel, connVars
  <2> QED
    BY <1>8, <2>1, <2>2, <2>3, <2>4, <2>5 DEF Armed
<1>10. DoneInv'
  BY <1>1, DoneKept DEF WheelInv, batchVars, connVars
<1> QED
  BY <1>7, <1>9, <1>10 DEF WheelInv

LEMMA WheelStep == TypeOK /\ LifeInv /\ WheelInv /\ [Next]_vars => WheelInv'
<1> SUFFICES ASSUME TypeOK, LifeInv, WheelInv, [Next]_vars
             PROVE  WheelInv'
  OBVIOUS
<1>1. CASE UNCHANGED vars
  BY <1>1, WheelQuiet DEF vars, batchVars
<1>2. ASSUME NEW c \in Conns, ClientStep(c)
      PROVE  WheelInv'
  BY <1>2, WheelQuiet DEF ClientStep, Connect, Send, HalfClose, Reset, connVars, queueVars
<1>3. ASSUME NEW l \in Loops, Poll(l) \/ HandleWakeup(l) \/ EndIteration(l)
      PROVE  WheelInv'
  BY <1>3, WheelQuiet DEF Poll, HandleWakeup, EndIteration, connVars, queueVars
<1>4. CASE MainStep
  BY <1>3, <1>4, WheelBatch, WheelAccept, WheelRemove, LoopsFacts DEF MainStep, LoopStep
<1>5. ASSUME NEW l \in IOLoops, IOStep(l)
      PROVE  WheelInv'
  <2>1. l \in Loops
    BY LoopsFacts
  <2> QED
    BY <1>3, <1>5, <2>1, WheelBatch, WheelClick, WheelRead, WheelClose, WheelEstablished,
       WheelDestroyed, WheelExpire DEF IOStep, LoopStep
<1> QED
  BY <1>1, <1>2, <1>4, <1>5 DEF Next

LEMMA WheelCorrect == Spec => [](TypeOK /\ LifeInv /\ WheelInv)
<1>1. Init => WheelInv
  BY WheelInit
<1>2. TypeOK /\ LifeInv /\ WheelInv /\ [Next]_vars => WheelInv'
  BY WheelStep
<1> QED
  BY <1>1, <1>2, LifeCorrect, PTL DEF Spec

\* A connection that is up has its entry in the wheel or is about to be removed.
THEOREM TimerStaysArmed == Spec => []TimerArmed
<1>1. TypeOK /\ LifeInv /\ WheelInv => TimerArmed
  <2> SUFFICES ASSUME TypeOK, LifeInv, WheelInv, NEW c \in connectionMap,
                      state[c] = "connected"
               PROVE  EntryAlive(c) \/ Removing(c)
    BY DEF TimerArmed
  <2>1. Armed(c) /\ loopOf[c] \in IOLoops
    BY ConnectedOnLoop DEF WheelInv, ArmedInv
  <2>2. InWheel(loopOf[c], c) => EntryAlive(c)
    BY <2>1 DEF InWheel, EntryAlive
  <2>3. Held(Main, <<"remove", c>>) => Removing(c)
    BY DEF Held, Has, Removing
  <2> QED
    BY <2>1, <2>2, <2>3 DEF Armed, Removing
<1> QED
  BY WheelCorrect, <1>1, PTL

\* The timer closes nobody who was heard of in the last WheelSize turns.
THEOREM SilentOnesExpire == Spec => []OnlySilentExpire
<1>1. TypeOK /\ WheelInv => OnlySilentExpire
  BY DEF WheelInv, SilenceInv, OnlySilentExpire, TypeOK
<1> QED
  BY WheelCorrect, <1>1, PTL

-----------------------------------------------------------------------------
(* What the server promises its clients.                                     *)

Cause(c) == peer[c] = "rst" \/ silence[c] = WheelSize

\* Who is to be removed has given cause, and will have.
CauseInv ==
    \A c \in Conns :
        /\ Held(Main, <<"remove", c>>) => Cause(c)
        /\ \A l \in Loops : <<c, "hup">> \in ready[l] => peer[c] = "rst"
        /\ state[c] \in {"absent", "new"} => silence[c] = 0

LEMMA CauseInit == Init => CauseInv
<1> SUFFICES ASSUME Init
             PROVE  CauseInv
  OBVIOUS
<1>1. \A c \in Conns : ~Held(Main, <<"remove", c>>)
  <2>1. pending[Main] = << >> /\ functors[Main] = << >>
    BY LoopsFacts DEF Init
  <2> QED
    BY <2>1 DEF Held, Has
<1>2. \A c \in Conns : silence[c] = 0 /\ \A l \in Loops : ready[l] = {}
  BY DEF Init
<1> QED
  BY <1>1, <1>2 DEF CauseInv

LEMMA PeerAdvances ==
    ASSUME TypeOK, [Next]_vars, NEW c \in Conns, peer[c] = "rst"
    PROVE  peer'[c] = "rst"
<1>1. ASSUME NEW d \in Conns, ClientStep(d)
      PROVE  peer'[c] = "rst"
  BY <1>1 DEF ClientStep, Connect, Send, HalfClose, Reset, TypeOK
<1>2. UNCHANGED peer \/ \E d \in Conns : ClientStep(d)
  BY ZenonT(40) DEF Next, MainStep, IOStep, LoopStep, vars, clientVars, Poll, HandleWakeup,
         HandleAccept, HandleRead, HandleClose, Swap, ConnectEstablished, ConnectDestroyed,
         RemoveConnectionInLoop, EndFunctors, Click, Expire, EndIteration
<1> QED
  BY <1>1, <1>2

\* An entry alive has not been silent for the whole wheel.
LEMMA AliveIsPatient ==
    ASSUME TypeOK, WheelInv, NEW c \in Conns, EntryAlive(c)
    PROVE  silence[c] < WheelSize
BY DEF EntryAlive, InWheel, WheelInv, SilenceInv

LEMMA SilenceSteps ==
    ASSUME [Next]_vars
    PROVE  \/ UNCHANGED silence
           \/ \E l \in IOLoops : Click(l)
           \/ \E l \in IOLoops, c \in Conns : HandleRead(l, c) \/ ConnectEstablished(l, c)
BY ZenonT(40) DEF Next, MainStep, IOStep, LoopStep, ClientStep, vars, wheelVars, Connect, Send,
       HalfClose, Reset, Poll, HandleWakeup, HandleAccept, HandleClose, Swap, ConnectDestroyed,
       RemoveConnectionInLoop, EndFunctors, Expire, EndIteration

LEMMA EstablishedNow ==
    ASSUME TypeOK, LifeInv, CauseInv, NEW l \in IOLoops, NEW c \in Conns, ConnectEstablished(l, c)
    PROVE  state[c] = "new" /\ silence[c] = 0 /\ silence' = silence /\ loopOf[c] = l
<1>1. state[c] = "new" /\ loopOf[c] = l
  BY CurrentIsDue, LoopsFacts DEF ConnectEstablished, RunTask, LifeInv, TaskInv
<1>2. silence[c] = 0
  BY <1>1 DEF CauseInv
<1>3. silence' = [silence EXCEPT ![c] = 0]
  BY DEF ConnectEstablished
<1> QED
  BY <1>1, <1>2, <1>3 DEF TypeOK

\* Who was silent for the whole wheel remains so: the timer is gone.
LEMMA SilenceIsFinal ==
    ASSUME TypeOK, LifeInv, WheelInv, CauseInv, [Next]_vars, NEW c \in Conns,
           silence[c] = WheelSize
    PROVE  silence'[c] = WheelSize
<1>1. ~EntryAlive(c)
  BY AliveIsPatient, WheelAssumption
<1>2. ASSUME NEW l \in IOLoops, Click(l)
      PROVE  silence'[c] = silence[c]
  BY <1>1, <1>2 DEF Click, Aged
<1>3. ASSUME NEW l \in IOLoops, NEW d \in Conns, HandleRead(l, d)
      PROVE  silence'[c] = silence[c]
  BY <1>1, <1>3 DEF HandleRead, TypeOK
<1> QED
  BY <1>2, <1>3, EstablishedNow, SilenceSteps

LEMMA SilenceBegins ==
    ASSUME TypeOK, LifeInv, CauseInv, [Next]_vars, NEW c \in Conns,
           state'[c] \in {"absent", "new"}
    PROVE  silence'[c] = 0
<1>1. state[c] \in {"absent", "new"}
  <2>1. \/ state' = state
        \/ \E d \in Conns : HandleAccept(d)
        \/ \E l \in IOLoops, d \in Conns : ConnectEstablished(l, d) \/ ConnectDestroyed(l, d)
    BY ZenonT(40) DEF Next, MainStep, IOStep, LoopStep, ClientStep, vars, connVars,
           Connect, Send, HalfClose, Reset, Poll, HandleWakeup, HandleRead, HandleClose, Swap,
           RemoveConnectionInLoop, EndFunctors, Click, Expire, EndIteration
  <2>2. ASSUME NEW d \in Conns, HandleAccept(d)
        PROVE  state[d] = "absent" /\ \A e \in Conns : e # d => state'[e] = state[e]
    BY <2>2 DEF HandleAccept, LifeInv, StateInv, TypeOK
  <2>3. ASSUME NEW l \in IOLoops, NEW d \in Conns,
               ConnectEstablished(l, d) \/ ConnectDestroyed(l, d)
        PROVE  state'[d] \in Up /\ \A e \in Conns : e # d => state'[e] = state[e]
    BY <2>3 DEF ConnectEstablished, ConnectDestroyed, TypeOK, Up
  <2> QED
    BY <2>1, <2>2, <2>3 DEF Up
<1>2. silence[c] = 0
  BY <1>1 DEF CauseInv
<1>3. ~EntryAlive(c)
  BY <1>1 DEF EntryAlive, LifeInv, EntryInv, InWheel, Up
<1>4. ASSUME NEW l \in IOLoops, Click(l)
      PROVE  silence'[c] = silence[c]
  BY <1>3, <1>4 DEF Click, Aged
<1>5. ASSUME NEW l \in IOLoops, NEW d \in Conns, HandleRead(l, d)
      PROVE  silence'[c] = silence[c]
  BY <1>3, <1>5 DEF HandleRead, TypeOK
<1> QED
  BY <1>2, <1>4, <1>5, EstablishedNow, SilenceSteps

LEMMA HangUpReported ==
    ASSUME TypeOK, CauseInv, [Next]_vars, NEW c \in Conns, NEW l \in Loops,
           <<c, "hup">> \in ready'[l]
    PROVE  peer[c] = "rst"
<1>1. \/ ready' = ready
      \/ \E m \in Loops : Poll(m)
      \/ \E m \in Loops, e \in Events : Take(m, e)
  <2>1. WakeupEvent \in Events /\ AcceptEvent \in Events
        /\ \A d \in Conns : <<d, "in">> \in Events /\ <<d, "hup">> \in Events
    BY DEF Events, ConnEvents
  <2> QED
    BY <2>1, LoopsFacts, ZenonT(60) DEF Next, MainStep, IOStep, LoopStep, ClientStep, vars, Connect,
           Send, HalfClose, Reset, HandleWakeup, HandleAccept, HandleRead, HandleClose, Swap,
           ConnectEstablished, ConnectDestroyed, RemoveConnectionInLoop, EndFunctors, Click, Expire,
           EndIteration
<1>2. ASSUME NEW m \in Loops, Poll(m), l = m
      PROVE  peer[c] = "rst"
  <2>1. <<c, "hup">> \in EventsOf(l)
    BY <1>2 DEF Poll, TypeOK
  <2> QED
    BY <2>1 DEF EventsOf, Reported, WakeupEvent, AcceptEvent
<1>3. ASSUME NEW m \in Loops, Poll(m), l # m
      PROVE  ready'[l] = ready[l]
  BY <1>3 DEF Poll, TypeOK
<1>4. ASSUME NEW m \in Loops, NEW e \in Events, Take(m, e)
      PROVE  ready'[l] \subseteq ready[l]
  BY <1>4 DEF Take, TypeOK
<1> QED
  BY <1>1, <1>2, <1>3, <1>4 DEF CauseInv

\* Only a hang-up and an expiry ask for a removal.
LEMMA RemovalAsked ==
    ASSUME TypeOK, LifeInv, [Next]_vars, NEW c \in Conns, Held(Main, <<"remove", c>>)'
    PROVE  \/ Held(Main, <<"remove", c>>)
           \/ \E l \in IOLoops : HandleClose(l, c) \/ Expire(l, c)
<1> DEFINE task == <<"remove", c>>
<1>0. task \in Tasks /\ Main \in Loops
  BY TaskKinds, LoopsFacts
<1>1. ASSUME UNCHANGED <<pending, batchVars>>
      PROVE  Held(Main, task)
  BY <1>1, QuietEffect DEF batchVars
<1>2. ASSUME NEW l \in Loops, Swap(l) \/ EndFunctors(l)
      PROVE  Held(Main, task)
  BY <1>0, <1>2, SwapEffect, EndEffect
<1>3. ASSUME NEW d \in Conns, HandleAccept(d)
      PROVE  Held(Main, task)
  <2>1. nextLoop \in Loops /\ <<"established", d>> \in Tasks /\ <<"established", d>> # task
    BY TaskKinds, LoopsFacts DEF TypeOK
  <2>2. Post(nextLoop, <<"established", d>>) /\ UNCHANGED batchVars
    BY <1>3 DEF HandleAccept
  <2> QED
    BY <1>0, <2>1, <2>2, PostEffect
<1>4. ASSUME NEW d \in Conns, RemoveConnectionInLoop(d)
      PROVE  Held(Main, task)
  BY <1>0, <1>4, RemoveEffect
<1>5. ASSUME NEW l \in IOLoops, NEW d \in Conns, ConnectEstablished(l, d) \/ ConnectDestroyed(l, d)
      PROVE  Held(Main, task)
  <2>1. l \in Loops /\ functors' = functors /\ pending' = pending
        /\ (RunTask(l, "established", d) \/ RunTask(l, "destroyed", d))
    BY <1>5, LoopsFacts DEF ConnectEstablished, ConnectDestroyed, queueVars
  <2> QED
    BY <1>0, <2>1, RunEffect
<1>6. ASSUME NEW l \in IOLoops, NEW d \in Conns, HandleClose(l, d) \/ Expire(l, d), d # c
      PROVE  Held(Main, task)
  <2>1. CASE Post(Main, <<"remove", d>>)
    <3>1. <<"remove", d>> \in Tasks /\ <<"remove", d>> # task
      BY <1>6, TaskKinds
    <3>2. UNCHANGED batchVars
      BY <1>6 DEF HandleClose, Expire
    <3> QED
      BY <1>0, <2>1, <3>1, <3>2, PostEffect
  <2>2. CASE UNCHANGED queueVars
    BY <1>1, <1>6, <2>2 DEF HandleClose, Expire, queueVars
  <2> QED
    BY <1>6, <2>1, <2>2 DEF HandleClose, Expire
<1>7. ASSUME NEW l \in Loops, Poll(l) \/ HandleWakeup(l) \/ EndIteration(l) \/ Click(l)
      PROVE  UNCHANGED <<pending, batchVars>>
  BY <1>7 DEF Poll, HandleWakeup, EndIteration, Click, queueVars
<1>8. ASSUME NEW l \in Loops, NEW d \in Conns, HandleRead(l, d) \/ ClientStep(d) \/ UNCHANGED vars
      PROVE  UNCHANGED <<pending, batchVars>>
  BY <1>8 DEF HandleRead, ClientStep, Connect, Send, HalfClose, Reset, queueVars, vars, batchVars
<1>9. ASSUME NEW l \in Loops, LoopStep(l)
      PROVE  Held(Main, task)
  BY <1>1, <1>2, <1>7, <1>9 DEF LoopStep
<1> HIDE DEF task
<1>10. MainStep => Held(Main, task)
  BY <1>0, <1>3, <1>4, <1>9 DEF MainStep
<1>11. ASSUME NEW l \in IOLoops, IOStep(l)
       PROVE  Held(Main, task) \/ HandleClose(l, c) \/ Expire(l, c)
  <2>1. l \in Loops
    BY LoopsFacts
  <2> QED
    BY <1>1, <1>5, <1>6, <1>7, <1>8, <1>9, <1>11, <2>1 DEF IOStep
<1>12. (\E d \in Conns : ClientStep(d)) \/ UNCHANGED vars => Held(Main, task)
  BY <1>1, <1>8, LoopsFacts
<1> QED
  BY <1>10, <1>11, <1>12 DEF Next, task

LEMMA CauseStep == TypeOK /\ LifeInv /\ WheelInv /\ CauseInv /\ [Next]_vars => CauseInv'
<1> SUFFICES ASSUME TypeOK, LifeInv, WheelInv, CauseInv, [Next]_vars, NEW c \in Conns
             PROVE  /\ Held(Main, <<"remove", c>>)' => Cause(c)'
                    /\ \A l \in Loops : <<c, "hup">> \in ready'[l] => peer'[c] = "rst"
                    /\ state'[c] \in {"absent", "new"} => silence'[c] = 0
  BY DEF CauseInv
<1>1. Cause(c) => Cause(c)'
  BY PeerAdvances, SilenceIsFinal DEF Cause
<1>2. ASSUME NEW l \in IOLoops, HandleClose(l, c)
      PROVE  Cause(c)
  BY <1>2, LoopsFacts DEF HandleClose, Take, CauseInv, Cause
<1>3. ASSUME NEW l \in IOLoops, Expire(l, c)
      PROVE  Cause(c)
  BY <1>3 DEF Expire, WheelInv, SilenceInv, Cause
<1>4. Held(Main, <<"remove", c>>)' => Cause(c)'
  BY <1>1, <1>2, <1>3, RemovalAsked DEF CauseInv
<1> QED
  BY <1>4, HangUpReported, PeerAdvances, SilenceBegins

(* Who is alive, in terms of the tasks that hold it.                         *)

Kinds == {"established", "destroyed", "remove"}
AliveMeans ==
    \A c \in Conns :
        Alive(c) <=> c \in connectionMap \/ \E l \in Loops, kind \in Kinds : Held(l, <<kind, c>>)

LEMMA InQueueHas ==
    ASSUME NEW q \in Seq(Tasks), NEW c \in Conns
    PROVE  InQueue(q, c) <=> \E kind \in Kinds : Has(q, <<kind, c>>)
<1>1. ASSUME NEW i \in DOMAIN q, q[i][2] = c
      PROVE  \E kind \in Kinds : q[i] = <<kind, c>>
  <2>1. q[i] \in Tasks
    OBVIOUS
  <2> QED
    BY <1>1, <2>1 DEF Tasks, Kinds
<1> QED
  BY <1>1 DEF InQueue, Has

LEMMA AliveMeaning == TypeOK => AliveMeans
<1> SUFFICES ASSUME TypeOK, NEW c \in Conns
             PROVE  Alive(c) <=> c \in connectionMap
                                 \/ \E l \in Loops, kind \in Kinds : Held(l, <<kind, c>>)
  BY DEF AliveMeans
<1>1. ASSUME NEW l \in Loops
      PROVE  InQueue(pending[l], c) \/ InQueue(functors[l], c)
                <=> \E kind \in Kinds : Held(l, <<kind, c>>)
  <2>1. pending[l] \in Seq(Tasks) /\ functors[l] \in Seq(Tasks)
    BY DEF TypeOK
  <2> QED
    BY <2>1, InQueueHas DEF Held
<1> QED
  BY <1>1 DEF Alive

LEMMA AliveKept ==
    ASSUME AliveMeans, AliveMeans', NEW c \in Conns, c \in connectionMap' <=> c \in connectionMap,
           \A l \in Loops, kind \in Kinds : Held(l, <<kind, c>>)' <=> Held(l, <<kind, c>>)
    PROVE  Alive(c)' <=> Alive(c)
BY DEF AliveMeans

LEMMA StageKept ==
    ASSUME NEW c \in Conns, state'[c] = state[c], Alive(c)' <=> Alive(c),
           c \in connectionMap' <=> c \in connectionMap
    PROVE  Stage(c)' = Stage(c)
BY DEF Stage

(* How the stages of Service are told from the outside. *)
LEMMA NothingHappens ==
    ASSUME UNCHANGED <<peer, silence>>, \A c \in Conns : Stage(c)' = Stage(c)
    PROVE  UNCHANGED Promise!vars
BY DEF Promise!vars

LEMMA Advances ==
    ASSUME NEW c \in Conns, NEW to, UNCHANGED <<peer, silence>>, Stage(c)' = to,
           \A d \in Conns : d # c => Stage(d)' = Stage(d)
    PROVE  Promise!Advance(c, Stage(c), to)
<1>1. [d \in Conns |-> Stage(d)]' = [[d \in Conns |-> Stage(d)] EXCEPT ![c] = to]
  OBVIOUS
<1> QED
  BY <1>1 DEF Promise!Advance

Known == TypeOK /\ LifeInv /\ WheelInv /\ CauseInv /\ AliveInStages /\ AliveMeans

LEMMA KnownKept == Spec => []Known
<1>1. Init => CauseInv
  BY CauseInit
<1>2. TypeOK /\ LifeInv /\ WheelInv /\ CauseInv /\ [Next]_vars => CauseInv'
  BY CauseStep
<1>3. TypeOK /\ LifeInv => AliveInStages
  BY AliveStages
<1>4. TypeOK => AliveMeans
  BY AliveMeaning
<1>5. TypeOK /\ LifeInv /\ WheelInv /\ CauseInv /\ AliveInStages /\ AliveMeans => Known
  BY DEF Known
<1> QED
  BY <1>1, <1>2, <1>3, <1>4, <1>5, WheelCorrect, PTL DEF Spec

(* The steps that leave the tasks and the stages alone: of the clients, of    *)
(* epoll_wait, of reading and of the wheel.                                  *)
LEMMA StagesQuiet ==
    ASSUME UNCHANGED <<pending, functors, connectionMap, state>>
    PROVE  \A c \in Conns : Stage(c)' = Stage(c)
BY DEF Stage, Alive

LEMMA ServiceClient ==
    ASSUME Known, NEW c \in Conns, ClientStep(c)
    PROVE  Promise!Next \/ UNCHANGED Promise!vars
<1>1. (\A d \in Conns : Stage(d)' = Stage(d)) /\ UNCHANGED silence
  BY StagesQuiet DEF ClientStep, Connect, Send, HalfClose, Reset, connVars, wheelVars, queueVars,
                     batchVars
<1>2. CASE Send(c)
  BY <1>1, <1>2, NothingHappens DEF Send
<1>3. ASSUME NEW from, NEW to, peer[c] = from, peer' = [peer EXCEPT ![c] = to],
             <<from, to>> \in {<<"none", "open">>, <<"open", "fin">>, <<"open", "rst">>,
                               <<"fin", "rst">>}
      PROVE  Promise!Next
  <2>1. Promise!Act(c)
    BY <1>1, <1>3 DEF Promise!Act
  <2> QED
    BY <2>1 DEF Promise!Next
<1>4. CASE Connect(c)
  BY <1>3, <1>4 DEF Connect
<1>5. CASE HalfClose(c)
  BY <1>3, <1>5 DEF HalfClose
<1>6. CASE Reset(c)
  BY <1>3, <1>6 DEF Reset
<1> QED
  BY <1>2, <1>4, <1>5, <1>6 DEF ClientStep

LEMMA ServiceRead ==
    ASSUME Known, NEW l \in IOLoops, NEW c \in Conns, HandleRead(l, c)
    PROVE  Promise!Next \/ UNCHANGED Promise!vars
<1>1. (\A d \in Conns : Stage(d)' = Stage(d)) /\ UNCHANGED peer
  BY StagesQuiet DEF HandleRead, connVars, queueVars, batchVars
<1>2. CASE UNCHANGED silence
  BY <1>1, <1>2, NothingHappens
<1>3. CASE EntryAlive(c) /\ silence' = [silence EXCEPT ![c] = 0]
  <2>1. state[c] = "connected" /\ Alive(c)
    BY LoopsFacts DEF HandleRead, Take, Known, LifeInv, ReadyInv, StateInv, AliveInStages
  <2>2. Stage(c) \in {"served", "leaving"}
    BY <2>1 DEF Stage
  <2>3. Promise!Hear(c)
    BY <1>1, <1>3, <2>2, AliveIsPatient DEF Known, Promise!Hear
  <2> QED
    BY <2>3 DEF Promise!Next
<1> QED
  BY <1>2, <1>3 DEF HandleRead, Known, TypeOK

LEMMA ServiceClick ==
    ASSUME Known, NEW l \in IOLoops, Click(l)
    PROVE  Promise!Next
<1>1. (\A d \in Conns : Stage(d)' = Stage(d)) /\ UNCHANGED peer /\ silence' = Aged(l)
  BY StagesQuiet DEF Click, connVars, clientVars, queueVars, batchVars
<1> DEFINE S == {c \in Conns : loopOf[c] = l /\ EntryAlive(c)}
<1>2. \A c \in S : silence[c] < WheelSize
  BY AliveIsPatient DEF Known
<1>3. ASSUME NEW c \in S
      PROVE  Stage(c) \notin {"away", "accepted"}
  <2>1. state[c] \in Up
    BY DEF EntryAlive, Known, LifeInv, EntryInv, InWheel
  <2> QED
    BY <2>1 DEF Stage, Up
<1>4. Promise!Turn(S)
  BY <1>1, <1>2, <1>3 DEF Promise!Turn, Aged
<1> QED
  BY <1>4 DEF Promise!Next

LEMMA KindTasks ==
    /\ \A c \in Conns, kind \in Kinds : <<kind, c>> \in Tasks
    /\ \A c, d \in Conns : \A j, k \in Kinds : <<j, c>> = <<k, d>> => j = k /\ c = d
BY DEF Tasks, Kinds

(* A removal is asked for of a TcpConn that exists. *)
LEMMA ServiceAsk ==
    ASSUME Known, AliveMeans', NEW l \in IOLoops, NEW c \in Conns, HandleClose(l, c) \/ Expire(l, c)
    PROVE  UNCHANGED Promise!vars
<1>1. UNCHANGED <<peer, silence, connectionMap, state, batchVars>>
  BY DEF HandleClose, Expire, clientVars, connVars, wheelVars
<1>2. CASE UNCHANGED queueVars
  BY <1>1, <1>2, StagesQuiet, NothingHappens DEF queueVars, batchVars
<1>3. CASE Alive(c) /\ Post(Main, <<"remove", c>>)
  <2>1. \A m \in Loops, u \in Tasks : Held(m, u)' <=> Held(m, u) \/ (m = Main /\ u = <<"remove", c>>)
    BY <1>1, <1>3, PostEffect, TaskKinds, LoopsFacts DEF Known
  <2>2. ASSUME NEW d \in Conns
        PROVE  Alive(d)' <=> Alive(d)
    <3>1. \A m \in Loops, kind \in Kinds : Held(m, <<kind, d>>) => Held(m, <<kind, d>>)'
      BY <2>1, KindTasks
    <3>2. d # c => \A m \in Loops, kind \in Kinds : Held(m, <<kind, d>>)' => Held(m, <<kind, d>>)
      BY <2>1, KindTasks
    <3>3. Alive(d) => Alive(d)'
      BY <1>1, <3>1 DEF Known, AliveMeans
    <3>4. d # c => (Alive(d)' => Alive(d))
      BY <1>1, <3>2 DEF Known, AliveMeans
    <3> QED
      BY <1>3, <3>3, <3>4
  <2>3. \A d \in Conns : Stage(d)' = Stage(d)
    BY <1>1, <2>2, StageKept
  <2> QED
    BY <1>1, <2>3, NothingHappens
<1>4. HandleClose(l, c) => Alive(c)
  BY LoopsFacts DEF HandleClose, Take, Known, LifeInv, ReadyInv, StateInv, AliveInStages
<1> QED
  BY <1>2, <1>3, <1>4 DEF HandleClose, Expire

(* The iteration goes on. *)
LEMMA ServiceLoop ==
    ASSUME Known, Known', NEW l \in Loops, LoopStep(l) \/ EndIteration(l)
    PROVE  Promise!Next \/ UNCHANGED Promise!vars
<1>1. CASE Poll(l) \/ HandleWakeup(l) \/ EndIteration(l)
  <2>1. UNCHANGED <<peer, silence, pending, functors, connectionMap, state>>
    BY <1>1 DEF Poll, HandleWakeup, EndIteration, clientVars, connVars, wheelVars, queueVars, batchVars
  <2> QED
    BY <2>1, StagesQuiet, NothingHappens
<1>2. Swap(l) \/ EndFunctors(l) => UNCHANGED <<peer, silence, connectionMap, state>>
  BY DEF Swap, EndFunctors, clientVars, connVars, wheelVars
<1>3. CASE Swap(l)
  <2>1. \A d \in Conns : Alive(d)' <=> Alive(d)
    BY <1>2, <1>3, SwapEffect, KindTasks, AliveKept DEF Known
  <2>2. \A d \in Conns : Stage(d)' = Stage(d)
    BY <1>2, <1>3, <2>1, StageKept
  <2> QED
    BY <1>2, <1>3, <2>2, NothingHappens
<1>4. CASE EndFunctors(l)
  <2> DEFINE S == {c \in Conns : Alive(c) /\ ~Alive(c)'}
  <2>1. \A m \in Loops, u \in Tasks : Held(m, u)' => Held(m, u)
    BY <1>4, EndEffect DEF Known
  <2>2. ASSUME NEW d \in Conns, Alive(d)'
        PROVE  Alive(d)
    BY <1>2, <1>4, <2>1, <2>2, KindTasks DEF Known, AliveMeans
  <2>3. ASSUME NEW d \in S
        PROVE  Stage(d) = "down" /\ Stage(d)' = "gone"
    <3>1. Alive(d) /\ ~Alive(d)' /\ d \in Conns /\ state'[d] = state[d]
      BY <1>2, <1>4
    <3>2. state[d] # "absent"
      BY <3>1 DEF Known, AliveInStages
    <3>3. state'[d] \notin {"new", "connected"}
      BY <3>1 DEF Known, AliveInStages
    <3>4. state[d] = "disconnected"
      BY <3>1, <3>2, <3>3 DEF Known, TypeOK
    <3> QED
      BY <3>1, <3>4 DEF Stage
  <2>4. \A d \in Conns \ S : Stage(d)' = Stage(d)
    BY <1>2, <1>4, <2>2, StageKept
  <2>5. Promise!Free(S)
    BY <1>2, <1>4, <2>3, <2>4 DEF Promise!Free
  <2> QED
    BY <2>5 DEF Promise!Next
<1> QED
  BY <1>1, <1>3, <1>4 DEF LoopStep

LEMMA ServiceAccept ==
    ASSUME Known, Known', NEW c \in Conns, HandleAccept(c)
    PROVE  Promise!Next
<1>1. state[c] = "absent" /\ peer[c] # "none" /\ nextLoop \in IOLoops /\ nextLoop \in Loops
  BY LoopsFacts DEF HandleAccept, Known, LifeInv, StateInv, TypeOK
<1>2. /\ \A d \in Conns : d # c => state'[d] = state[d]
      /\ state'[c] = "new" /\ connectionMap' = connectionMap \cup {c}
      /\ UNCHANGED <<peer, silence>>
  BY DEF HandleAccept, Known, TypeOK, wheelVars
<1>3. \A m \in Loops, u \in Tasks :
         Held(m, u)' <=> Held(m, u) \/ (m = nextLoop /\ u = <<"established", c>>)
  BY <1>1, PostEffect, TaskKinds DEF HandleAccept, Known
<1>4. ASSUME NEW d \in Conns, d # c
      PROVE  Stage(d)' = Stage(d)
  <2>1. \A m \in Loops, kind \in Kinds : Held(m, <<kind, d>>)' <=> Held(m, <<kind, d>>)
    BY <1>3, <1>4, KindTasks, TaskKinds
  <2>2. Alive(d)' <=> Alive(d)
    BY <1>2, <1>4, <2>1, AliveKept DEF Known
  <2> QED
    BY <1>2, <1>4, <2>2, StageKept
<1>5. Stage(c) = "away"
  BY <1>1 DEF Stage
<1>6. Stage(c)' = "accepted"
  <2>1. Alive(c)'
    BY <1>2 DEF Alive
  <2> QED
    BY <1>2, <2>1 DEF Stage
<1>7. Promise!Accept(c)
  BY <1>1, <1>2, <1>4, <1>5, <1>6, Advances DEF Promise!Accept
<1> QED
  BY <1>7 DEF Promise!Next

(* A task of the I/O loop runs. *)
LEMMA ServiceTask ==
    ASSUME Known, Known', NEW l \in IOLoops, NEW c \in Conns,
           ConnectEstablished(l, c) \/ ConnectDestroyed(l, c)
    PROVE  Promise!Next
<1>1. /\ l \in Loops /\ UNCHANGED <<peer, connectionMap, pending, functors>>
      /\ (RunTask(l, "established", c) \/ RunTask(l, "destroyed", c))
  BY LoopsFacts DEF ConnectEstablished, ConnectDestroyed, clientVars, queueVars
<1>2. ASSUME NEW d \in Conns
      PROVE  Alive(d)' <=> Alive(d)
  <2>1. \A m \in Loops, kind \in Kinds : Held(m, <<kind, d>>)' <=> Held(m, <<kind, d>>)
    BY <1>1, RunEffect, KindTasks DEF Known
  <2> QED
    BY <1>1, <2>1, AliveKept DEF Known
<1>3. ASSUME NEW d \in Conns, d # c
      PROVE  Stage(d)' = Stage(d)
  <2>1. state'[d] = state[d]
    BY <1>3 DEF ConnectEstablished, ConnectDestroyed, Known, TypeOK
  <2> QED
    BY <1>1, <1>2, <2>1, StageKept
<1>4. CASE ConnectEstablished(l, c)
  <2>1. state[c] = "new" /\ silence[c] = 0 /\ UNCHANGED silence /\ state'[c] = "connected"
    <3>1. state[c] = "new" /\ silence[c] = 0 /\ UNCHANGED silence
      BY <1>4, EstablishedNow DEF Known
    <3>2. state'[c] = "connected"
      BY <1>4 DEF Known, ConnectEstablished, TypeOK
    <3> QED
      BY <3>1, <3>2
  <2>2. c \in connectionMap /\ Alive(c)
    BY <2>1 DEF Known, LifeInv, StateInv, AliveInStages
  <2>3. Stage(c) = "accepted" /\ Stage(c)' = "served"
    BY <1>1, <1>2, <2>1, <2>2 DEF Stage
  <2>4. Promise!Serve(c)
    BY <1>1, <1>3, <2>1, <2>3, Advances DEF Promise!Serve
  <2> QED
    BY <2>4 DEF Promise!Next
<1>5. CASE ConnectDestroyed(l, c)
  <2>1. Due(l, <<"destroyed", c>>) /\ Held(l, <<"destroyed", c>>)
    BY <1>1, <1>5, CurrentIsDue DEF ConnectDestroyed, RunTask, Known
  <2>2. state[c] = "connected" /\ c \notin connectionMap /\ Alive(c)
    BY <1>1, <2>1, HeldIsAlive DEF Known, LifeInv, TaskInv
  <2>3. state'[c] = "disconnected" /\ UNCHANGED silence
    BY <1>5 DEF ConnectDestroyed, Known, TypeOK, wheelVars
  <2>4. Stage(c) = "leaving" /\ Stage(c)' = "down"
    BY <1>1, <1>2, <2>2, <2>3 DEF Stage
  <2>5. Promise!TakeDown(c)
    BY <1>1, <1>3, <2>3, <2>4, Advances DEF Promise!TakeDown
  <2> QED
    BY <2>5 DEF Promise!Next
<1> QED
  BY <1>4, <1>5

(* The main loop removes a connection, or finds it removed. *)
LEMMA ServiceRemove ==
    ASSUME Known, Known', NEW c \in Conns, RemoveConnectionInLoop(c)
    PROVE  Promise!Next \/ UNCHANGED Promise!vars
<1>1. UNCHANGED <<peer, silence, state>> /\ connectionMap' = connectionMap \ {c}
  BY DEF RemoveConnectionInLoop, clientVars, wheelVars
<1>2. /\ Held(Main, <<"remove", c>>) /\ state[c] \in Up /\ loopOf[c] \in Loops
      /\ \A m \in Loops, d \in Conns, kind \in Kinds :
            Held(m, <<kind, d>>)' <=>
               Held(m, <<kind, d>>)
               \/ (m = loopOf[c] /\ kind = "destroyed" /\ d = c /\ c \in connectionMap)
  BY RemoveEffect, LoopsFacts DEF Known, Kinds
<1>3. ASSUME NEW d \in Conns, d # c \/ c \notin connectionMap
      PROVE  Stage(d)' = Stage(d)
  <2>1. \A m \in Loops, kind \in Kinds : Held(m, <<kind, d>>)' <=> Held(m, <<kind, d>>)
    BY <1>2, <1>3
  <2>2. Alive(d)' <=> Alive(d)
    BY <1>1, <1>3, <2>1, AliveKept DEF Known
  <2> QED
    BY <1>1, <1>3, <2>2, StageKept
<1>4. CASE c \notin connectionMap
  BY <1>1, <1>3, <1>4, NothingHappens
<1>5. CASE c \in connectionMap
  <2>1. state[c] = "connected" /\ Alive(c)
    BY <1>2, <1>5 DEF Known, LifeInv, StateInv, Up, Alive
  <2>2. Alive(c)'
    <3>1. PICK m \in Loops : m = loopOf[c]
      BY <1>2
    <3>2. "destroyed" \in Kinds
      BY DEF Kinds
    <3>3. Held(m, <<"destroyed", c>>)'
      BY <1>2, <1>5, <3>1, <3>2
    <3> QED
      BY <3>2, <3>3 DEF Known, AliveMeans
  <2>3. Stage(c) = "served" /\ Stage(c)' = "leaving"
    BY <1>1, <1>5, <2>1, <2>2 DEF Stage
  <2>4. Cause(c)
    BY <1>2 DEF Known, CauseInv
  <2>5. Promise!Leave(c)
    BY <1>1, <1>3, <2>3, <2>4, Advances DEF Promise!Leave, Cause
  <2> QED
    BY <2>5 DEF Promise!Next
<1> QED
  BY <1>4, <1>5

LEMMA ServiceStep ==
    ASSUME Known, Known', [Next]_vars
    PROVE  [Promise!Next]_(Promise!vars)
<1>1. ASSUME UNCHANGED vars
      PROVE  UNCHANGED Promise!vars
  <2>1. UNCHANGED <<peer, silence, pending, functors, connectionMap, state>>
    BY <1>1 DEF vars, wheelVars
  <2> QED
    BY <2>1, StagesQuiet, NothingHappens
<1>2. AliveMeans'
  BY DEF Known
<1>3. MainStep => Promise!Next \/ UNCHANGED Promise!vars
  BY ServiceLoop, ServiceAccept, ServiceRemove, LoopsFacts DEF MainStep
<1>4. ASSUME NEW l \in IOLoops, IOStep(l)
      PROVE  Promise!Next \/ UNCHANGED Promise!vars
  BY <1>2, <1>4, ServiceLoop, ServiceClick, ServiceRead, ServiceAsk, ServiceTask, LoopsFacts
     DEF IOStep
<1>5. ASSUME NEW c \in Conns, ClientStep(c)
      PROVE  Promise!Next \/ UNCHANGED Promise!vars
  BY <1>5, ServiceClient
<1> QED
  BY <1>1, <1>3, <1>4, <1>5 DEF Next

\* The loops together keep the promises of Service: for every client each stage
\* comes once and in order, and its connection is dropped only after its own reset
\* or a full turn of the wheel in silence.
THEOREM ServerKeepsPromises == Spec => ServiceSpec
<1>1. Init => Promise!Init
  BY DEF Init, Promise!Init, Stage
<1>2. Known /\ Known' /\ [Next]_vars => [Promise!Next]_(Promise!vars)
  BY ServiceStep
<1> QED
  BY KnownKept, <1>1, <1>2, PTL DEF Spec, ServiceSpec, Promise!Spec

-----------------------------------------------------------------------------
(* No connection is ever forgotten between two loops.                        *)

\* What is pending will be run: the eventfd gets the loop out of epoll_wait, or it
\* is on its way to doPendingFunctors.
Awake(l) == pending[l] # << >> => eventfd[l] \/ pc[l] = "events"

AwakeInv == \A l \in Loops : Awake(l)
HandInv ==
    \A c \in Conns :
        /\ state[c] = "absent" /\ peer[c] # "none" => c \in backlog
        /\ state[c] = "new" => \E l \in IOLoops : Due(l, <<"established", c>>)
        /\ state[c] = "connected" => watched[c] # "no"

LEMMA PostAwakes ==
    ASSUME TypeOK, AwakeInv, NEW l \in Loops, NEW t, Post(l, t), UNCHANGED pc
    PROVE  AwakeInv'
<1>1. \A m \in Loops : eventfd'[m] = (IF m = l THEN TRUE ELSE eventfd[m])
                       /\ (m # l => pending'[m] = pending[m])
  BY DEF Post, TypeOK
<1> QED
  BY <1>1 DEF AwakeInv, Awake

LEMMA AwakeStep == TypeOK /\ LifeInv /\ AwakeInv /\ [Next]_vars => AwakeInv'
<1> SUFFICES ASSUME TypeOK, LifeInv, AwakeInv, [Next]_vars
             PROVE  AwakeInv'
  OBVIOUS
<1>1. ASSUME UNCHANGED <<pending, eventfd>>, \A l \in Loops : pc[l] = "events" => pc'[l] = "events"
      PROVE  AwakeInv'
  BY <1>1 DEF AwakeInv, Awake
<1>2. ASSUME NEW l \in Loops, HandleWakeup(l)
      PROVE  AwakeInv'
  <2>1. pc'[l] = "events" /\ UNCHANGED <<pc, pending>>
        /\ \A m \in Loops : m # l => eventfd'[m] = eventfd[m]
    BY <1>2 DEF HandleWakeup, Take, TypeOK
  <2> QED
    BY <2>1 DEF AwakeInv, Awake
<1>3. ASSUME NEW l \in Loops, Swap(l)
      PROVE  AwakeInv'
  <2>1. pending'[l] = << >> /\ UNCHANGED eventfd
        /\ \A m \in Loops : m # l => pc'[m] = pc[m] /\ pending'[m] = pending[m]
    BY <1>3 DEF Swap, TypeOK
  <2> QED
    BY <2>1 DEF AwakeInv, Awake
<1>4. ASSUME NEW l \in Loops, Poll(l) \/ EndFunctors(l) \/ EndIteration(l) \/ Click(l)
      PROVE  AwakeInv'
  <2>1. UNCHANGED <<pending, eventfd>>
    BY <1>4 DEF Poll, EndFunctors, EndIteration, Click, queueVars
  <2>2. \A m \in Loops : pc[m] = "events" => pc'[m] = "events"
    BY <1>4 DEF Poll, EndFunctors, EndIteration, Click, TypeOK
  <2> QED
    BY <1>1, <2>1, <2>2
<1>5. ASSUME NEW l \in Loops, NEW c \in Conns,
             \/ HandleRead(l, c) \/ ConnectEstablished(l, c) \/ ConnectDestroyed(l, c)
             \/ ClientStep(c) \/ UNCHANGED vars
      PROVE  AwakeInv'
  <2>1. UNCHANGED <<pending, eventfd, pc>>
    BY <1>5 DEF HandleRead, ConnectEstablished, ConnectDestroyed, ClientStep, Connect, Send,
                HalfClose, Reset, queueVars, vars
  <2> QED
    BY <1>1, <2>1
<1>6. ASSUME NEW l \in IOLoops, NEW c \in Conns,
             \/ HandleClose(l, c) \/ Expire(l, c) \/ HandleAccept(c) \/ RemoveConnectionInLoop(c)
      PROVE  AwakeInv'
  <2>1. UNCHANGED pc
    BY <1>6 DEF HandleClose, Expire, HandleAccept, RemoveConnectionInLoop
  <2>2. \/ UNCHANGED queueVars \/ Post(Main, <<"remove", c>>)
        \/ Post(nextLoop, <<"established", c>>) \/ Post(loopOf[c], <<"destroyed", c>>)
    BY <1>6 DEF HandleClose, Expire, HandleAccept, RemoveConnectionInLoop
  <2>3. nextLoop \in Loops /\ loopOf[c] \in Loops
    BY LoopsFacts DEF TypeOK
  <2> QED
    BY <1>1, <2>1, <2>2, <2>3, PostAwakes, LoopsFacts DEF queueVars
<1>7. CASE UNCHANGED vars
  BY <1>1, <1>7 DEF vars
<1>8. MainStep => AwakeInv'
  BY <1>2, <1>3, <1>4, <1>6, LoopsFacts DEF MainStep, LoopStep
<1>9. (\E l \in IOLoops : IOStep(l)) => AwakeInv'
  BY <1>2, <1>3, <1>4, <1>5, <1>6, LoopsFacts DEF IOStep, LoopStep
<1>10. (\E c \in Conns : ClientStep(c)) => AwakeInv'
  BY <1>5, LoopsFacts
<1> QED
  BY <1>7, <1>8, <1>9, <1>10 DEF Next

LEMMA HandQuiet ==
    ASSUME HandInv, UNCHANGED <<state, watched>>,
           \A c \in Conns : /\ peer'[c] # "none" => peer[c] # "none" \/ c \in backlog'
                            /\ c \in backlog => c \in backlog',
           \A l \in IOLoops, c \in Conns :
              Due(l, <<"established", c>>) => Due(l, <<"established", c>>)'
    PROVE  HandInv'
BY DEF HandInv

LEMMA HandStep == TypeOK /\ LifeInv /\ HandInv /\ [Next]_vars => HandInv'
<1> SUFFICES ASSUME TypeOK, LifeInv, HandInv, [Next]_vars
             PROVE  HandInv'
  OBVIOUS
<1>1. ASSUME NEW c \in Conns, ClientStep(c)
      PROVE  HandInv'
  <2>1. UNCHANGED <<state, watched, pending, batchVars>>
    BY <1>1 DEF ClientStep, Connect, Send, HalfClose, Reset, connVars, queueVars
  <2>2. \A d \in Conns : /\ peer'[d] # "none" => peer[d] # "none" \/ d \in backlog'
                         /\ d \in backlog => d \in backlog'
    BY <1>1 DEF ClientStep, Connect, Send, HalfClose, Reset, TypeOK
  <2>3. \A l \in IOLoops, d \in Conns : Due(l, <<"established", d>>) => Due(l, <<"established", d>>)'
    BY <2>1, QuietEffect DEF batchVars
  <2> QED
    BY <2>1, <2>2, <2>3, HandQuiet
<1>2. ASSUME UNCHANGED <<state, watched, peer, backlog, pending, batchVars>>
      PROVE  HandInv'
  BY <1>2, QuietEffect, HandQuiet DEF batchVars
<1>3. ASSUME NEW l \in Loops, Poll(l) \/ HandleWakeup(l) \/ EndIteration(l) \/ Click(l) \/ UNCHANGED vars
      PROVE  HandInv'
  <2>1. UNCHANGED <<state, watched, peer, backlog, pending, batchVars>>
    BY <1>3 DEF Poll, HandleWakeup, EndIteration, Click, clientVars, connVars, queueVars, vars, batchVars
  <2> QED
    BY <1>2, <2>1
<1>4. ASSUME NEW l \in Loops, Swap(l) \/ EndFunctors(l)
      PROVE  HandInv'
  <2>1. UNCHANGED <<state, watched, peer, backlog>>
    BY <1>4 DEF Swap, EndFunctors, clientVars, connVars
  <2>2. \A m \in IOLoops, d \in Conns : Due(m, <<"established", d>>) => Due(m, <<"established", d>>)'
    BY <1>4, SwapEffect, EndEffect, TaskKinds, LoopsFacts
  <2> QED
    BY <2>1, <2>2, HandQuiet
<1>5. ASSUME NEW l \in IOLoops, NEW c \in Conns, HandleClose(l, c) \/ Expire(l, c)
      PROVE  HandInv'
  <2>1. UNCHANGED <<state, watched, peer, backlog, batchVars>>
    BY <1>5 DEF HandleClose, Expire, clientVars, connVars
  <2>2. CASE UNCHANGED queueVars
    BY <1>2, <2>1, <2>2 DEF queueVars
  <2>3. CASE Post(Main, <<"remove", c>>)
    <3>1. \A m \in IOLoops, d \in Conns : Due(m, <<"established", d>>) => Due(m, <<"established", d>>)'
      BY <2>1, <2>3, PostEffect, TaskKinds, LoopsFacts
    <3> QED
      BY <2>1, <3>1, HandQuiet
  <2> QED
    BY <1>5, <2>2, <2>3 DEF HandleClose, Expire
<1>6. ASSUME NEW c \in Conns, RemoveConnectionInLoop(c)
      PROVE  HandInv'
  <2>1. UNCHANGED <<state, watched, peer, backlog>>
    BY <1>6 DEF RemoveConnectionInLoop, clientVars
  <2>2. \A m \in IOLoops, d \in Conns : Due(m, <<"established", d>>) => Due(m, <<"established", d>>)'
    BY <1>6, RemoveEffect, LoopsFacts
  <2> QED
    BY <2>1, <2>2, HandQuiet
<1>7. ASSUME NEW l \in IOLoops, NEW c \in Conns, HandleRead(l, c)
      PROVE  HandInv'
  <2>1. UNCHANGED <<state, peer, backlog, pending, batchVars>>
        /\ \A d \in Conns : watched[d] # "no" => watched'[d] # "no"
    BY <1>7 DEF HandleRead, connVars, queueVars, batchVars, TypeOK
  <2>2. \A m \in IOLoops, d \in Conns : Due(m, <<"established", d>>) => Due(m, <<"established", d>>)'
    BY <2>1, QuietEffect DEF batchVars
  <2> QED
    BY <2>1, <2>2 DEF HandInv
<1>8. ASSUME NEW c \in Conns, HandleAccept(c)
      PROVE  HandInv'
  <2>1. nextLoop \in IOLoops /\ nextLoop \in Loops
    BY LoopsFacts DEF TypeOK
  <2>2. \A m \in Loops, d \in Conns :
           Due(m, <<"established", d>>)' <=>
              Due(m, <<"established", d>>) \/ (m = nextLoop /\ d = c)
    <3>1. Post(nextLoop, <<"established", c>>) /\ UNCHANGED batchVars
      BY <1>8 DEF HandleAccept
    <3>2. \A m \in Loops, d \in Conns :
           Due(m, <<"established", d>>)' <=>
              Due(m, <<"established", d>>) \/ (m = nextLoop /\ <<"established", d>> = <<"established", c>>)
      BY <2>1, <3>1, PostEffect, TaskKinds
    <3> QED
      BY <3>2
  <2>3. /\ state'[c] = "new" /\ \A d \in Conns : d # c => state'[d] = state[d]
        /\ backlog' = backlog \ {c} /\ UNCHANGED <<peer, watched>>
    BY <1>8 DEF HandleAccept, TypeOK
  <2> QED
    BY <2>1, <2>2, <2>3, LoopsFacts DEF HandInv
<1>9. ASSUME NEW l \in IOLoops, NEW c \in Conns, ConnectEstablished(l, c) \/ ConnectDestroyed(l, c)
      PROVE  HandInv'
  <2>1. /\ l \in Loops /\ UNCHANGED <<peer, backlog, pending, functors>>
        /\ (RunTask(l, "established", c) \/ RunTask(l, "destroyed", c))
    BY <1>9, LoopsFacts DEF ConnectEstablished, ConnectDestroyed, clientVars, queueVars
  <2>2. /\ state'[c] = "connected" => watched'[c] # "no"
        /\ state'[c] \in Up
        /\ \A d \in Conns : d # c => state'[d] = state[d] /\ watched'[d] = watched[d]
    BY <1>9 DEF ConnectEstablished, ConnectDestroyed, TypeOK, Up
  <2>3. \A m \in IOLoops, d \in Conns : d # c /\ Due(m, <<"established", d>>) => Due(m, <<"established", d>>)'
    BY <2>1, RunEffect, TaskKinds, LoopsFacts
  <2> QED
    BY <2>1, <2>2, <2>3 DEF HandInv, Up
<1>10. MainStep => HandInv'
  BY <1>3, <1>4, <1>6, <1>8, LoopsFacts DEF MainStep, LoopStep
<1>11. (\E l \in IOLoops : IOStep(l)) => HandInv'
  BY <1>3, <1>4, <1>5, <1>7, <1>9, LoopsFacts DEF IOStep, LoopStep
<1>12. (\E c \in Conns : ClientStep(c)) => HandInv'
  BY <1>1
<1>13. UNCHANGED vars => HandInv'
  BY <1>3, LoopsFacts
<1> QED
  BY <1>10, <1>11, <1>12, <1>13 DEF Next

\* Wherever a connection is, somebody has it in hand: the backlog, a task of a loop
\* that will run it, or epoll and the timer.
InHand ==
    \A c \in Conns :
        /\ Stage(c) = "away" /\ peer[c] # "none" => c \in backlog
        /\ Stage(c) = "accepted" => \E l \in IOLoops : Due(l, <<"established", c>>) /\ Awake(l)
        /\ Stage(c) = "served" => watched[c] # "no" /\ (EntryAlive(c) \/ Removing(c))
        /\ Stage(c) = "leaving" => \E l \in IOLoops : Due(l, <<"destroyed", c>>) /\ Awake(l)
        /\ Due(Main, <<"remove", c>>) => Awake(Main)

\* No hand-over between the loops loses a connection: until it is down there is always
\* a task of an awake loop, or a watched socket with an armed timer, to take it on.
THEOREM NobodyIsForgotten == Spec => []InHand
<1>1. Init => AwakeInv /\ HandInv
  BY DEF Init, AwakeInv, Awake, HandInv
<1>2. TypeOK /\ LifeInv /\ AwakeInv /\ HandInv /\ TimerArmed => InHand
  <2> SUFFICES ASSUME TypeOK, LifeInv, AwakeInv, HandInv, TimerArmed, NEW c \in Conns
               PROVE  /\ Stage(c) = "away" /\ peer[c] # "none" => c \in backlog
                      /\ Stage(c) = "accepted" =>
                            \E l \in IOLoops : Due(l, <<"established", c>>) /\ Awake(l)
                      /\ Stage(c) = "served" => watched[c] # "no" /\ (EntryAlive(c) \/ Removing(c))
                      /\ Stage(c) = "leaving" =>
                            \E l \in IOLoops : Due(l, <<"destroyed", c>>) /\ Awake(l)
                      /\ Due(Main, <<"remove", c>>) => Awake(Main)
    BY DEF InHand
  <2>1. \A l \in Loops : Awake(l)
    BY DEF AwakeInv
  <2>2. /\ Stage(c) = "away" => state[c] = "absent"
        /\ Stage(c) = "accepted" => state[c] = "new"
        /\ Stage(c) = "served" => state[c] = "connected" /\ c \in connectionMap
        /\ Stage(c) = "leaving" => state[c] = "connected" /\ c \notin connectionMap
    BY DEF Stage, TypeOK
  <2>3. Stage(c) = "leaving" => \E l \in IOLoops : Due(l, <<"destroyed", c>>)
    <3>1. ASSUME Stage(c) = "leaving"
          PROVE  DestroyDue(c) /\ loopOf[c] \in IOLoops
      BY <2>2, <3>1 DEF LifeInv, StateInv
    <3>2. ASSUME NEW l \in Loops, Due(l, <<"destroyed", c>>)
          PROVE  l = loopOf[c]
      BY <3>2, DueIsHeld DEF LifeInv, TaskInv
    <3> QED
      BY <3>1, <3>2 DEF DestroyDue
  <2> QED
    BY <2>1, <2>2, <2>3, LoopsFacts DEF HandInv, TimerArmed
<1> QED
  BY <1>1, <1>2, AwakeStep, HandStep, LifeCorrect, TimerStaysArmed, PTL DEF Spec

-----------------------------------------------------------------------------
(* The timer is exact.                                                       *)

\* An entry leaves the wheel of its loop only after a whole turn in silence.
CountInv ==
    \A c \in Conns : state[c] \in Up => EntryAlive(c) \/ silence[c] = WheelSize

\* A connection that exists stays with its loop.
LEMMA LoopStays ==
    ASSUME TypeOK, LifeInv, [Next]_vars, NEW c \in Conns, state[c] # "absent"
    PROVE  loopOf'[c] = loopOf[c]
<1>1. loopOf' = loopOf \/ \E d \in Conns : HandleAccept(d)
  BY ZenonT(40) DEF Next, MainStep, IOStep, LoopStep, ClientStep, vars, connVars,
         Connect, Send, HalfClose, Reset, Poll, HandleWakeup, HandleRead, HandleClose, Swap,
         ConnectEstablished, ConnectDestroyed, RemoveConnectionInLoop, EndFunctors, Click,
         Expire, EndIteration
<1>2. ASSUME NEW d \in Conns, HandleAccept(d)
      PROVE  loopOf'[c] = loopOf[c]
  <2>1. d # c
    BY <1>2 DEF HandleAccept, LifeInv, StateInv
  <2> QED
    BY <1>2, <2>1 DEF HandleAccept, TypeOK
<1> QED
  BY <1>1, <1>2

\* Only a turn of its wheel takes an entry out of it.
LEMMA EntryStays ==
    ASSUME TypeOK, LifeInv, WheelInv, [Next]_vars, NEW c \in Conns, EntryAlive(c)
    PROVE  EntryAlive(c)' \/ silence'[c] = WheelSize
<1>1. PICK m \in IOLoops : m = loopOf[c] /\ InWheel(m, c)
  BY DEF EntryAlive, InWheel
<1>2. loopOf'[c] = m
  <2>1. state[c] # "absent"
    BY <1>1 DEF LifeInv, EntryInv, Up
  <2> QED
    BY <1>1, <2>1, LoopStays
<1>3. InWheel(m, c)' => EntryAlive(c)'
  BY <1>2 DEF InWheel, EntryAlive
<1>4. \/ wheel' = wheel
      \/ \E l \in IOLoops : Click(l)
      \/ \E l \in IOLoops, d \in Conns : HandleRead(l, d) \/ ConnectEstablished(l, d)
  BY ZenonT(40) DEF Next, MainStep, IOStep, LoopStep, ClientStep, vars, wheelVars, Connect, Send,
         HalfClose, Reset, Poll, HandleWakeup, HandleAccept, HandleClose, Swap, ConnectDestroyed,
         RemoveConnectionInLoop, EndFunctors, Expire, EndIteration
<1>5. CASE wheel' = wheel
  BY <1>1, <1>3, <1>5 DEF InWheel
<1>6. ASSUME NEW l \in IOLoops, Click(l)
      PROVE  EntryAlive(c)' \/ silence'[c] = WheelSize
  <2>1. CASE l = m
    <3>1. /\ silence'[c] = silence[c] + 1
          /\ silence[c] # WheelSize - 1 => InWheel(m, c)'
      BY <1>1, <1>6, <2>1, Turned
    <3> QED
      BY <1>3, <3>1, WheelAssumption
  <2>2. CASE l # m
    <3>1. wheel'[m] = wheel[m]
      BY <1>6, <2>2 DEF Click, TypeOK
    <3> QED
      BY <1>1, <1>3, <3>1 DEF InWheel
  <2> QED
    BY <2>1, <2>2
<1>7. ASSUME NEW l \in IOLoops, NEW d \in Conns, wheel' = Added(l, d)
      PROVE  EntryAlive(c)'
  <2>1. \A i \in 1 .. WheelSize : c \in wheel[m][i] => c \in wheel'[m][i]
    BY <1>7, AddedBuckets
  <2> QED
    BY <1>1, <1>3, <2>1 DEF InWheel
<1>8. ASSUME NEW l \in IOLoops, NEW d \in Conns, HandleRead(l, d) \/ ConnectEstablished(l, d)
      PROVE  EntryAlive(c)'
  <2>1. wheel' = wheel \/ wheel' = Rearmed(d) \/ wheel' = Added(l, d)
    BY <1>8 DEF HandleRead, ConnectEstablished, Added
  <2>2. wheel' = Rearmed(d) =>
           wheel' = wheel \/ (loopOf[d] \in IOLoops /\ wheel' = Added(loopOf[d], d))
    BY DEF Rearmed, EntryAlive, Added
  <2>3. wheel' = wheel => EntryAlive(c)'
    BY <1>1, <1>3 DEF InWheel
  <2> QED
    BY <1>7, <2>1, <2>2, <2>3
<1> QED
  BY <1>4, <1>5, <1>6, <1>8

LEMMA CountStep ==
    ASSUME TypeOK, LifeInv, WheelInv, CauseInv, CountInv, [Next]_vars
    PROVE  CountInv'
<1> SUFFICES ASSUME NEW c \in Conns, state'[c] \in Up
             PROVE  EntryAlive(c)' \/ silence'[c] = WheelSize
  BY DEF CountInv
<1>1. CASE state[c] \in Up
  BY <1>1, EntryStays, SilenceIsFinal DEF CountInv
<1>2. CASE state[c] \notin Up
  <2>1. \/ state' = state
        \/ \E d \in Conns : HandleAccept(d)
        \/ \E l \in IOLoops, d \in Conns : ConnectEstablished(l, d) \/ ConnectDestroyed(l, d)
    BY ZenonT(40) DEF Next, MainStep, IOStep, LoopStep, ClientStep, vars, connVars,
           Connect, Send, HalfClose, Reset, Poll, HandleWakeup, HandleRead, HandleClose, Swap,
           RemoveConnectionInLoop, EndFunctors, Click, Expire, EndIteration
  <2>2. ASSUME NEW d \in Conns, HandleAccept(d)
        PROVE  FALSE
    BY <1>2, <2>2 DEF HandleAccept, TypeOK, Up
  <2>3. ASSUME NEW l \in IOLoops, NEW d \in Conns, ConnectDestroyed(l, d)
        PROVE  FALSE
    <3>1. state[d] = "connected"
      BY <2>3, CurrentIsDue, LoopsFacts DEF ConnectDestroyed, RunTask, LifeInv, TaskInv
    <3>2. \A e \in Conns : e # d => state'[e] = state[e]
      BY <2>3 DEF ConnectDestroyed, TypeOK
    <3> QED
      BY <1>2, <3>1, <3>2 DEF Up
  <2>4. ASSUME NEW l \in IOLoops, NEW d \in Conns, ConnectEstablished(l, d)
        PROVE  EntryAlive(c)'
    <3>1. d = c
      BY <1>2, <2>4 DEF ConnectEstablished, TypeOK
    <3>2. loopOf[c] = l /\ loopOf' = loopOf /\ wheel' = Added(l, c)
      BY <2>4, <3>1, EstablishedNow DEF ConnectEstablished, Added
    <3>3. c \in wheel'[l][WheelSize]
      BY <3>2, AddedBuckets, LoopsFacts
    <3> QED
      BY <3>2, <3>3, LoopsFacts DEF EntryAlive
  <2> QED
    BY <1>2, <2>1, <2>2, <2>3, <2>4
<1> QED
  BY <1>1, <1>2

\* TimerExact: the entry of a served client is in the wheel until the very turn that
\* completes its silence, and then its removal is on its way, for wheels of every size
\* and however often messages have re-armed it.
THEOREM TimerIsExact == Spec => []TimerExact
<1>1. Init => CauseInv /\ CountInv
  BY CauseInit DEF Init, CountInv, Up
<1>2. TypeOK /\ LifeInv /\ WheelInv /\ TimerArmed /\ CountInv => TimerExact
  <2> SUFFICES ASSUME TypeOK, LifeInv, WheelInv, TimerArmed, CountInv,
                      NEW c \in connectionMap, state[c] = "connected"
               PROVE  /\ EntryAlive(c) <=> silence[c] < WheelSize
                      /\ silence[c] >= WheelSize => Removing(c)
    BY DEF TimerExact
  <2>1. c \in Conns /\ silence[c] \in Nat /\ WheelSize \in Nat
    BY WheelAssumption DEF TypeOK
  <2>2. EntryAlive(c) => silence[c] < WheelSize
    BY <2>1, AliveIsPatient
  <2>3. EntryAlive(c) \/ silence[c] = WheelSize
    BY <2>1 DEF CountInv, Up
  <2> QED
    BY <2>1, <2>2, <2>3 DEF TimerArmed
<1>3. TypeOK /\ LifeInv /\ WheelInv /\ CauseInv /\ CountInv /\ [Next]_vars => CountInv'
  BY CountStep
<1> QED
  BY <1>1, <1>2, <1>3, CauseStep, WheelCorrect, TimerStaysArmed, PTL DEF Spec
===============================================================================
