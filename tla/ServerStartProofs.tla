--------------------------- MODULE ServerStartProofs ---------------------------
(***************************************************************************)
(* Proofs about ServerStart, for any number of loops, of connections and   *)
(* of clients, and whatever may fail.                                      *)
(***************************************************************************)
EXTENDS ServerStart, FiniteSetTheorems, TLAPS

LEMMA ThreadFacts ==
    /\ Loops \subseteq Threads /\ Loops \subseteq Nat \ {0} /\ 1 \in Loops
    /\ IsFiniteSet(Loops) /\ Cardinality(Loops) = NumLoops
    /\ Sync \notin Loops
<1>1. NumLoops \in Nat \ {0}
  BY StartAssumption
<1>2. IsFiniteSet(1 .. NumLoops) /\ Cardinality(1 .. NumLoops) = NumLoops
  BY <1>1, FS_Interval
<1> QED
  BY <1>1, <1>2 DEF Loops, Threads, Sync

(* Sequences of connections. *)

LEMMA FilledList ==
    ASSUME NEW n \in Nat, NEW s, s = [i \in 1 .. n |-> i]
    PROVE  s \in Seq(Nat \ {None}) /\ Len(s) = n /\ IsInjective(s)
<1>1. s \in Seq(Nat \ {None}) /\ Len(s) = n
  BY DEF None
<1> QED
  BY <1>1 DEF IsInjective

LEMMA TakenFirst ==
    ASSUME NEW s \in Seq(Nat \ {None}), s # << >>
    PROVE  /\ Head(s) \in Nat \ {None} /\ Tail(s) \in Seq(Nat \ {None})
           /\ Len(Tail(s)) = Len(s) - 1
           /\ ToSet(Tail(s)) \subseteq ToSet(s) /\ Head(s) \in ToSet(s)
           /\ IsInjective(s) => IsInjective(Tail(s)) /\ Head(s) \notin ToSet(Tail(s))
<1>1. /\ Head(s) \in Nat \ {None} /\ Tail(s) \in Seq(Nat \ {None})
      /\ Len(Tail(s)) = Len(s) - 1 /\ Len(s) \in Nat \ {0}
      /\ Head(s) = s[1]
      /\ \A i \in 1 .. Len(s) - 1 : Tail(s)[i] = s[i + 1]
  OBVIOUS
<1>2. DOMAIN Tail(s) = 1 .. Len(s) - 1 /\ DOMAIN s = 1 .. Len(s)
  BY <1>1
<1>3. \A i \in 1 .. Len(s) - 1 : i + 1 \in 1 .. Len(s) /\ i + 1 # 1
  BY <1>1
<1>4. ToSet(Tail(s)) \subseteq ToSet(s) /\ Head(s) \in ToSet(s)
  BY <1>1, <1>2, <1>3 DEF ToSet
<1>5. ASSUME IsInjective(s)
      PROVE  IsInjective(Tail(s)) /\ Head(s) \notin ToSet(Tail(s))
  <2>1. ASSUME NEW i \in 1 .. Len(s) - 1, NEW j \in 1 .. Len(s) - 1, Tail(s)[i] = Tail(s)[j]
        PROVE  i = j
    <3>1. i + 1 = j + 1
      BY <1>1, <1>2, <1>3, <1>5, <2>1 DEF IsInjective
    <3> QED
      BY <3>1
  <2>2. ASSUME NEW i \in 1 .. Len(s) - 1, Tail(s)[i] = Head(s)
        PROVE  FALSE
    <3>1. i + 1 = 1
      BY <1>1, <1>2, <1>3, <1>5, <2>2 DEF IsInjective
    <3> QED
      BY <3>1
  <2> QED
    BY <1>2, <2>1, <2>2 DEF IsInjective, ToSet
<1> QED
  BY <1>1, <1>4, <1>5

LEMMA PutBack ==
    ASSUME NEW s \in Seq(Nat \ {None}), NEW x \in Nat \ {None}
    PROVE  /\ Append(s, x) \in Seq(Nat \ {None}) /\ Len(Append(s, x)) = Len(s) + 1
           /\ ToSet(Append(s, x)) = ToSet(s) \cup {x}
           /\ IsInjective(s) /\ x \notin ToSet(s) => IsInjective(Append(s, x))
<1>1. /\ Append(s, x) \in Seq(Nat \ {None}) /\ Len(Append(s, x)) = Len(s) + 1 /\ Len(s) \in Nat
      /\ DOMAIN Append(s, x) = 1 .. Len(s) + 1 /\ DOMAIN s = 1 .. Len(s)
      /\ \A i \in 1 .. Len(s) + 1 : Append(s, x)[i] = IF i = Len(s) + 1 THEN x ELSE s[i]
  OBVIOUS
<1>2. ToSet(Append(s, x)) = ToSet(s) \cup {x}
  BY <1>1 DEF ToSet
<1>3. ASSUME IsInjective(s), x \notin ToSet(s)
      PROVE  IsInjective(Append(s, x))
  BY <1>1, <1>3 DEF IsInjective, ToSet
<1> QED
  BY <1>1, <1>2, <1>3

-----------------------------------------------------------------------------
(* The main thread creates the threads one after the other, and no thread    *)
(* does anything before.                                                     *)

Early == {"setConn", "mysqlInit", "redisInit", "startSyn", "syncLatch", "syncSleep"}

MainInv ==
    /\ main \notin {"listen", "loop"} => Len(loops) < NumLoops
    /\ main \in Early => loops = << >>
    /\ main \in Early \cup {"create"} => \A l \in Loops : l > Len(loops) => pc[l] = "none"
    /\ \A l \in Loops : l > Len(loops) + 1 => pc[l] = "none"
    /\ main \in {"listen", "loop"} => running # {}

\* A loop holds a connection from pop_front to push_back.
PlaceInv == \A l \in Loops : conn[l] # None <=> pc[l] \in {"use", "put"}

BaseInv == TypeOK /\ MainInv /\ PlaceInv

\* The thread that is created is a new one.
LEMMA StartingFacts ==
    ASSUME BaseInv, main \in {"startSyn", "create"}
    PROVE  /\ Starting \in Threads
           /\ main = "create" => Starting \in Loops /\ Starting = Len(loops) + 1 /\ pc[Starting] = "none"
           /\ main = "startSyn" => Starting = Sync
<1>1. Len(loops) \in Nat
  BY DEF BaseInv, TypeOK
<1>2. CASE main = "startSyn"
  BY <1>2 DEF Starting, Threads
<1>3. CASE main = "create"
  <2>1. Starting = Len(loops) + 1
    BY <1>3 DEF Starting
  <2>2. Len(loops) < NumLoops /\ \A l \in Loops : l > Len(loops) => pc[l] = "none"
    BY <1>3 DEF BaseInv, MainInv
  <2>3. Starting \in Loops /\ Starting > Len(loops)
    BY <1>1, <2>1, <2>2, StartAssumption DEF Loops
  <2> QED
    BY <1>3, <2>1, <2>2, <2>3, ThreadFacts
<1> QED
  BY <1>2, <1>3

LEMMA BaseInit == Init => BaseInv
<1> SUFFICES ASSUME Init
             PROVE  BaseInv
  OBVIOUS
<1>1. << >> \in Seq(Loops) /\ << >> \in Seq(Nat \ {None}) /\ Len(<< >>) = 0
  OBVIOUS
<1>2. TypeOK
  <2>1. loops \in Seq(Loops) /\ Len(loops) <= NumLoops
    BY <1>1, StartAssumption DEF Init
  <2>2. free \in [Pools -> Seq(Nat \ {None})]
    BY <1>1 DEF Init, Pools
  <2>3. /\ sem \in [Pools -> Nat] /\ next \in Nat /\ clients \in [Loops -> Nat]
        /\ conn \in [Loops -> Nat] /\ pool \in [Loops -> Pools]
    BY DEF Init, Pools, None
  <2> QED
    BY <2>1, <2>2, <2>3 DEF Init, TypeOK, Servers
<1>3. MainInv
  BY <1>1, StartAssumption, ThreadFacts DEF Init, MainInv, Early
<1>4. PlaceInv
  BY ThreadFacts DEF Init, PlaceInv
<1> QED
  BY <1>2, <1>3, <1>4 DEF BaseInv

LEMMA WokenMain ==
    ASSUME NEW t, BaseInv,
           \/ Woken("syncSleep", "syncLatch", t)
           \/ Woken("latchSleep", "latch", t)
           \/ Woken("condSleep", "cond", t)
    PROVE  /\ main' \in {"setConn", "mysqlInit", "redisInit", "startSyn", "syncLatch", "syncSleep",
                 "create", "latch", "latchSleep", "cond", "condSleep", "listen", "loop"}
           /\ main' \in Early <=> main \in Early
           /\ main' = "create" <=> main = "create"
           /\ main' \in {"listen", "loop"} <=> main \in {"listen", "loop"}
           /\ main' \in {"setConn", "mysqlInit"} <=> main \in {"setConn", "mysqlInit"}
           /\ main' = "loop" <=> main = "loop"
BY DEF Woken, BaseInv, TypeOK, Early

LEMMA BaseMain ==
    ASSUME BaseInv, MainStep \/ InitFails \/ NewConnection
    PROVE  BaseInv'
<1> USE DEF BaseInv
<1>1. CASE InitFails
  BY <1>1 DEF InitFails, SetConnFails, MysqlInitFails, RedisInitFails, Exit, TypeOK, MainInv,
              PlaceInv, startVars, poolVars, clientVars, redisVars
<1>2. CASE SetConn \/ Listen
  BY <1>2 DEF SetConn, Listen, TypeOK, MainInv, PlaceInv, startVars, poolVars, clientVars, Early, redisVars
<1>3. ASSUME NEW p \in Pools, NEW n \in Nat, Fill(p, n)
      PROVE  free' \in [Pools -> Seq(Nat \ {None})] /\ sem' \in [Pools -> Nat]
  <2>1. [i \in 1 .. n |-> i] \in Seq(Nat \ {None})
    BY FilledList
  <2> QED
    BY <1>3, <2>1 DEF Fill, TypeOK
<1>4. CASE MysqlInit
  <2>1. free' \in [Pools -> Seq(Nat \ {None})] /\ sem' \in [Pools -> Nat]
    BY <1>3, <1>4, StartAssumption DEF MysqlInit, Pools
  <2> QED
    BY <1>4, <2>1 DEF MysqlInit, Fill, TypeOK, MainInv, PlaceInv, startVars, clientVars, Early, redisVars
<1>5. CASE RedisInit
  <2>1. PICK n \in Half .. RedisConns : Fill("redis", n)
    BY <1>5 DEF RedisInit
  <2>2. n \in Nat
    BY <2>1, StartAssumption DEF Half
  <2>3. free' \in [Pools -> Seq(Nat \ {None})] /\ sem' \in [Pools -> Nat]
    BY <1>3, <2>1, <2>2 DEF Pools
  <2> QED
    BY <1>5, <2>1, <2>3 DEF RedisInit, Fill, TypeOK, MainInv, PlaceInv, startVars, clientVars, Early, redisVars
<1>6. CASE Create
  <2>1. pc' = pc \/ pc' = [pc EXCEPT ![Starting] = "created"]
    BY <1>6 DEF Create
  <2>2. \A l \in Loops : pc'[l] # pc[l] => main = "create" /\ l = Len(loops) + 1 /\ pc[l] = "none"
                                           /\ pc'[l] = "created" /\ main' = "latch"
    BY <1>6, StartingFacts, ThreadFacts DEF Create, TypeOK
  <2>3. TypeOK'
    BY <1>6, StartingFacts DEF Create, TypeOK, startVars, poolVars, clientVars, redisVars
  <2>4. main' \in {"syncLatch", "latch", "create", "cond"}
        /\ (main' = "syncLatch" => main = "startSyn") /\ (main' = "create" => main = "startSyn")
    BY <1>6 DEF Create
  <2>5. Len(loops) \in Nat /\ UNCHANGED <<loops, running>>
    BY <1>6 DEF Create, TypeOK
  <2>6. MainInv'
    BY <1>6, <2>2, <2>4, <2>5 DEF Create, MainInv, Early, Loops
  <2>7. PlaceInv'
    BY <1>6, <2>2 DEF Create, PlaceInv, poolVars
  <2> QED
    BY <2>3, <2>6, <2>7
<1>7. CASE LatchWait
  BY <1>7 DEF LatchWait, TypeOK, MainInv, PlaceInv, startVars, poolVars, clientVars, Early, redisVars
<1>8. CASE LoopWait
  <2>1. Len(loops) \in Nat /\ Len(loops) < NumLoops /\ Starting = Len(loops) + 1 /\ Starting \in Loops
    <3>1. Len(loops) \in Nat /\ Len(loops) < NumLoops
      BY <1>8 DEF LoopWait, TypeOK, MainInv
    <3>2. Starting = Len(loops) + 1
      BY <1>8 DEF LoopWait, Starting
    <3> QED
      BY <3>1, <3>2, StartAssumption DEF Loops
  <2>2. CASE Starting \in running
    <3>1. loops' = Append(loops, Starting) /\ running' = running /\ pc' = pc
          /\ main' = IF Starting = NumLoops THEN "listen" ELSE "create"
      BY <1>8, <2>2 DEF LoopWait
    <3>2. loops' \in Seq(Loops) /\ Len(loops') = Len(loops) + 1
      BY <2>1, <3>1 DEF TypeOK
    <3>3. TypeOK'
      BY <1>8, <2>1, <3>1, <3>2, StartAssumption DEF LoopWait, TypeOK, poolVars, clientVars, redisVars
    <3>4. MainInv'
      BY <2>1, <2>2, <3>1, <3>2, StartAssumption DEF MainInv, Early
    <3>5. PlaceInv'
      BY <1>8 DEF LoopWait, PlaceInv, poolVars
    <3> QED
      BY <3>3, <3>4, <3>5
  <2>3. CASE Starting \notin running
    BY <1>8, <2>3 DEF LoopWait, TypeOK, MainInv, PlaceInv, poolVars, clientVars, Early, redisVars
  <2> QED
    BY <2>2, <2>3
<1>9. CASE NewConnection
  <2>1. NextLoop \in Nat
    BY DEF NextLoop, TypeOK
  <2>2. clients' \in [Loops -> Nat]
    <3>1. clients' = [l \in Loops |-> IF l = loops[next + 1] THEN clients[l] + 1 ELSE clients[l]]
      BY <1>9 DEF NewConnection, TypeOK
    <3> QED
      BY <3>1 DEF TypeOK
  <2> QED
    BY <1>9, <2>1, <2>2 DEF NewConnection, TypeOK, MainInv, PlaceInv, startVars, poolVars, redisVars
<1> QED
  BY <1>1, <1>2, <1>4, <1>5, <1>6, <1>7, <1>8, <1>9 DEF MainStep

(* The steps of the other threads that leave the lists alone. *)
LEMMA BaseThread ==
    ASSUME BaseInv, NEW t \in Threads, CountDown(t) \/ (t \in Loops /\ (Announce(t) \/ Wake(t) \/ Check(t) \/ Use(t)))
    PROVE  BaseInv'
<1> USE DEF BaseInv
<1>1. /\ \A u \in Threads : u # t => pc'[u] = pc[u]
      /\ pc' \in [Threads -> {"none", "created", "copy", "check", "wait", "pop", "use", "put",
                           "post", "announce", "poll"}]
      /\ pc[t] # "none"
      /\ UNCHANGED <<loops, failed, poolVars>>
      /\ running \subseteq running' /\ running' \subseteq Loops /\ counted' \subseteq Threads
      /\ clients' \in [Loops -> Nat] /\ next' \in Nat /\ keys' \in SUBSET Servers /\ refused' \in BOOLEAN
      /\ outcome' \in {"up", "exit", "null", "nokeys"}
  BY DEF CountDown, Announce, Wake, Check, Use, TypeOK, startVars, clientVars, redisVars
<1>2. /\ main' \in {"setConn", "mysqlInit", "redisInit", "startSyn", "syncLatch", "syncSleep",
                 "create", "latch", "latchSleep", "cond", "condSleep", "listen", "loop"}
      /\ main' \in Early <=> main \in Early
      /\ main' = "create" <=> main = "create"
      /\ main' \in {"listen", "loop"} <=> main \in {"listen", "loop"}
  <2>1. \/ main' = main
        \/ Woken("syncSleep", "syncLatch", t)
        \/ Woken("latchSleep", "latch", t)
        \/ Woken("condSleep", "cond", t)
    BY DEF CountDown, Announce, Wake, Check, Use
  <2> QED
    BY <2>1, WokenMain DEF TypeOK
<1>3. TypeOK'
  BY <1>1, <1>2 DEF TypeOK, poolVars
<1>4. MainInv'
  BY <1>1, <1>2, ThreadFacts DEF MainInv
<1>5. t \in Loops => (pc'[t] \in {"use", "put"} <=> pc[t] \in {"use", "put"})
  BY ThreadFacts DEF CountDown, Announce, Wake, Check, Use, TypeOK
<1>6. PlaceInv'
  BY <1>1, <1>5, ThreadFacts DEF PlaceInv, poolVars
<1> QED
  BY <1>3, <1>4, <1>6

(* The steps of a loop with the lists. *)
LEMMA PoolStepFacts ==
    ASSUME BaseInv, NEW l \in Loops, Wait(l) \/ Pop(l) \/ Put(l) \/ Post(l)
    PROVE  /\ \A k \in Loops : k # l => pc'[k] = pc[k] /\ conn'[k] = conn[k] /\ pool'[k] = pool[k]
           /\ \A p \in Pools : p # pool[l] => free'[p] = free[p] /\ sem'[p] = sem[p]
           /\ UNCHANGED <<main, startVars, clientVars, redisVars, outcome>>
           /\ pool[l] \in Pools /\ pc[l] # "none"
           /\ Wait(l) => /\ pc[l] = "wait" /\ pc'[l] = "pop" /\ conn'[l] = conn[l] /\ pool' = pool
                         /\ free' = free /\ sem[pool[l]] > 0 /\ sem'[pool[l]] = sem[pool[l]] - 1
           /\ Pop(l) => /\ pc[l] = "pop" /\ pc'[l] = "use" /\ pool' = pool /\ sem' = sem
                        /\ free[pool[l]] # << >> /\ conn'[l] = Head(free[pool[l]])
                        /\ free'[pool[l]] = Tail(free[pool[l]])
           /\ Put(l) => /\ pc[l] = "put" /\ pc'[l] = "post" /\ pool' = pool /\ sem' = sem
                        /\ conn[l] \in Nat \ {None} /\ conn'[l] = None
                        /\ free'[pool[l]] = Append(free[pool[l]], conn[l])
           /\ Post(l) => /\ pc[l] = "post" /\ conn' = conn /\ free' = free
                         /\ sem'[pool[l]] = sem[pool[l]] + 1
                         /\ pool'[l] \in Pools /\ pc'[l] \in {"wait", "poll", "announce"}
<1> USE DEF BaseInv
<1>1. pc \in [Threads -> {"none", "created", "copy", "check", "wait", "pop", "use", "put",
                           "post", "announce", "poll"}] /\ l \in Threads /\ Loops \subseteq Threads
  BY ThreadFacts DEF TypeOK
<1>2. pool[l] \in Pools /\ pool \in [Loops -> Pools] /\ conn \in [Loops -> Nat]
      /\ free \in [Pools -> Seq(Nat \ {None})] /\ sem \in [Pools -> Nat]
  BY DEF TypeOK
<1>3. CASE Wait(l)
  BY <1>1, <1>2, <1>3 DEF Wait, Pop, Put, Post
<1>4. CASE Pop(l)
  BY <1>1, <1>2, <1>4 DEF Wait, Pop, Put, Post
<1>5. CASE Put(l)
  BY <1>1, <1>2, <1>5 DEF Wait, Pop, Put, Post, PlaceInv
<1>6. CASE Post(l)
  BY <1>1, <1>2, <1>6 DEF Wait, Pop, Put, Post, Pools
<1> QED
  BY <1>3, <1>4, <1>5, <1>6

LEMMA BasePool ==
    ASSUME BaseInv, NEW l \in Loops, Wait(l) \/ Pop(l) \/ Put(l) \/ Post(l)
    PROVE  BaseInv'
<1>1. /\ \A k \in Loops : k # l => pc'[k] = pc[k] /\ conn'[k] = conn[k]
      /\ UNCHANGED <<main, startVars, clientVars, redisVars, outcome>>
      /\ pc[l] # "none"
  BY PoolStepFacts
<1>2. pc' \in [Threads -> {"none", "created", "copy", "check", "wait", "pop", "use", "put",
                           "post", "announce", "poll"}]
  BY DEF Wait, Pop, Put, Post, BaseInv, TypeOK
<1>3. pool' \in [Loops -> Pools] /\ sem' \in [Pools -> Nat]
  <2>1. CASE Wait(l)
    BY <2>1 DEF Wait, BaseInv, TypeOK
  <2>2. CASE Pop(l) \/ Put(l)
    BY <2>2 DEF Pop, Put, BaseInv, TypeOK
  <2>3. CASE Post(l)
    BY <2>3 DEF Post, BaseInv, TypeOK, Pools
  <2> QED
    BY <2>1, <2>2, <2>3
<1>4. conn' \in [Loops -> Nat] /\ free' \in [Pools -> Seq(Nat \ {None})]
  <2>1. CASE Wait(l) \/ Post(l)
    BY <2>1 DEF Wait, Post, BaseInv, TypeOK
  <2>2. CASE Pop(l)
    <3>1. free[pool[l]] \in Seq(Nat \ {None}) /\ free[pool[l]] # << >>
      BY <2>2 DEF Pop, BaseInv, TypeOK
    <3>2. Head(free[pool[l]]) \in Nat /\ Tail(free[pool[l]]) \in Seq(Nat \ {None})
      BY <3>1, TakenFirst
    <3> QED
      BY <2>2, <3>2 DEF Pop, BaseInv, TypeOK
  <2>3. CASE Put(l)
    <3>1. free[pool[l]] \in Seq(Nat \ {None}) /\ conn[l] \in Nat \ {None}
      BY <2>3, PoolStepFacts DEF BaseInv, TypeOK
    <3>2. Append(free[pool[l]], conn[l]) \in Seq(Nat \ {None})
      BY <3>1, PutBack
    <3> QED
      BY <2>3, <3>2 DEF Put, BaseInv, TypeOK, None
  <2> QED
    BY <2>1, <2>2, <2>3
<1>5. TypeOK'
  BY <1>1, <1>2, <1>3, <1>4 DEF BaseInv, TypeOK, startVars, clientVars, redisVars
<1>6. MainInv'
  BY <1>1 DEF BaseInv, MainInv, startVars
<1>7. conn'[l] # None <=> pc'[l] \in {"use", "put"}
  <2>1. CASE Wait(l) \/ Post(l)
    BY <2>1, PoolStepFacts DEF BaseInv, PlaceInv
  <2>2. CASE Pop(l)
    <3>1. free[pool[l]] \in Seq(Nat \ {None}) /\ free[pool[l]] # << >>
      BY <2>2 DEF Pop, BaseInv, TypeOK
    <3> QED
      BY <2>2, <3>1, PoolStepFacts, TakenFirst
  <2>3. CASE Put(l)
    BY <2>3, PoolStepFacts
  <2> QED
    BY <2>1, <2>2, <2>3
<1>8. PlaceInv'
  BY <1>1, <1>7 DEF BaseInv, PlaceInv
<1> QED
  BY <1>5, <1>6, <1>8 DEF BaseInv

LEMMA BaseQuiet ==
    ASSUME BaseInv, UNCHANGED vars \/ Copy \/ Replicate
    PROVE  BaseInv'
<1>1. CASE UNCHANGED vars
  BY <1>1 DEF BaseInv, TypeOK, MainInv, PlaceInv, vars, startVars, poolVars, clientVars, redisVars
<1>2. CASE Copy \/ Replicate
  <2>1. keys' \in SUBSET Servers
    BY <1>2 DEF Copy, Replicate, BaseInv, TypeOK, Servers
  <2>2. UNCHANGED <<main, pc, startVars, poolVars, clientVars, refused, outcome>>
    BY <1>2 DEF Copy, Replicate
  <2>3. TypeOK'
    BY <2>1, <2>2 DEF BaseInv, TypeOK, startVars, poolVars, clientVars
  <2>4. MainInv' /\ PlaceInv'
    BY <2>2 DEF BaseInv, MainInv, PlaceInv, startVars, poolVars
  <2> QED
    BY <2>3, <2>4 DEF BaseInv
<1> QED
  BY <1>1, <1>2

LEMMA BaseStep == BaseInv /\ [Next]_vars => BaseInv'
<1> SUFFICES ASSUME BaseInv, [Next]_vars
             PROVE  BaseInv'
  OBVIOUS
<1>1. Sync \in Threads
  BY DEF Threads
<1> QED
  BY <1>1, BaseMain, BaseThread, BasePool, BaseQuiet, ThreadFacts DEF Next, LoopStep

\* Every variable keeps its kind.
THEOREM TypeCorrect == Spec => []TypeOK
<1>1. BaseInv => TypeOK
  BY DEF BaseInv
<1> QED
  BY BaseInit, BaseStep, <1>1, PTL DEF Spec

-----------------------------------------------------------------------------
(* Nobody holds what another holds or what is in the list.                   *)

LEMMA NotFilledYet ==
    ASSUME BaseInv, main \in Early, NEW l \in Loops
    PROVE  pc[l] = "none" /\ conn[l] = None
<1>1. loops = << >> /\ l > 0
  BY ThreadFacts DEF BaseInv, MainInv
<1>2. Len(loops) = 0
  BY <1>1
<1>3. pc[l] = "none"
  BY <1>1, <1>2 DEF BaseInv, MainInv
<1> QED
  BY <1>3 DEF BaseInv, PlaceInv

LEMMA OneHolderFilled ==
    ASSUME BaseInv, OneHolder, NEW q \in Pools, NEW n \in Nat, Fill(q, n), main \in Early
    PROVE  OneHolder'
<1>1. \A p \in Pools : Holders(p)' = {}
  BY NotFilledYet DEF Fill, Holders
<1>2. IsInjective([i \in 1 .. n |-> i])
  BY FilledList
<1>3. \A p \in Pools : IsInjective(free'[p])
  BY <1>2 DEF Fill, OneHolder, BaseInv, TypeOK
<1> QED
  BY <1>1, <1>3 DEF OneHolder

LEMMA OneHolderPool ==
    ASSUME BaseInv, OneHolder, NEW l \in Loops, Wait(l) \/ Pop(l) \/ Put(l) \/ Post(l)
    PROVE  OneHolder'
<1> SUFFICES ASSUME NEW p \in Pools
             PROVE  (/\ IsInjective(free[p])
                     /\ \A k \in Holders(p) : conn[k] \notin ToSet(free[p])
                     /\ \A j, k \in Holders(p) : conn[j] = conn[k] => j = k)'
  BY DEF OneHolder
<1>1. /\ IsInjective(free[p])
      /\ \A k \in Holders(p) : conn[k] \notin ToSet(free[p])
      /\ \A j, k \in Holders(p) : conn[j] = conn[k] => j = k
  BY DEF OneHolder
<1>2. free[p] \in Seq(Nat \ {None})
  BY DEF BaseInv, TypeOK
<1>3. CASE p # pool[l] \/ Wait(l) \/ Post(l)
  <2>1. free'[p] = free[p] /\ Holders(p)' = Holders(p) /\ \A k \in Holders(p) : conn'[k] = conn[k]
    <3>1. CASE Wait(l)
      BY <3>1, PoolStepFacts DEF Wait, Holders
    <3>2. CASE Post(l)
      <4>1. conn[l] = None /\ conn' = conn
        BY <3>2, PoolStepFacts DEF BaseInv, PlaceInv
      <4> QED
        BY <3>2, <4>1, PoolStepFacts DEF Holders
    <3>3. CASE p # pool[l] /\ (Pop(l) \/ Put(l))
      BY <3>3, PoolStepFacts DEF Holders
    <3> QED
      BY <1>3, <3>1, <3>2, <3>3
  <2> QED
    BY <1>1, <2>1
<1>4. CASE p = pool[l] /\ Pop(l)
  <2>1. /\ Holders(p)' = Holders(p) \cup {l} /\ conn'[l] = Head(free[p]) /\ free'[p] = Tail(free[p])
        /\ \A k \in Holders(p) : k # l /\ conn'[k] = conn[k]
    <3>1. free[p] # << >>
      BY <1>4, PoolStepFacts
    <3>2. conn[l] = None /\ conn'[l] # None
      BY <1>2, <1>4, <3>1, PoolStepFacts, TakenFirst DEF BaseInv, PlaceInv
    <3> QED
      BY <1>4, <3>2, PoolStepFacts DEF Holders
  <2>2. /\ IsInjective(Tail(free[p])) /\ Head(free[p]) \notin ToSet(Tail(free[p]))
        /\ ToSet(Tail(free[p])) \subseteq ToSet(free[p]) /\ Head(free[p]) \in ToSet(free[p])
    BY <1>1, <1>2, <1>4, PoolStepFacts, TakenFirst
  <2> QED
    BY <1>1, <2>1, <2>2
<1>5. CASE p = pool[l] /\ Put(l)
  <2>1. /\ Holders(p)' = Holders(p) \ {l} /\ free'[p] = Append(free[p], conn[l])
        /\ l \in Holders(p) /\ conn[l] \in Nat \ {None}
        /\ \A k \in Holders(p) : k # l => conn'[k] = conn[k]
    BY <1>5, PoolStepFacts DEF Holders
  <2>2. /\ ToSet(Append(free[p], conn[l])) = ToSet(free[p]) \cup {conn[l]}
        /\ IsInjective(Append(free[p], conn[l]))
    BY <1>1, <1>2, <2>1, PutBack
  <2> QED
    BY <1>1, <2>1, <2>2
<1> QED
  BY <1>3, <1>4, <1>5

LEMMA OneHolderStep == BaseInv /\ OneHolder /\ [Next]_vars => OneHolder'
<1> SUFFICES ASSUME BaseInv, OneHolder, [Next]_vars
             PROVE  OneHolder'
  OBVIOUS
<1>1. ASSUME UNCHANGED poolVars
      PROVE  OneHolder'
  BY <1>1 DEF poolVars, OneHolder, Holders
<1>2. CASE MysqlInit
  BY <1>2, OneHolderFilled, StartAssumption DEF MysqlInit, Early, Pools
<1>3. CASE RedisInit
  <2>1. PICK n \in Half .. RedisConns : Fill("redis", n)
    BY <1>3 DEF RedisInit
  <2>2. n \in Nat
    BY <2>1, StartAssumption DEF Half
  <2> QED
    BY <1>3, <2>1, <2>2, OneHolderFilled DEF RedisInit, Early, Pools
<1>4. ASSUME NEW l \in Loops, Wait(l) \/ Pop(l) \/ Put(l) \/ Post(l)
      PROVE  OneHolder'
  BY <1>4, OneHolderPool
<1>5. \/ UNCHANGED poolVars \/ MysqlInit \/ RedisInit
      \/ \E l \in Loops : Wait(l) \/ Pop(l) \/ Put(l) \/ Post(l)
  BY DEF Next, MainStep, InitFails, LoopStep, SetConnFails, MysqlInitFails, RedisInitFails, Exit,
         SetConn, Create, LatchWait, LoopWait, Listen, NewConnection, CountDown, Copy, Replicate, Check, Use,
         Announce, Wake, vars, poolVars
<1> QED
  BY <1>1, <1>2, <1>3, <1>4, <1>5

\* No two loops ever speak on one connection.
THEOREM ConnectionsHaveOneHolder == Spec => []OneHolder
<1>1. Init => OneHolder
  <2> SUFFICES ASSUME Init, NEW p \in Pools
               PROVE  IsInjective(free[p]) /\ Holders(p) = {}
    BY DEF OneHolder
  <2> QED
    BY DEF Init, Holders, IsInjective, Pools
<1> QED
  BY BaseInit, BaseStep, OneHolderStep, <1>1, PTL DEF Spec

-----------------------------------------------------------------------------
(* The semaphore counts the list, less those on their way to it and those    *)
(* who have put their connection back and not posted yet.                    *)

At(p, place) == {l \in Loops : pool[l] = p /\ pc[l] = place}

SemInv == \A p \in Pools :
    Len(free[p]) = sem[p] + Cardinality(At(p, "pop")) + Cardinality(At(p, "post"))

LEMMA AtFinite ==
    \A p, place : /\ IsFiniteSet(At(p, place)) /\ Cardinality(At(p, place)) \in Nat
                  /\ IsFiniteSet(At(p, place))' /\ Cardinality(At(p, place))' \in Nat
<1>1. ASSUME NEW S \in SUBSET Loops
      PROVE  IsFiniteSet(S) /\ Cardinality(S) \in Nat
  BY ThreadFacts, FS_Subset, FS_CardinalityType
<1>2. ASSUME NEW p, NEW place
      PROVE  At(p, place) \in SUBSET Loops /\ At(p, place)' \in SUBSET Loops
  BY DEF At
<1> QED
  BY <1>1, <1>2

LEMMA Counted ==
    ASSUME NEW S, IsFiniteSet(S), NEW x
    PROVE  /\ x \notin S => Cardinality(S \cup {x}) = Cardinality(S) + 1
           /\ x \in S => Cardinality(S \ {x}) = Cardinality(S) - 1
BY FS_AddElement, FS_RemoveElement

LEMMA Balance ==
    ASSUME NEW len \in Nat, NEW a \in Nat, NEW b \in Nat, NEW c \in Nat, len = a + b + c,
           NEW len2, NEW a2, NEW b2, NEW c2,
           \/ len2 = len /\ a2 = a - 1 /\ b2 = b + 1 /\ c2 = c
           \/ len2 = len - 1 /\ a2 = a /\ b2 = b - 1 /\ c2 = c
           \/ len2 = len + 1 /\ a2 = a /\ b2 = b /\ c2 = c + 1
           \/ len2 = len /\ a2 = a + 1 /\ b2 = b /\ c2 = c - 1
    PROVE  len2 = a2 + b2 + c2
OBVIOUS

LEMMA SemPool ==
    ASSUME BaseInv, SemInv, NEW l \in Loops, Wait(l) \/ Pop(l) \/ Put(l) \/ Post(l)
    PROVE  SemInv'
<1> SUFFICES ASSUME NEW p \in Pools
             PROVE  (Len(free[p]) = sem[p] + Cardinality(At(p, "pop")) + Cardinality(At(p, "post")))'
  BY DEF SemInv
<1>1. /\ Len(free[p]) = sem[p] + Cardinality(At(p, "pop")) + Cardinality(At(p, "post"))
      /\ free[p] \in Seq(Nat \ {None}) /\ sem[p] \in Nat /\ Len(free[p]) \in Nat
  BY DEF SemInv, BaseInv, TypeOK
<1>2. CASE p # pool[l]
  <2>1. At(p, "pop")' = At(p, "pop")
    BY <1>2, PoolStepFacts DEF At
  <2>2. At(p, "post")' = At(p, "post")
    BY <1>2, PoolStepFacts DEF At
  <2> QED
    BY <1>1, <1>2, <2>1, <2>2, PoolStepFacts
<1>3. CASE p = pool[l] /\ Wait(l)
  <2>1. At(p, "pop")' = At(p, "pop") \cup {l} /\ l \notin At(p, "pop")
    BY <1>3, PoolStepFacts DEF At
  <2>2. At(p, "post")' = At(p, "post")
    BY <1>3, PoolStepFacts DEF At
  <2>3. sem'[p] = sem[p] - 1 /\ Len(free'[p]) = Len(free[p])
    BY <1>3, PoolStepFacts
  <2>4. Cardinality(At(p, "pop"))' = Cardinality(At(p, "pop")) + 1
    BY <2>1, AtFinite, Counted
  <2>5. Cardinality(At(p, "post"))' = Cardinality(At(p, "post"))
    BY <2>2
  <2>6. Cardinality(At(p, "pop")) \in Nat /\ Cardinality(At(p, "post")) \in Nat
    BY AtFinite
  <2> QED
    <3> DEFINE len2 == Len(free'[p])
               a2 == sem'[p]
               b2 == Cardinality(At(p, "pop"))'
               c2 == Cardinality(At(p, "post"))'
    <3>1. len2 = Len(free[p]) /\ a2 = sem[p] - 1 /\ b2 = Cardinality(At(p, "pop")) + 1
          /\ c2 = Cardinality(At(p, "post"))
      BY <2>3, <2>4, <2>5
    <3> HIDE DEF len2, a2, b2, c2
    <3>2. len2 = a2 + b2 + c2
      BY <1>1, <2>6, <3>1, Balance, SMTT(30)
    <3> QED
      BY <3>2 DEF len2, a2, b2, c2
<1>4. CASE p = pool[l] /\ Pop(l)
  <2>1. At(p, "pop")' = At(p, "pop") \ {l} /\ l \in At(p, "pop")
    BY <1>4, PoolStepFacts DEF At
  <2>2. At(p, "post")' = At(p, "post")
    BY <1>4, PoolStepFacts DEF At
  <2>3. sem'[p] = sem[p] /\ Len(free'[p]) = Len(free[p]) - 1
    BY <1>1, <1>4, PoolStepFacts, TakenFirst
  <2>4. Cardinality(At(p, "pop"))' = Cardinality(At(p, "pop")) - 1
    BY <2>1, AtFinite, Counted
  <2>5. Cardinality(At(p, "post"))' = Cardinality(At(p, "post"))
    BY <2>2
  <2>6. Cardinality(At(p, "pop")) \in Nat /\ Cardinality(At(p, "post")) \in Nat
    BY AtFinite
  <2> QED
    BY <1>1, <2>3, <2>4, <2>5, <2>6, Balance
<1>5. CASE p = pool[l] /\ Put(l)
  <2>1. At(p, "pop")' = At(p, "pop")
    BY <1>5, PoolStepFacts DEF At
  <2>2. At(p, "post")' = At(p, "post") \cup {l} /\ l \notin At(p, "post")
    BY <1>5, PoolStepFacts DEF At
  <2>3. sem'[p] = sem[p] /\ Len(free'[p]) = Len(free[p]) + 1
    BY <1>1, <1>5, PoolStepFacts, PutBack
  <2>4. Cardinality(At(p, "pop"))' = Cardinality(At(p, "pop"))
    BY <2>1
  <2>5. Cardinality(At(p, "post"))' = Cardinality(At(p, "post")) + 1
    BY <2>2, AtFinite, Counted
  <2>6. Cardinality(At(p, "pop")) \in Nat /\ Cardinality(At(p, "post")) \in Nat
    BY AtFinite
  <2> QED
    BY <1>1, <2>3, <2>4, <2>5, <2>6, Balance
<1>6. CASE p = pool[l] /\ Post(l)
  <2>1. At(p, "pop")' = At(p, "pop")
    BY <1>6, PoolStepFacts DEF At
  <2>2. At(p, "post")' = At(p, "post") \ {l} /\ l \in At(p, "post")
    BY <1>6, PoolStepFacts DEF At
  <2>3. sem'[p] = sem[p] + 1 /\ Len(free'[p]) = Len(free[p])
    BY <1>6, PoolStepFacts
  <2>4. Cardinality(At(p, "pop"))' = Cardinality(At(p, "pop"))
    BY <2>1
  <2>5. Cardinality(At(p, "post"))' = Cardinality(At(p, "post")) - 1
    BY <2>2, AtFinite, Counted
  <2>6. Cardinality(At(p, "pop")) \in Nat /\ Cardinality(At(p, "post")) \in Nat
    BY AtFinite
  <2> QED
    BY <1>1, <2>3, <2>4, <2>5, <2>6, Balance, SMTT(30)
<1> QED
  BY <1>2, <1>3, <1>4, <1>5, <1>6

LEMMA SemFilled ==
    ASSUME BaseInv, SemInv, NEW q \in Pools, NEW n \in Nat, Fill(q, n), main \in Early, pc' = pc
    PROVE  SemInv'
<1> SUFFICES ASSUME NEW p \in Pools
             PROVE  (Len(free[p]) = sem[p] + Cardinality(At(p, "pop")) + Cardinality(At(p, "post")))'
  BY DEF SemInv
<1>1. At(p, "pop") = {} /\ At(p, "post") = {} /\ At(p, "pop")' = {} /\ At(p, "post")' = {}
  BY NotFilledYet DEF Fill, At
<1>2. /\ Cardinality(At(p, "pop")) = 0 /\ Cardinality(At(p, "post")) = 0
      /\ Cardinality(At(p, "pop"))' = 0 /\ Cardinality(At(p, "post"))' = 0
  BY <1>1, FS_EmptySet
<1>3. Len(free[p]) = sem[p] /\ sem[p] \in Nat
  BY <1>2 DEF SemInv, BaseInv, TypeOK
<1>4. Len([i \in 1 .. n |-> i]) = n
  BY FilledList
<1>5. Len(free'[p]) = sem'[p] /\ sem'[p] \in Nat
  BY <1>3, <1>4 DEF Fill, BaseInv, TypeOK
<1> QED
  BY <1>2, <1>5

\* What the other steps do to the places of the loops.
LEMMA OtherSteps ==
    ASSUME BaseInv, [Next]_vars
    PROVE  \/ (MysqlInit \/ RedisInit) /\ pc' = pc
           \/ \E l \in Loops : Wait(l) \/ Pop(l) \/ Put(l) \/ Post(l)
           \/ /\ UNCHANGED poolVars
              /\ \A l \in Loops, place \in {"pop", "post"} : pc'[l] = place <=> pc[l] = place
<1>1. ASSUME NEW t \in Threads,
             CountDown(t) \/ (t \in Loops /\ (Announce(t) \/ Wake(t) \/ Check(t) \/ Use(t)))
      PROVE  /\ UNCHANGED poolVars
             /\ \A l \in Loops, place \in {"pop", "post"} : pc'[l] = place <=> pc[l] = place
  <2>1. UNCHANGED poolVars /\ pc \in [Threads -> {"none", "created", "copy", "check", "wait", "pop",
           "use", "put", "post", "announce", "poll"}]
    BY <1>1 DEF CountDown, Announce, Wake, Check, Use, BaseInv, TypeOK, poolVars
  <2>2. \/ pc' = pc
        \/ pc[t] \notin {"pop", "post"}
           /\ \E place \in {"copy", "check", "wait", "put", "poll"} : pc' = [pc EXCEPT ![t] = place]
    <3>1. CASE CountDown(t)
      BY <3>1 DEF CountDown
    <3>2. CASE t \in Loops /\ (Announce(t) \/ Wake(t) \/ Check(t) \/ Use(t))
      BY <3>2 DEF Announce, Wake, Check, Use
    <3> QED
      BY <1>1, <3>1, <3>2
  <2> QED
    BY <2>1, <2>2, ThreadFacts
<1>2. CASE Create
  <2>1. UNCHANGED poolVars
    BY <1>2 DEF Create
  <2>2. \A l \in Loops, place \in {"pop", "post"} : pc'[l] = place <=> pc[l] = place
    BY <1>2, StartingFacts, ThreadFacts DEF Create, BaseInv, TypeOK
  <2> QED
    BY <2>1, <2>2
<1>3. CASE InitFails \/ SetConn \/ LatchWait \/ LoopWait \/ Listen \/ NewConnection \/ Copy \/ Replicate
           \/ UNCHANGED vars
  <2>1. UNCHANGED <<pc, poolVars>>
    BY <1>3 DEF InitFails, SetConnFails, MysqlInitFails, RedisInitFails, Exit, SetConn, LatchWait,
                LoopWait, Listen, NewConnection, Copy, Replicate, vars, poolVars
  <2> QED
    BY <2>1
<1>4. MysqlInit \/ RedisInit => pc' = pc
  BY DEF MysqlInit, RedisInit
<1>5. Sync \in Threads
  BY DEF Threads
<1> QED
  BY <1>1, <1>2, <1>3, <1>4, <1>5, ThreadFacts DEF Next, MainStep, LoopStep

LEMMA FilledNow ==
    ASSUME BaseInv, MysqlInit \/ RedisInit
    PROVE  main \in Early /\ \E p \in Pools, n \in Nat : Fill(p, n)
<1>1. CASE MysqlInit
  BY <1>1, StartAssumption DEF MysqlInit, Early, Pools
<1>2. CASE RedisInit
  <2>1. PICK n \in Half .. RedisConns : Fill("redis", n)
    BY <1>2 DEF RedisInit
  <2>2. n \in Nat
    BY <2>1, StartAssumption DEF Half
  <2> QED
    BY <1>2, <2>1, <2>2 DEF RedisInit, Early, Pools
<1> QED
  BY <1>1, <1>2

LEMMA SemStep == BaseInv /\ SemInv /\ [Next]_vars => SemInv'
<1> SUFFICES ASSUME BaseInv, SemInv, [Next]_vars
             PROVE  SemInv'
  OBVIOUS
<1>1. ASSUME UNCHANGED poolVars,
             \A l \in Loops, place \in {"pop", "post"} : pc'[l] = place <=> pc[l] = place
      PROVE  SemInv'
  <2>1. ASSUME NEW p
        PROVE  At(p, "pop")' = At(p, "pop") /\ At(p, "post")' = At(p, "post")
    BY <1>1 DEF At, poolVars
  <2> QED
    BY <1>1, <2>1 DEF SemInv, poolVars
<1>2. ASSUME MysqlInit \/ RedisInit, pc' = pc
      PROVE  SemInv'
  BY <1>2, FilledNow, SemFilled
<1>3. ASSUME NEW l \in Loops, Wait(l) \/ Pop(l) \/ Put(l) \/ Post(l)
      PROVE  SemInv'
  BY <1>3, SemPool
<1> QED
  BY <1>1, <1>2, <1>3, OtherSteps

LEMMA SemInit == Init => SemInv
<1> SUFFICES ASSUME Init, NEW p \in Pools
             PROVE  Len(free[p]) = sem[p] + Cardinality(At(p, "pop")) + Cardinality(At(p, "post"))
  BY DEF SemInv
<1>1. At(p, "pop") = {} /\ At(p, "post") = {}
  BY ThreadFacts DEF Init, At
<1>2. Len(free[p]) = 0 /\ sem[p] = 0
  BY DEF Init, Pools
<1>3. Cardinality(At(p, "pop")) = 0 /\ Cardinality(At(p, "post")) = 0
  BY <1>1, FS_EmptySet
<1> QED
  BY <1>2, <1>3

\* Whoever has passed the semaphore finds a connection in the list.
THEOREM ConnectionIsThere == Spec => []PopFinds
<1>1. BaseInv /\ SemInv => PopFinds
  <2> SUFFICES ASSUME BaseInv, SemInv, NEW p \in Pools
               PROVE  Cardinality(At(p, "pop")) <= Len(free[p])
    BY DEF PopFinds, At
  <2>1. sem[p] \in Nat /\ Cardinality(At(p, "pop")) \in Nat /\ Cardinality(At(p, "post")) \in Nat
    BY AtFinite DEF BaseInv, TypeOK
  <2> QED
    BY <2>1 DEF SemInv
<1> QED
  BY BaseInit, BaseStep, SemInit, SemStep, <1>1, PTL DEF Spec

-----------------------------------------------------------------------------
(* Every connection is in its list or held.                                  *)

Made(p) == Len(free[p]) + Cardinality(Holders(p))

CountInv ==
    /\ main \notin {"setConn", "mysqlInit"} => Made("mysql") = MysqlConns
    /\ main \notin {"setConn", "mysqlInit", "redisInit"} => Made("redis") \in Half .. RedisConns

LEMMA HoldersFinite ==
    ASSUME NEW p
    PROVE  /\ IsFiniteSet(Holders(p)) /\ Cardinality(Holders(p)) \in Nat
           /\ IsFiniteSet(Holders(p)') /\ Cardinality(Holders(p)') \in Nat
<1>1. ASSUME NEW S \in SUBSET Loops
      PROVE  IsFiniteSet(S) /\ Cardinality(S) \in Nat
  BY ThreadFacts, FS_Subset, FS_CardinalityType
<1>2. Holders(p) \in SUBSET Loops /\ Holders(p)' \in SUBSET Loops
  BY DEF Holders
<1> QED
  BY <1>1, <1>2

(* Only the init functions fill a pool and go on. *)
LEMMA FirstInit ==
    ASSUME BaseInv, [Next]_vars
    PROVE  /\ main \in {"setConn", "mysqlInit"} /\ main' \notin {"setConn", "mysqlInit"} => MysqlInit
           /\ main = "redisInit" /\ main' # "redisInit" => RedisInit
<1>1. ASSUME NEW t, CountDown(t) \/ Check(t) \/ Wait(t) \/ Pop(t) \/ Use(t) \/ Put(t) \/ Post(t)
                    \/ Announce(t) \/ Wake(t)
      PROVE  main' = main \/ main \notin {"setConn", "mysqlInit", "redisInit"}
  BY <1>1 DEF CountDown, Check, Wait, Pop, Use, Put, Post, Announce, Wake, Woken
<1>2. Copy \/ Replicate \/ InitFails \/ UNCHANGED vars => main' = main
  BY DEF Copy, Replicate, InitFails, SetConnFails, MysqlInitFails, RedisInitFails, Exit, vars
<1>3. Create \/ LatchWait \/ LoopWait \/ Listen \/ NewConnection
         => main \notin {"setConn", "mysqlInit", "redisInit"}
  BY DEF Create, LatchWait, LoopWait, Listen, NewConnection
<1>4. SetConn => main = "setConn" /\ main' = "mysqlInit"
  BY DEF SetConn
<1>5. /\ RedisInit => main = "redisInit"
      /\ MysqlInit => main = "mysqlInit"
  BY DEF RedisInit, MysqlInit
<1> QED
  BY <1>1, <1>2, <1>3, <1>4, <1>5 DEF Next, MainStep, LoopStep

LEMMA MadeKept ==
    ASSUME BaseInv, NEW p \in Pools, NEW l \in Loops, Wait(l) \/ Pop(l) \/ Put(l) \/ Post(l)
    PROVE  Made(p)' = Made(p) /\ main' = main
<1>1. main' = main /\ free[p] \in Seq(Nat \ {None}) /\ Len(free[p]) \in Nat
  BY PoolStepFacts DEF BaseInv, TypeOK
<1>2. CASE Wait(l) \/ Post(l) \/ pool[l] # p
  <2>1. free'[p] = free[p]
    BY <1>1, <1>2, PoolStepFacts
  <2>2. Holders(p)' = Holders(p)
    <3>1. CASE Wait(l)
      BY <3>1, PoolStepFacts DEF Holders
    <3>2. CASE Post(l)
      <4>1. conn[l] = None /\ conn' = conn
        BY <3>2, PoolStepFacts DEF BaseInv, PlaceInv
      <4> QED
        BY <3>2, <4>1, PoolStepFacts DEF Holders
    <3>3. CASE pool[l] # p /\ (Pop(l) \/ Put(l))
      BY <3>3, PoolStepFacts DEF Holders
    <3> QED
      BY <1>2, <3>1, <3>2, <3>3
  <2> QED
    BY <1>1, <2>1, <2>2 DEF Made
<1>3. CASE pool[l] = p /\ Pop(l)
  <2>1. Len(free'[p]) = Len(free[p]) - 1 /\ conn'[l] # None
    <3>1. /\ free[p] # << >> /\ free'[p] = Tail(free[p])
          /\ conn'[l] = Head(free[p])
      BY <1>3, PoolStepFacts
    <3> QED
      BY <1>1, <3>1, TakenFirst
  <2>2. Holders(p)' = Holders(p) \cup {l} /\ l \notin Holders(p)
    BY <1>3, <2>1, PoolStepFacts DEF Holders, BaseInv, PlaceInv
  <2>3. Cardinality(Holders(p)') = Cardinality(Holders(p)) + 1
    BY <2>2, HoldersFinite, Counted
  <2>4. Cardinality(Holders(p)) \in Nat /\ Len(free[p]) \in Nat
    BY <1>1, HoldersFinite
  <2>5. Len(free'[p]) + Cardinality(Holders(p)') = Len(free[p]) + Cardinality(Holders(p))
    BY ONLY <2>1, <2>3, <2>4, SMTT(30)
  <2> QED
    BY <1>1, <2>5 DEF Made
<1>4. CASE pool[l] = p /\ Put(l)
  <2>1. Len(free'[p]) = Len(free[p]) + 1
    BY <1>1, <1>4, PoolStepFacts, PutBack
  <2>2. Holders(p)' = Holders(p) \ {l} /\ l \in Holders(p)
    BY <1>4, PoolStepFacts DEF Holders
  <2>3. Cardinality(Holders(p)') = Cardinality(Holders(p)) - 1
    BY <2>2, HoldersFinite, Counted
  <2>4. Cardinality(Holders(p)) \in Nat /\ Len(free[p]) \in Nat
    BY <1>1, HoldersFinite
  <2>5. Len(free'[p]) + Cardinality(Holders(p)') = Len(free[p]) + Cardinality(Holders(p))
    BY ONLY <2>1, <2>3, <2>4, SMTT(30)
  <2> QED
    BY <1>1, <2>5 DEF Made
<1> QED
  BY <1>2, <1>3, <1>4

LEMMA MadeNow ==
    ASSUME BaseInv, NEW p \in Pools, NEW n \in Nat, Fill(p, n), main \in Early
    PROVE  Made(p)' = n /\ \A q \in Pools : q # p => Made(q)' = Made(q)
<1>1. \A q \in Pools : Holders(q)' = {} /\ Holders(q) = {}
  BY NotFilledYet DEF Fill, Holders
<1>2. free'[p] = [i \in 1 .. n |-> i] /\ \A q \in Pools : q # p => free'[q] = free[q]
  BY DEF Fill, BaseInv, TypeOK
<1>3. Len(free'[p]) = n
  BY <1>2, FilledList
<1>4. Cardinality(Holders(p)') = 0
  BY <1>1, FS_EmptySet
<1>5. Made(p)' = n
  BY <1>3, <1>4 DEF Made
<1>6. ASSUME NEW q \in Pools, q # p
      PROVE  Made(q)' = Made(q)
  <2>1. free'[q] = free[q] /\ Holders(q)' = Holders(q)
    BY <1>1, <1>2, <1>6
  <2> QED
    BY <2>1 DEF Made
<1> QED
  BY <1>5, <1>6

LEMMA CountStep == BaseInv /\ CountInv /\ [Next]_vars => CountInv'
<1> SUFFICES ASSUME BaseInv, CountInv, [Next]_vars
             PROVE  CountInv'
  OBVIOUS
<1>0. "mysql" \in Pools /\ "redis" \in Pools
  BY DEF Pools
<1>1. CASE MysqlInit
  <2>1. Fill("mysql", MysqlConns) /\ main = "mysqlInit" /\ main' = "redisInit"
    BY <1>1 DEF MysqlInit
  <2>2. Made("mysql")' = MysqlConns
    BY <1>0, <2>1, MadeNow, StartAssumption DEF Early
  <2> QED
    BY <2>1, <2>2 DEF CountInv
<1>2. CASE RedisInit
  <2>1. main = "redisInit" /\ main' = "startSyn"
    BY <1>2 DEF RedisInit
  <2>2. PICK n \in Half .. RedisConns : Fill("redis", n)
    BY <1>2 DEF RedisInit
  <2>3. n \in Nat
    BY <2>2, StartAssumption DEF Half
  <2>4. Made("redis")' = n /\ Made("mysql")' = Made("mysql")
    BY <1>0, <2>1, <2>2, <2>3, MadeNow DEF Early
  <2> QED
    BY <2>1, <2>2, <2>4 DEF CountInv
<1>3. ASSUME NEW l \in Loops, Wait(l) \/ Pop(l) \/ Put(l) \/ Post(l)
      PROVE  CountInv'
  BY <1>0, <1>3, MadeKept DEF CountInv
<1>4. CASE UNCHANGED poolVars /\ ~MysqlInit /\ ~RedisInit
  <2>1. /\ main' \notin {"setConn", "mysqlInit"} => main \notin {"setConn", "mysqlInit"}
        /\ main' # "redisInit" => main # "redisInit"
    BY <1>4, FirstInit
  <2>2. Made("mysql")' = Made("mysql") /\ Made("redis")' = Made("redis")
    BY <1>4 DEF poolVars, Holders, Made
  <2> QED
    BY <2>1, <2>2 DEF CountInv
<1> QED
  BY <1>1, <1>2, <1>3, <1>4, OtherSteps

LEMMA NullStep == BaseInv /\ CountInv /\ NeverNull /\ [Next]_vars => NeverNull'
<1> SUFFICES ASSUME BaseInv, CountInv, MysqlConns >= NumLoops, outcome # "null", [Next]_vars
             PROVE  outcome' # "null"
  BY DEF NeverNull
<1>1. ASSUME NEW l \in Loops, Check(l)
      PROVE  outcome' # "null"
  <2>1. main \notin {"setConn", "mysqlInit"}
    BY <1>1, NotFilledYet DEF Check, Early
  <2>2. l \notin Holders("mysql")
    BY <1>1 DEF Check, Holders, BaseInv, PlaceInv
  <2>3. Holders("mysql") \in SUBSET Loops /\ Holders("mysql") # Loops
    BY <2>2 DEF Holders
  <2>4. Cardinality(Holders("mysql")) <= NumLoops /\ Cardinality(Holders("mysql")) # NumLoops
    BY <2>3, ThreadFacts, FS_Subset
  <2>5. Len(free["mysql"]) # 0
    BY <2>1, <2>4, HoldersFinite, StartAssumption DEF CountInv, Made
  <2>6. free["mysql"] # << >>
    BY <2>5
  <2> QED
    BY <1>1, <2>6 DEF Check
<1>2. \/ \E l \in Loops : Check(l)
      \/ outcome' = outcome \/ outcome' = "exit" \/ outcome' = "nokeys"
  BY DEF Next, MainStep, InitFails, LoopStep, SetConnFails, MysqlInitFails, RedisInitFails, Exit,
         SetConn, MysqlInit, RedisInit, Create, LatchWait, LoopWait, Listen, NewConnection,
         CountDown, Copy, Replicate, Use, Wait, Pop, Put, Post, Announce, Wake, vars
<1> QED
  BY <1>1, <1>2

\* With a connection to MySQL for every loop, the unlocked test of getMysqlConn
\* never fails.
THEOREM MysqlNeverNull == Spec => []NeverNull
<1>1. Init => CountInv /\ NeverNull
  BY DEF Init, CountInv, NeverNull
<1> QED
  BY BaseInit, BaseStep, CountStep, NullStep, <1>1, PTL DEF Spec

-----------------------------------------------------------------------------
(* Nobody sleeps through its notification, or waits for what nobody holds.   *)

Sleeping == {"syncSleep", "latchSleep", "condSleep"}

(* What the main thread sleeps for has not happened yet, and the thread that is to do it
   was created; only startLoop may wait for one that was not. *)
SleepInv ==
    /\ main \in {"syncSleep", "latchSleep"} => Starting \notin counted
    /\ main \in {"syncLatch", "syncSleep", "latch", "latchSleep"} => pc[Starting] # "none"
    /\ main = "condSleep" => Starting \notin running
    /\ \A t \in Threads : t \in counted <=> pc[t] \notin {"none", "created"}
    /\ \A l \in Loops : (pc[l] = "poll" => l \in running) /\ pc[l] # "copy"
    /\ pc[Sync] \in {"none", "created", "copy"}
    /\ main \in {"setConn", "mysqlInit", "redisInit", "startSyn"} => pc[Sync] = "none"

Starters == {"syncLatch", "syncSleep", "latch", "latchSleep", "cond", "condSleep"}

LEMMA StartingThread ==
    ASSUME BaseInv, main \in Starters
    PROVE  /\ Starting \in Threads
           /\ main \in {"syncLatch", "syncSleep"} => Starting = Sync
           /\ main \notin {"syncLatch", "syncSleep"} => Starting = Len(loops) + 1 /\ Starting \in Loops
<1>1. Len(loops) \in Nat /\ Len(loops) < NumLoops
  BY DEF BaseInv, TypeOK, MainInv, Starters
<1>2. Len(loops) + 1 \in Loops
  BY <1>1, StartAssumption DEF Loops
<1> QED
  BY <1>2, ThreadFacts DEF Starting, Threads, Starters

(* A loop goes from one place to the next. *)
LEMMA SleepLoop ==
    ASSUME SleepInv, BaseInv, NEW l \in Loops,
           UNCHANGED <<main, loops, counted, running>>,
           \A t \in Threads : t # l => pc'[t] = pc[t],
           {pc[l], pc'[l]} \cap {"none", "created", "copy"} = {},
           pc'[l] = "poll" => l \in running
    PROVE  SleepInv'
<1>1. Starting' = Starting /\ Sync \in Threads /\ Sync # l /\ Loops \subseteq Threads
  BY ThreadFacts DEF Starting, Threads
<1>2. main \in Starters => Starting \in Threads
  BY StartingThread
<1> QED
  BY <1>1, <1>2 DEF SleepInv, Starters

LEMMA SleepMain ==
    ASSUME SleepInv, BaseInv, MainStep
    PROVE  SleepInv'
<1>1. CASE SetConn \/ MysqlInit \/ RedisInit \/ Listen
  BY <1>1 DEF SetConn, MysqlInit, RedisInit, Listen, SleepInv, startVars
<1>2. CASE Create
  <2>1. /\ Starting \in Threads /\ (main = "startSyn" => Starting = Sync)
        /\ main = "create" => Starting \in Loops /\ Starting = Len(loops) + 1
        /\ pc[Starting] = "none"
    BY <1>2, StartingFacts DEF Create, SleepInv
  <2>2. /\ UNCHANGED <<counted, running, loops>> /\ main \in {"startSyn", "create"} /\ Len(loops) \in Nat
        /\ pc \in [Threads -> {"none", "created", "copy", "check", "wait", "pop", "use", "put",
                               "post", "announce", "poll"}]
    BY <1>2 DEF Create, BaseInv, TypeOK
  <2>3. CASE /\ pc' = [pc EXCEPT ![Starting] = "created"]
             /\ main' = IF main = "startSyn" THEN "syncLatch" ELSE "latch"
    <3>1. /\ pc'[Starting] = "created" /\ \A t \in Threads : t # Starting => pc'[t] = pc[t]
          /\ main' \in {"syncLatch", "latch"}
      BY <2>1, <2>2, <2>3
    <3>2. Starting' = Starting
      BY <2>1, <2>2, <2>3 DEF Starting
    <3>3. Sync \in Threads /\ Loops \subseteq Threads
      BY ThreadFacts DEF Threads
    <3> QED
      BY <2>1, <2>2, <3>1, <3>2, <3>3 DEF SleepInv
  <2>4. CASE pc' = pc /\ main' = IF main = "startSyn" THEN "create" ELSE "cond"
    BY <2>2, <2>4 DEF SleepInv
  <2> QED
    BY <1>2, <2>3, <2>4 DEF Create
<1>3. CASE LatchWait
  <2>1. UNCHANGED <<counted, running, loops, pc>> /\ main \in {"syncLatch", "latch"}
    BY <1>3 DEF LatchWait, startVars
  <2>2. main' \in {"syncSleep", "latchSleep"} => Starting' = Starting /\ Starting \notin counted
    BY <1>3, <2>1 DEF LatchWait, Starting
  <2>3. main' \in {"syncSleep", "latchSleep", "create", "cond"}
    BY <1>3 DEF LatchWait
  <2> QED
    BY <2>1, <2>2, <2>3 DEF SleepInv
<1>4. CASE LoopWait
  <2>1. UNCHANGED <<counted, running, pc>> /\ main' \in {"listen", "create", "condSleep"}
    BY <1>4 DEF LoopWait
  <2>2. main' = "condSleep" => Starting' = Starting /\ Starting \notin running
    BY <1>4 DEF LoopWait, Starting
  <2> QED
    BY <2>1, <2>2 DEF SleepInv
<1> QED
  BY <1>1, <1>2, <1>3, <1>4 DEF MainStep

(* Counting down and announcing wake the one who sleeps for it. *)
LEMMA SleepNotified ==
    ASSUME SleepInv, BaseInv, NEW t \in Threads,
           CountDown(t) \/ (t \in Loops /\ Announce(t))
    PROVE  SleepInv'
<1>1. /\ loops' = loops /\ \A u \in Threads : u # t => pc'[u] = pc[u]
      /\ pc \in [Threads -> {"none", "created", "copy", "check", "wait", "pop", "use", "put",
                               "post", "announce", "poll"}]
  BY DEF CountDown, Announce, BaseInv, TypeOK
<1>2. /\ Sync \in Threads /\ Loops \subseteq Threads /\ Sync \notin Loops
      /\ t = Sync \/ t \in Loops
  BY ThreadFacts DEF Threads
<1>3. CASE CountDown(t)
  <2>1. /\ pc[t] = "created" /\ pc'[t] = IF t = Sync THEN "copy" ELSE "check"
        /\ counted' = counted \cup {t} /\ running' = running
        /\ IF t = Sync THEN Woken("syncSleep", "syncLatch", t) ELSE Woken("latchSleep", "latch", t)
    BY <1>1, <1>3 DEF CountDown
  <2>2. /\ main' = main \/ (main = "syncSleep" /\ main' = "syncLatch")
                        \/ (main = "latchSleep" /\ main' = "latch")
        /\ main' \in {"syncSleep", "latchSleep"} => Starting # t
    <3>1. main = "syncSleep" => Starting = Sync
      BY StartingThread DEF Starters
    <3>2. main = "latchSleep" => Starting # Sync
      BY <1>2, StartingThread DEF Starters
    <3> QED
      BY <2>1, <3>1, <3>2 DEF Woken
  <2>3. Starting' = Starting
    BY <1>1, <2>2 DEF Starting
  <2>4. main' \in {"syncLatch", "syncSleep", "latch", "latchSleep"} => pc'[Starting] # "none"
    <3>1. main' \in {"syncLatch", "syncSleep", "latch", "latchSleep"} =>
             main \in {"syncLatch", "syncSleep", "latch", "latchSleep"}
      BY <2>2
    <3>2. main \in Starters => Starting \in Threads
      BY StartingThread
    <3> QED
      BY <1>1, <2>1, <3>1, <3>2 DEF SleepInv, Starters
  <2>5. main' = "condSleep" => Starting \notin running
    BY <2>2 DEF SleepInv
  <2>6. \A u \in Threads : u \in counted' <=> pc'[u] \notin {"none", "created"}
    BY <1>1, <2>1 DEF SleepInv
  <2>7. \A l \in Loops : (pc'[l] = "poll" => l \in running) /\ pc'[l] # "copy"
    BY <1>1, <1>2, <2>1 DEF SleepInv
  <2>8. /\ pc'[Sync] \in {"none", "created", "copy"}
        /\ main' \in {"setConn", "mysqlInit", "redisInit", "startSyn"} => pc'[Sync] = "none"
    BY <1>1, <1>2, <2>1, <2>2 DEF SleepInv
  <2>9. main' \in {"syncSleep", "latchSleep"} => Starting \notin counted'
    BY <2>1, <2>2 DEF SleepInv
  <2> QED
    BY <2>1, <2>3, <2>4, <2>5, <2>6, <2>7, <2>8, <2>9 DEF SleepInv
<1>4. CASE t \in Loops /\ Announce(t)
  <2>1. /\ pc[t] = "announce" /\ pc'[t] = "poll" /\ counted' = counted /\ running' = running \cup {t}
        /\ Woken("condSleep", "cond", t)
    BY <1>1, <1>4 DEF Announce
  <2>2. /\ main' = main \/ (main = "condSleep" /\ main' = "cond")
        /\ main' = "condSleep" => Starting # t
    BY <2>1 DEF Woken
  <2>3. Starting' = Starting
    BY <1>1, <2>2 DEF Starting
  <2>4. main' \in {"syncLatch", "syncSleep", "latch", "latchSleep"} => pc'[Starting] # "none"
    <3>1. main \in Starters => Starting \in Threads
      BY StartingThread
    <3> QED
      BY <1>1, <2>1, <2>2, <3>1 DEF SleepInv, Starters
  <2>5. main' = "condSleep" => Starting \notin running'
    BY <2>1, <2>2 DEF SleepInv
  <2>6. \A u \in Threads : u \in counted <=> pc'[u] \notin {"none", "created"}
    BY <1>1, <2>1 DEF SleepInv
  <2>7. \A l \in Loops : (pc'[l] = "poll" => l \in running') /\ pc'[l] # "copy"
    BY <1>1, <1>2, <2>1 DEF SleepInv
  <2>8. /\ pc'[Sync] \in {"none", "created", "copy"}
        /\ main' \in {"setConn", "mysqlInit", "redisInit", "startSyn"} => pc'[Sync] = "none"
    BY <1>1, <1>2, <1>4, <2>2 DEF SleepInv
  <2>9. main' \in {"syncSleep", "latchSleep"} => Starting \notin counted
    BY <2>2 DEF SleepInv
  <2> QED
    BY <2>1, <2>3, <2>4, <2>5, <2>6, <2>7, <2>8, <2>9 DEF SleepInv
<1> QED
  BY <1>3, <1>4

LEMMA SleepStep == BaseInv /\ SleepInv /\ [Next]_vars => SleepInv'
<1> SUFFICES ASSUME BaseInv, SleepInv, [Next]_vars
             PROVE  SleepInv'
  OBVIOUS
<1>1. CASE InitFails \/ NewConnection \/ Copy \/ Replicate \/ UNCHANGED vars
  <2>1. UNCHANGED <<main, pc, counted, running, loops>>
    BY <1>1 DEF InitFails, SetConnFails, MysqlInitFails, RedisInitFails, Exit, NewConnection, Copy, Replicate,
                vars, startVars
  <2> QED
    BY <2>1 DEF SleepInv, Starting
<1>2. ASSUME NEW l \in Loops, Wait(l) \/ Pop(l) \/ Put(l) \/ Post(l) \/ Check(l) \/ Use(l) \/ Wake(l)
      PROVE  SleepInv'
  <2>1. /\ UNCHANGED <<main, loops, counted, running>> /\ l \in Threads
        /\ pc \in [Threads -> {"none", "created", "copy", "check", "wait", "pop", "use", "put",
                               "post", "announce", "poll"}]
    BY <1>2, ThreadFacts DEF Wait, Pop, Put, Post, Check, Use, Wake, startVars, BaseInv, TypeOK
  <2>2. \/ pc' = pc
        \/ /\ pc[l] \in {"wait", "pop", "put", "post", "check", "use", "poll"}
           /\ \E place \in {"check", "wait", "pop", "use", "put", "post", "announce", "poll"} :
                 pc' = [pc EXCEPT ![l] = place] /\ (place = "poll" => l \in running)
    BY <1>2 DEF Wait, Pop, Put, Post, Check, Use, Wake
  <2>3. CASE pc' = pc
    BY <2>1, <2>3 DEF SleepInv, Starting
  <2>4. CASE pc' # pc
    <3>1. PICK place \in {"check", "wait", "pop", "use", "put", "post", "announce", "poll"} :
             pc' = [pc EXCEPT ![l] = place] /\ (place = "poll" => l \in running)
      BY <2>2, <2>4
    <3>2. pc[l] \notin {"none", "created", "copy"} /\ pc'[l] = place
      BY <2>1, <2>2, <2>4, <3>1
    <3> QED
      BY <2>1, <3>1, <3>2, SleepLoop
  <2> QED
    BY <2>3, <2>4
<1> QED
  BY <1>1, <1>2, SleepMain, SleepNotified, ThreadFacts DEF Next, LoopStep, Threads

LEMMA SleepInit == Init => SleepInv
BY ThreadFacts DEF Init, SleepInv, Threads

(* Whoever waits at a semaphore waits for a loop that is on its way to post it. *)
NobodyWaitsForNothing ==
    \A l \in Loops : pc[l] = "wait" /\ sem[pool[l]] = 0 =>
        \E k \in Loops : pool[k] = pool[l] /\ pc[k] \in {"pop", "use", "put", "post"}

(* A thread whose next step nobody can hold up. *)
Moves(t) ==
    \/ pc[t] \in {"created", "check", "use", "put", "post", "announce"}
    \/ pc[t] = "wait" /\ sem[pool[t]] > 0
    \/ pc[t] = "pop" /\ free[pool[t]] # << >>

(* While the main thread sleeps somebody can go on, unless what it waits for is a loop
   whose thread could not be created. *)
StartNeverStuck ==
    main \in Sleeping => \/ \E t \in Threads : Moves(t)
                         \/ main = "condSleep" /\ pc[Starting] = "none"

LEMMA WaitsForSomebody ==
    ASSUME BaseInv, SemInv, CountInv
    PROVE  NobodyWaitsForNothing
<1> SUFFICES ASSUME NEW l \in Loops, pc[l] = "wait", sem[pool[l]] = 0,
                    \A k \in Loops : pool[k] = pool[l] => pc[k] \notin {"pop", "use", "put", "post"}
             PROVE  FALSE
  BY DEF NobodyWaitsForNothing
<1>1. PICK p \in Pools : p = pool[l]
  BY DEF BaseInv, TypeOK
<1>2. At(p, "pop") = {} /\ At(p, "post") = {} /\ Holders(p) = {}
  BY <1>1 DEF At, Holders, BaseInv, PlaceInv
<1>3. Cardinality(At(p, "pop")) = 0 /\ Cardinality(At(p, "post")) = 0 /\ Cardinality(Holders(p)) = 0
  BY <1>2, FS_EmptySet
<1>4. Len(free[p]) = 0
  BY <1>1, <1>3 DEF SemInv
<1>5. Made(p) = 0
  BY <1>3, <1>4 DEF Made
<1>6. main \notin Early
  BY NotFilledYet
<1>7. Half \in Nat \ {0}
  BY StartAssumption DEF Half
<1> QED
  BY <1>1, <1>5, <1>6, <1>7, StartAssumption DEF CountInv, Early, Pools

LEMMA SomebodyMoves ==
    ASSUME BaseInv, SemInv, CountInv, SleepInv
    PROVE  StartNeverStuck
<1> SUFFICES ASSUME main \in Sleeping, ~ (main = "condSleep" /\ pc[Starting] = "none")
             PROVE  \E t \in Threads : Moves(t)
  BY DEF StartNeverStuck
<1>1. main \in Starters /\ Starting \in Threads
  BY StartingThread DEF Sleeping, Starters
<1>2. CASE main \in {"syncSleep", "latchSleep"}
  BY <1>1, <1>2 DEF SleepInv, Moves
<1>3. CASE main = "condSleep"
  <2>1. Starting \in Loops /\ Starting \notin running
    BY <1>3, StartingThread DEF Starters, SleepInv
  <2>2. pc[Starting] \in {"created", "check", "wait", "pop", "use", "put", "post", "announce"}
    BY <1>1, <1>3, <2>1 DEF SleepInv, BaseInv, TypeOK
  (* The list is not empty for one who has passed the semaphore. *)
  <2>3. ASSUME NEW k \in Loops, pc[k] = "pop"
        PROVE  Moves(k)
    <3>1. PICK p \in Pools : p = pool[k]
      BY DEF BaseInv, TypeOK
    <3>2. k \in At(p, "pop")
      BY <2>3, <3>1 DEF At
    <3>3. Cardinality(At(p, "pop")) # 0
      BY <3>2, AtFinite, FS_EmptySet
    <3>4. Len(free[p]) # 0
      <4>1. /\ Cardinality(At(p, "pop")) \in Nat /\ Len(free[p]) \in Nat
            /\ sem[p] \in Nat /\ Cardinality(At(p, "post")) \in Nat
        BY AtFinite DEF BaseInv, TypeOK
      <4> QED
        BY <3>3, <4>1 DEF SemInv
    <3>5. free[p] # << >>
      BY <3>4
    <3> QED
      BY <2>3, <3>1, <3>5 DEF Moves
  <2>4. CASE pc[Starting] = "wait" /\ ~ (sem[pool[Starting]] > 0)
    <3>1. sem[pool[Starting]] = 0
      BY <2>1, <2>4 DEF BaseInv, TypeOK
    <3>2. PICK k \in Loops : pc[k] \in {"pop", "use", "put", "post"}
      BY <2>1, <2>4, <3>1, WaitsForSomebody DEF NobodyWaitsForNothing
    <3>3. Moves(k)
      BY <2>3, <3>2 DEF Moves
    <3> QED
      BY <3>3, ThreadFacts
  <2>5. CASE pc[Starting] = "pop"
    BY <1>1, <2>1, <2>3, <2>5
  <2> QED
    BY <1>1, <2>2, <2>4, <2>5 DEF Moves
<1> QED
  BY <1>2, <1>3 DEF Sleeping

LEMMA CountKept == Spec => []CountInv
<1>1. Init => CountInv
  BY DEF Init, CountInv
<1> QED
  BY BaseInit, BaseStep, CountStep, <1>1, PTL DEF Spec

(* Loops that wait at a semaphore never all wait for each other: one of those that use
   the same pool is about to give a connection back, however few connections there are. *)
THEOREM SemaphoresAreReturned == Spec => []NobodyWaitsForNothing
BY BaseInit, BaseStep, SemInit, SemStep, CountKept, WaitsForSomebody, PTL DEF Spec

(* No notification is missed and no deadlock stops the start: as long as the main thread
   sleeps on a latch or on the condition, one of the other threads can take a step,
   unless the thread of the loop was never created. *)
THEOREM StartIsNeverStuck == Spec => []StartNeverStuck
BY BaseInit, BaseStep, SemInit, SemStep, SleepInit, SleepStep, CountKept, SomebodyMoves, PTL DEF Spec

-----------------------------------------------------------------------------
(* Each pool lends its connections as Pool says.                             *)

Fillings(p) == IF p = "mysql" THEN {[i \in 1 .. MysqlConns |-> i]}
                              ELSE {[i \in 1 .. n |-> i] : n \in Half .. RedisConns}

\* A pool that is not filled yet is empty.
EmptyInv ==
    /\ main \in {"setConn", "mysqlInit"} => free["mysql"] = << >>
    /\ main \in {"setConn", "mysqlInit", "redisInit"} => free["redis"] = << >>

LEMMA EmptyStep == BaseInv /\ EmptyInv /\ [Next]_vars => EmptyInv'
<1> SUFFICES ASSUME BaseInv, EmptyInv, [Next]_vars
             PROVE  EmptyInv'
  OBVIOUS
<1>1. CASE MysqlInit
  BY <1>1 DEF MysqlInit, Fill, EmptyInv, BaseInv, TypeOK, Pools
<1>2. CASE RedisInit
  BY <1>2 DEF RedisInit, EmptyInv
<1>3. ASSUME NEW l \in Loops, Wait(l) \/ Pop(l) \/ Put(l) \/ Post(l)
      PROVE  EmptyInv'
  <2>1. main \notin Early
    BY <1>3, NotFilledYet, PoolStepFacts
  <2> QED
    BY <1>3, <2>1, PoolStepFacts DEF EmptyInv, Early
<1>4. ASSUME UNCHANGED free, ~MysqlInit, ~RedisInit
      PROVE  EmptyInv'
  <2>1. /\ main' \in {"setConn", "mysqlInit"} => main \in {"setConn", "mysqlInit"}
        /\ main' \in {"setConn", "mysqlInit", "redisInit"}
              => main \in {"setConn", "mysqlInit", "redisInit"}
    <3>1. ASSUME NEW t, CountDown(t) \/ Announce(t)
          PROVE  main' = main \/ main' \in {"syncLatch", "latch", "cond"}
      BY <3>1 DEF CountDown, Announce, Woken
    <3>2. ASSUME NEW t, Check(t) \/ Wait(t) \/ Pop(t) \/ Use(t) \/ Put(t) \/ Post(t) \/ Wake(t)
          PROVE  main' = main
      BY <3>2 DEF Check, Wait, Pop, Use, Put, Post, Wake
    <3>3. Copy \/ Replicate \/ InitFails \/ NewConnection \/ UNCHANGED vars => main' = main
      BY DEF Copy, Replicate, InitFails, SetConnFails, MysqlInitFails, RedisInitFails, Exit, NewConnection, vars
    <3>4. Create \/ LatchWait \/ LoopWait \/ Listen
             => main' \notin {"setConn", "mysqlInit", "redisInit"}
      BY DEF Create, LatchWait, LoopWait, Listen
    <3>5. SetConn => main = "setConn" /\ main' = "mysqlInit"
      BY DEF SetConn
    <3> QED
      BY <1>4, <3>1, <3>2, <3>3, <3>4, <3>5 DEF Next, MainStep, LoopStep
  <2> QED
    BY <1>4, <2>1 DEF EmptyInv
<1>5. UNCHANGED poolVars => UNCHANGED free
  BY DEF poolVars
<1> QED
  BY <1>1, <1>2, <1>3, <1>4, <1>5, OtherSteps

LEMMA LoopLends ==
    ASSUME BaseInv, NEW p \in Pools, NEW l \in Loops, Wait(l) \/ Pop(l) \/ Put(l) \/ Post(l)
    PROVE  \/ UNCHANGED <<free[p], Held(p)>>
           \/ /\ Held(p)[l] = None /\ free[p] # << >>
              /\ Held(p)' = [Held(p) EXCEPT ![l] = Head(free[p])]
              /\ free'[p] = Tail(free[p])
           \/ /\ Held(p)[l] # None
              /\ free'[p] = Append(free[p], Held(p)[l])
              /\ Held(p)' = [Held(p) EXCEPT ![l] = None]
<1>1. ASSUME p # pool[l] \/ Wait(l) \/ Post(l)
      PROVE  UNCHANGED <<free[p], Held(p)>>
  <2>1. free'[p] = free[p]
    BY <1>1, PoolStepFacts
  <2>2. ASSUME NEW k \in Loops
        PROVE  (IF pool[k] = p THEN conn[k] ELSE None)' = IF pool[k] = p THEN conn[k] ELSE None
    <3>1. CASE k # l
      BY <3>1, PoolStepFacts
    <3>2. CASE k = l /\ Wait(l)
      BY <3>2, PoolStepFacts
    <3>3. CASE k = l /\ Post(l)
      <4>1. conn[l] = None /\ conn' = conn
        BY <3>3, PoolStepFacts DEF BaseInv, PlaceInv
      <4> QED
        BY <3>3, <4>1
    <3>4. CASE k = l /\ p # pool[l] /\ (Pop(l) \/ Put(l))
      BY <3>4, PoolStepFacts
    <3> QED
      BY <1>1, <3>1, <3>2, <3>3, <3>4
  <2> QED
    BY <2>1, <2>2 DEF Held
<1>2. CASE p = pool[l] /\ Pop(l)
  <2>1. /\ Held(p)[l] = None /\ free[p] # << >> /\ free'[p] = Tail(free[p])
    BY <1>2, PoolStepFacts DEF Held, BaseInv, PlaceInv
  <2>2. Held(p)' = [Held(p) EXCEPT ![l] = Head(free[p])]
    BY <1>2, PoolStepFacts DEF Held
  <2> QED
    BY <2>1, <2>2
<1>3. CASE p = pool[l] /\ Put(l)
  <2>1. Held(p)[l] = conn[l] /\ conn[l] # None /\ free'[p] = Append(free[p], conn[l])
    BY <1>3, PoolStepFacts DEF Held
  <2>2. Held(p)' = [Held(p) EXCEPT ![l] = None]
    BY <1>3, PoolStepFacts DEF Held
  <2> QED
    BY <2>1, <2>2
<1> QED
  BY <1>1, <1>2, <1>3

LEMMA InitFills ==
    ASSUME BaseInv, EmptyInv, NEW p \in Pools, MysqlInit \/ RedisInit
    PROVE  \/ UNCHANGED <<free[p], Held(p)>>
           \/ /\ free[p] = << >> /\ \A l \in Loops : Held(p)[l] = None
              /\ free'[p] \in Fillings(p)
              /\ UNCHANGED Held(p)
<1>1. main \in Early
  BY FilledNow
<1>2. UNCHANGED Held(p) /\ \A l \in Loops : Held(p)[l] = None
  <2>1. UNCHANGED <<pool, conn>>
    BY DEF MysqlInit, RedisInit, Fill
  <2> QED
    BY <1>1, <2>1, NotFilledYet DEF Held
<1>3. CASE MysqlInit
  BY <1>2, <1>3 DEF MysqlInit, Fill, EmptyInv, Fillings, BaseInv, TypeOK, Pools
<1>4. CASE RedisInit
  <2>1. PICK n \in Half .. RedisConns : Fill("redis", n)
    BY <1>4 DEF RedisInit
  <2>2. free["redis"] = << >>
    BY <1>4 DEF RedisInit, EmptyInv
  <2> QED
    BY <1>2, <2>1, <2>2 DEF Fill, Fillings, BaseInv, TypeOK, Pools
<1> QED
  BY <1>3, <1>4

LEMMA PoolLends ==
    ASSUME BaseInv, EmptyInv, [Next]_vars, NEW p \in Pools
    PROVE  \/ UNCHANGED <<free[p], Held(p)>>
           \/ /\ free[p] = << >> /\ \A l \in Loops : Held(p)[l] = None
              /\ free'[p] \in Fillings(p)
              /\ UNCHANGED Held(p)
           \/ \E l \in Loops :
                 \/ /\ Held(p)[l] = None /\ free[p] # << >>
                    /\ Held(p)' = [Held(p) EXCEPT ![l] = Head(free[p])]
                    /\ free'[p] = Tail(free[p])
                 \/ /\ Held(p)[l] # None
                    /\ free'[p] = Append(free[p], Held(p)[l])
                    /\ Held(p)' = [Held(p) EXCEPT ![l] = None]
<1>1. UNCHANGED poolVars => UNCHANGED <<free[p], Held(p)>>
  BY DEF poolVars, Held
<1> QED
  BY <1>1, OtherSteps, InitFills, LoopLends

\* Both pools lend their connections as Pool says: one user at a time, the one that
\* has been back the longest first, none lost or made up, although the thread that
\* takes one passes the semaphore and the test of the size before it has the lock.
THEOREM PoolsLend == Spec => PoolSpecs
<1>1. Init => Mysql!Init /\ Redis!Init /\ EmptyInv
  <2> SUFFICES ASSUME Init
               PROVE  Mysql!Init /\ Redis!Init /\ EmptyInv
    OBVIOUS
  <2>1. /\ free["mysql"] = << >> /\ free["redis"] = << >>
        /\ Held("mysql") = [l \in Loops |-> None] /\ Held("redis") = [l \in Loops |-> None]
    BY DEF Init, Held
  <2> QED
    BY <2>1 DEF Mysql!Init, Redis!Init, EmptyInv
<1>2. BaseInv /\ EmptyInv /\ [Next]_vars => [Mysql!Next]_(Mysql!vars)
  <2>1. "mysql" \in Pools /\ Fillings("mysql") = {[i \in 1 .. MysqlConns |-> i]}
    BY DEF Pools, Fillings
  <2> QED
    BY <2>1, PoolLends DEF Mysql!Next, Mysql!vars, Mysql!Fill, Mysql!Take, Mysql!Give
<1>3. BaseInv /\ EmptyInv /\ [Next]_vars => [Redis!Next]_(Redis!vars)
  <2>1. "redis" \in Pools
        /\ Fillings("redis") = {[i \in 1 .. n |-> i] : n \in Half .. RedisConns}
    BY DEF Pools, Fillings
  <2> QED
    BY <2>1, PoolLends DEF Redis!Next, Redis!vars, Redis!Fill, Redis!Take, Redis!Give
<1> QED
  BY BaseInit, BaseStep, EmptyStep, <1>1, <1>2, <1>3, PTL
     DEF Spec, PoolSpecs, Mysql!Spec, Redis!Spec

-----------------------------------------------------------------------------
(* The loops get clients in turn.                                            *)

(* loops_ holds the first loops in order, all running. *)
ListInv ==
    /\ \A i \in 1 .. Len(loops) : loops[i] = i /\ i \in running
    /\ main \in {"listen", "loop"} => Len(loops) = NumLoops

(* The loops up to next_ have been given one client more than those behind it. *)
TurnInv ==
    /\ next < NumLoops
    /\ main # "loop" => next = 0 /\ \A l \in Loops : clients[l] = 0
    /\ \A k, l \in Loops :
          /\ (k <= next <=> l <= next) => clients[k] = clients[l]
          /\ k <= next /\ l > next => clients[k] = clients[l] + 1

LEMMA ListStep == BaseInv /\ ListInv /\ [Next]_vars => ListInv'
<1> SUFFICES ASSUME BaseInv, ListInv, [Next]_vars
             PROVE  ListInv'
  OBVIOUS
<1>1. CASE LoopWait /\ Starting \in running
  <2>1. /\ loops \in Seq(Loops) /\ Len(loops) \in Nat /\ Len(loops) < NumLoops /\ NumLoops \in Nat
        /\ Starting = Len(loops) + 1 /\ Starting \in Loops
    <3>1. loops \in Seq(Loops) /\ Len(loops) \in Nat /\ Len(loops) < NumLoops /\ NumLoops \in Nat
      BY <1>1, StartAssumption DEF LoopWait, BaseInv, TypeOK, MainInv
    <3>2. Starting = Len(loops) + 1
      BY <1>1 DEF LoopWait, Starting
    <3> QED
      BY <3>1, <3>2 DEF Loops
  <2>2. /\ loops' = Append(loops, Starting) /\ running' = running
        /\ main' = IF Starting = NumLoops THEN "listen" ELSE "create"
    BY <1>1 DEF LoopWait
  <2>3. /\ Len(loops') = Len(loops) + 1 /\ loops'[Len(loops) + 1] = Starting
        /\ \A i \in 1 .. Len(loops) : loops'[i] = loops[i]
    BY <2>1, <2>2
  <2> QED
    BY <1>1, <2>1, <2>2, <2>3 DEF ListInv
<1>2. CASE ~ (LoopWait /\ Starting \in running)
  <2>1. loops' = loops /\ running \subseteq running'
        /\ (main' \in {"listen", "loop"} => main \in {"listen", "loop"})
    <3>1. ASSUME NEW t, CountDown(t) \/ Announce(t)
          PROVE  loops' = loops /\ running \subseteq running'
                 /\ (main' \in {"listen", "loop"} => main \in {"listen", "loop"})
      BY <3>1 DEF CountDown, Announce, Woken
    <3>2. ASSUME NEW l \in Loops, LoopStep(l) \/ Wake(l)
          PROVE  loops' = loops /\ running \subseteq running'
                 /\ (main' \in {"listen", "loop"} => main \in {"listen", "loop"})
      BY <3>1, <3>2 DEF LoopStep, Wake, Check, Wait, Pop, Use, Put, Post, startVars
    <3>3. CASE MainStep
      BY <1>2, <3>3 DEF MainStep, SetConn, MysqlInit, RedisInit, Create, LatchWait, LoopWait, Listen,
                        startVars
    <3>4. CASE InitFails \/ NewConnection \/ Copy \/ Replicate \/ UNCHANGED vars
      BY <3>4 DEF InitFails, SetConnFails, MysqlInitFails, RedisInitFails, Exit, NewConnection, Copy, Replicate,
                  startVars, vars
    <3> QED
      BY <3>1, <3>2, <3>3, <3>4 DEF Next
  <2> QED
    BY <2>1 DEF ListInv
<1> QED
  BY <1>1, <1>2

LEMMA TurnStep == BaseInv /\ ListInv /\ TurnInv /\ [Next]_vars => TurnInv'
<1> SUFFICES ASSUME BaseInv, ListInv, TurnInv, [Next]_vars
             PROVE  TurnInv'
  OBVIOUS
<1>1. CASE NewConnection
  <2>1. /\ main = "loop" /\ main' = "loop" /\ next \in Nat /\ NumLoops \in Nat /\ next < NumLoops
        /\ Len(loops) = NumLoops /\ clients \in [Loops -> Nat]
    BY <1>1, StartAssumption DEF NewConnection, ListInv, TurnInv, BaseInv, TypeOK
  <2>2. next + 1 \in Loops /\ loops[next + 1] = next + 1
    BY <2>1 DEF ListInv, Loops
  <2>3. \A l \in Loops : clients'[l] = IF l = next + 1 THEN clients[l] + 1 ELSE clients[l]
    BY <1>1, <2>1, <2>2 DEF NewConnection
  <2>4. next' = IF next + 1 >= NumLoops THEN 0 ELSE next + 1
    BY <1>1, <2>1 DEF NewConnection, NextLoop
  <2>5. /\ \A l \in Loops : l \in Nat /\ 1 <= l /\ l <= NumLoops /\ clients[l] \in Nat
        /\ \A k, l \in Loops : (k <= next <=> l <= next) => clients[k] = clients[l]
        /\ \A k, l \in Loops : k <= next /\ l > next => clients[k] = clients[l] + 1
    BY <2>1 DEF Loops, TurnInv
  <2>6. \A l \in Loops : clients'[l] = IF l <= next + 1 THEN clients[next + 1] + 1 ELSE clients[next + 1]
    <3> SUFFICES ASSUME NEW l \in Loops
                 PROVE  clients'[l] = IF l <= next + 1 THEN clients[next + 1] + 1 ELSE clients[next + 1]
      OBVIOUS
    <3>1. CASE l = next + 1
      BY <2>1, <2>3, <3>1
    <3>2. CASE l <= next
      BY <2>1, <2>2, <2>3, <2>5, <3>2
    <3>3. CASE l > next + 1
      BY <2>1, <2>2, <2>3, <2>5, <3>3
    <3> QED
      BY <2>1, <2>5, <3>1, <3>2, <3>3
  <2>7. next' < NumLoops
    BY <2>1, <2>4
  <2>8. ASSUME NEW k \in Loops, NEW l \in Loops
        PROVE  /\ (k <= next' <=> l <= next') => clients'[k] = clients'[l]
               /\ k <= next' /\ l > next' => clients'[k] = clients'[l] + 1
    <3>1. CASE next + 1 >= NumLoops
      BY <2>1, <2>4, <2>5, <2>6, <3>1
    <3>2. CASE ~ (next + 1 >= NumLoops)
      BY <2>1, <2>2, <2>4, <2>5, <2>6, <3>2
    <3> QED
      BY <3>1, <3>2
  <2> QED
    BY <2>1, <2>7, <2>8 DEF TurnInv
<1>2. CASE Listen
  BY <1>2 DEF Listen, TurnInv, clientVars
<1>3. CASE ~ (NewConnection \/ Listen)
  <2>1. UNCHANGED clientVars /\ (main = "loop" => main' = "loop")
        /\ (main' = "loop" => main = "loop")
    <3>1. ASSUME NEW t, CountDown(t) \/ Announce(t)
          PROVE  UNCHANGED clientVars /\ (main' = "loop" <=> main = "loop")
      BY <3>1 DEF CountDown, Announce, Woken
    <3>2. ASSUME NEW l \in Loops, LoopStep(l) \/ Wake(l)
          PROVE  UNCHANGED clientVars /\ (main' = "loop" <=> main = "loop")
      BY <3>1, <3>2 DEF LoopStep, Wake, Check, Wait, Pop, Use, Put, Post
    <3>3. CASE MainStep
      BY <1>3, <3>3 DEF MainStep, SetConn, MysqlInit, RedisInit, Create, LatchWait, LoopWait
    <3>4. CASE InitFails \/ Copy \/ Replicate \/ UNCHANGED vars
      BY <3>4 DEF InitFails, SetConnFails, MysqlInitFails, RedisInitFails, Exit, Copy, Replicate, vars
    <3> QED
      BY <1>3, <3>1, <3>2, <3>3, <3>4 DEF Next
  <2> QED
    BY <2>1 DEF TurnInv, clientVars
<1> QED
  BY <1>1, <1>2, <1>3

LEMMA TurnInit == Init => ListInv /\ TurnInv
<1> SUFFICES ASSUME Init
             PROVE  ListInv /\ TurnInv
  OBVIOUS
<1>1. main = "setConn" /\ loops = << >> /\ next = 0 /\ \A l \in Loops : clients[l] = 0 /\ l > 0
  BY ThreadFacts DEF Init
<1>2. NumLoops \in Nat \ {0} /\ Len(<< >>) = 0
  BY StartAssumption
<1> QED
  BY <1>1, <1>2 DEF ListInv, TurnInv, Loops

(* Every client is given to a loop that runs, to one after the other, for any number of
   loops and clients and whatever failed before. *)
THEOREM ClientsGoInTurn == Spec => []ClientsInTurn
<1>1. Init => ListInv /\ TurnInv
  BY TurnInit
<1>2. BaseInv /\ ListInv /\ TurnInv => ClientsInTurn
  <2> SUFFICES ASSUME BaseInv, ListInv, TurnInv
               PROVE  ClientsInTurn
    OBVIOUS
  <2>1. /\ loops \in Seq(Loops) /\ Len(loops) \in Nat /\ next \in Nat /\ clients \in [Loops -> Nat]
        /\ NumLoops \in Nat /\ \A l \in Loops : l \in 1 .. NumLoops
    BY StartAssumption DEF BaseInv, TypeOK, Loops
  <2>2. DOMAIN loops = 1 .. Len(loops)
    BY <2>1
  <2>3. ToSet(loops) \subseteq running
    BY <2>2 DEF ToSet, ListInv
  <2>4. main = "loop" => next + 1 \in DOMAIN loops
    BY <2>1, <2>2 DEF ListInv, TurnInv
  <2>5. \A k, l \in Loops : clients[k] <= clients[l] + 1
    <3> SUFFICES ASSUME NEW k \in Loops, NEW l \in Loops
                 PROVE  clients[k] <= clients[l] + 1
      OBVIOUS
    <3>1. clients[k] \in Nat /\ clients[l] \in Nat /\ k \in Nat /\ l \in Nat
      BY <2>1
    <3>2. CASE k <= next <=> l <= next
      BY <3>1, <3>2 DEF TurnInv
    <3>3. CASE k <= next /\ l > next
      BY <3>1, <3>3 DEF TurnInv
    <3>4. CASE k > next /\ l <= next
      BY <3>1, <3>4 DEF TurnInv
    <3> QED
      BY <2>1, <3>1, <3>2, <3>3, <3>4
  <2>6. \A l \in Loops : clients[l] > 0 => l \in running
    BY <2>1 DEF ListInv, TurnInv
  <2> QED
    BY <2>3, <2>4, <2>5, <2>6 DEF ClientsInTurn
<1> QED
  BY BaseInit, BaseStep, ListStep, TurnStep, <1>1, <1>2, PTL DEF Spec

-----------------------------------------------------------------------------
(* The loops find the keys.  They are started one after the other, and until *)
(* the last one runs each takes one connection to Redis, in the order of the *)
(* list: first those to the master, then those to the replica.               *)

\* Loop l has taken its first connection, and has had its first answer.
Popped(l) ==
    \/ l \in running \/ pc[l] = "announce"
    \/ pool[l] = "redis" /\ pc[l] \in {"use", "put", "post"}
Asked(l) ==
    \/ l \in running \/ pc[l] = "announce"
    \/ pool[l] = "redis" /\ pc[l] \in {"put", "post"}

\* None of the connections is one to the replica: those failed, or are not made yet.
OnlyMasters ==
    /\ \A i \in 1 .. Len(free["redis"]) : free["redis"][i] <= Half
    /\ \A l \in Loops : pool[l] = "redis" => conn[l] <= Half

\* The list goes on after a connections, up to the first one to the replica.
Ordered(s, a) == \A i \in 1 .. Half + 1 - a : i <= Len(s) /\ s[i] = a + i

\* How many loops have taken their first connection.
Taken == IF Len(loops) < NumLoops /\ Popped(Len(loops) + 1) THEN Len(loops) + 1 ELSE Len(loops)

PollInv == main # "loop" => \A l \in running : pc[l] = "poll"
OrderInv == main # "loop" => OnlyMasters \/ Ordered(free["redis"], Taken)
HeldInv == \A l \in Loops :
    l \notin running /\ pool[l] = "redis" /\ pc[l] = "use" /\ l <= Half + 1
        => OnlyMasters \/ conn[l] = l
ReadInv == ~refused =>
    \A l \in Loops : Asked(l) => /\ "master" \in keys
                                 /\ l > Half => OnlyMasters \/ "replica" \in keys
EndInv == NumLoops > Half /\ ~refused /\ main = "loop" => outcome # "nokeys"

StartInv == BaseInv /\ ListInv /\ TurnInv
KeysInv == PollInv /\ OrderInv /\ HeldInv /\ ReadInv /\ EndInv

LEMMA HalfFacts == Half \in Nat \ {0} /\ NumLoops \in Nat \ {0} /\ RedisConns \in Nat /\ RedisConns > 1
BY StartAssumption DEF Half

\* A loop that is being started is the next one, and the others before it run.
LEMMA LoopsInOrder ==
    ASSUME StartInv, NEW l \in Loops, l \notin running, pc[l] # "none"
    PROVE  /\ l = Len(loops) + 1 /\ Len(loops) < NumLoops /\ Len(loops) \in Nat
           /\ main # "loop" /\ \A k \in Loops : k < l => k \in running
<1>1. Len(loops) \in Nat /\ l \in Nat /\ l <= NumLoops /\ l > 0 /\ NumLoops \in Nat
  BY HalfFacts DEF StartInv, BaseInv, TypeOK, Loops
<1>2. \A i \in 1 .. Len(loops) : i \in running
  BY DEF StartInv, ListInv
<1>3. l > Len(loops) /\ l <= Len(loops) + 1
  BY <1>1, <1>2 DEF StartInv, BaseInv, MainInv
<1>4. main = "loop" => Len(loops) = NumLoops
  BY DEF StartInv, ListInv
<1> QED
  BY <1>1, <1>2, <1>3, <1>4 DEF Loops

\* What a step has to keep for the keys to be found.
LEMMA KeysFrame ==
    ASSUME KeysInv,
           \A l \in Loops : (Popped(l)' <=> Popped(l)) /\ (Asked(l)' <=> Asked(l)),
           free'["redis"] = free["redis"], loops' = loops,
           keys \subseteq keys', refused' = refused,
           outcome' = outcome \/ outcome' # "nokeys",
           OnlyMasters => OnlyMasters',
           main' = "loop" <=> main = "loop",
           \A l \in Loops : l \notin running' /\ pool'[l] = "redis" /\ pc'[l] = "use"
               => l \notin running /\ pool[l] = "redis" /\ pc[l] = "use" /\ conn'[l] = conn[l],
           Len(loops) \in Nat
    PROVE  OrderInv' /\ HeldInv' /\ ReadInv' /\ EndInv'
<1>1. Taken' = Taken
  <2>1. Len(loops) < NumLoops => Len(loops) + 1 \in Loops
    BY HalfFacts DEF Loops
  <2> QED
    BY <2>1 DEF Taken
<1>2. OrderInv'
  BY <1>1 DEF KeysInv, OrderInv, Ordered
<1>3. HeldInv'
  BY DEF KeysInv, HeldInv
<1>4. ReadInv'
  BY DEF KeysInv, ReadInv
<1>5. EndInv'
  BY DEF KeysInv, EndInv
<1> QED
  BY <1>2, <1>3, <1>4, <1>5

\* The steps that are no loop's own leave what the loops have read alone.
LEMMA MainEffect ==
    ASSUME StartInv,
           \/ SetConn \/ MysqlInit \/ RedisInit \/ Create \/ LatchWait \/ LoopWait \/ Listen
           \/ InitFails \/ NewConnection \/ CountDown(Sync) \/ Copy \/ Replicate \/ UNCHANGED vars
    PROVE  /\ UNCHANGED <<pool, conn, running, refused>> /\ keys \subseteq keys'
           /\ \A l \in Loops : pc'[l] = pc[l] \/ (pc[l] = "none" /\ pc'[l] = "created")
           /\ outcome' = outcome \/ outcome' = "exit"
           /\ ~Listen => (main' = "loop" <=> main = "loop")
           /\ ~RedisInit => free'["redis"] = free["redis"]
           /\ ~LoopWait => loops' = loops
<1> USE DEF StartInv
<1>1. CASE Create
  <2>1. \A l \in Loops : pc'[l] = pc[l] \/ (pc[l] = "none" /\ pc'[l] = "created")
    BY <1>1, StartingFacts, ThreadFacts DEF Create, BaseInv, TypeOK
  <2> QED
    BY <1>1, <2>1 DEF Create, poolVars, redisVars, Listen
<1>2. CASE CountDown(Sync)
  <2>1. Sync \notin Loops /\ Loops \subseteq Threads
    BY ThreadFacts
  <2>2. \A l \in Loops : pc'[l] = pc[l]
    BY <1>2, <2>1 DEF CountDown, BaseInv, TypeOK
  <2>3. main' = "loop" <=> main = "loop"
    BY <1>2, WokenMain DEF CountDown
  <2> QED
    BY <1>2, <2>2, <2>3 DEF CountDown, poolVars, redisVars
<1>3. CASE Copy \/ Replicate
  BY <1>3 DEF Copy, Replicate, BaseInv, TypeOK, startVars, poolVars
<1>4. CASE MysqlInit \/ RedisInit
  <2>1. MysqlInit => free'["redis"] = free["redis"]
    BY DEF MysqlInit, Fill, BaseInv, TypeOK, Pools
  <2> QED
    BY <1>4, <2>1 DEF MysqlInit, RedisInit, Fill, startVars, redisVars
<1>5. CASE SetConn \/ LatchWait \/ LoopWait \/ Listen \/ InitFails \/ NewConnection
  BY <1>5 DEF SetConn, LatchWait, LoopWait, Listen, InitFails, SetConnFails, MysqlInitFails,
              RedisInitFails, Exit, NewConnection, startVars, poolVars, redisVars
<1>6. CASE UNCHANGED vars
  BY <1>6 DEF vars, startVars, poolVars, redisVars
<1> QED
  BY <1>1, <1>2, <1>3, <1>4, <1>5, <1>6

LEMMA KeysMain ==
    ASSUME StartInv, StartInv', KeysInv,
           \/ SetConn \/ MysqlInit \/ RedisInit \/ Create \/ LatchWait \/ LoopWait \/ Listen
           \/ InitFails \/ NewConnection \/ CountDown(Sync) \/ Copy \/ Replicate \/ UNCHANGED vars
    PROVE  KeysInv'
<1>1. \A l \in Loops : (Popped(l)' <=> Popped(l)) /\ (Asked(l)' <=> Asked(l))
  BY MainEffect DEF Popped, Asked
<1>2. PollInv'
  <2>1. main' # "loop" => main # "loop"
    BY MainEffect DEF Listen
  <2>2. \A l \in running : l \in Loops
    BY DEF StartInv, BaseInv, TypeOK
  <2> QED
    BY <2>1, <2>2, MainEffect DEF KeysInv, PollInv
<1>3. Len(loops) \in Nat /\ free \in [Pools -> Seq(Nat \ {None})]
  BY DEF StartInv, BaseInv, TypeOK
<1>4. ~RedisInit /\ OnlyMasters => OnlyMasters'
  BY MainEffect DEF OnlyMasters
<1>5. \A l \in Loops : l \notin running' /\ pool'[l] = "redis" /\ pc'[l] = "use"
          => l \notin running /\ pool[l] = "redis" /\ pc[l] = "use" /\ conn'[l] = conn[l]
  BY MainEffect
<1>6. CASE ~RedisInit /\ ~LoopWait /\ ~Listen
  BY <1>1, <1>2, <1>3, <1>4, <1>5, <1>6, KeysFrame, MainEffect DEF KeysInv
<1>7. CASE RedisInit
  <2>1. main = "redisInit" /\ main' = "startSyn" /\ loops' = loops /\ loops = << >>
    BY <1>7 DEF RedisInit, startVars, StartInv, BaseInv, MainInv, Early
  <2>2. PICK n \in Half .. RedisConns : Fill("redis", n)
    BY <1>7 DEF RedisInit
  <2>3. n \in Nat /\ n >= Half
    BY <2>2, HalfFacts
  <2>4. \A l \in Loops : pc[l] = "none" /\ conn[l] = None
    BY <2>1, NotFilledYet DEF StartInv, Early
  <2>5. \A l \in Loops : l \notin running
    BY <2>1, <2>4 DEF KeysInv, PollInv
  <2>6. \A l \in Loops : ~Popped(l)' /\ ~Asked(l)'
    BY <1>1, <2>4, <2>5 DEF Popped, Asked
  <2>7. free'["redis"] = [i \in 1 .. n |-> i] /\ Len(free'["redis"]) = n
    BY <1>3, <2>2, <2>3, FilledList DEF Fill, Pools
  <2>8. OrderInv'
    <3>1. CASE n = Half
      <4>1. OnlyMasters'
        BY <2>2, <2>3, <2>4, <2>7, <3>1, HalfFacts DEF OnlyMasters, Fill, None
      <4> QED
        BY <4>1 DEF OrderInv
    <3>2. CASE n # Half
      <4>1. Len(loops') = 0 /\ Taken' = 0
        <5>1. Len(loops') = 0 /\ Len(loops') + 1 \in Loops
          BY <2>1, ThreadFacts
        <5> QED
          BY <5>1, <2>6 DEF Taken
      <4>2. Ordered(free["redis"], Taken)'
        BY <2>3, <2>7, <3>2, <4>1, HalfFacts DEF Ordered
      <4> QED
        BY <4>2 DEF OrderInv
    <3> QED
      BY <3>1, <3>2
  <2>9. HeldInv'
    BY <1>5, <2>4 DEF HeldInv
  <2>10. ReadInv' /\ EndInv'
    BY <2>1, <2>6 DEF ReadInv, EndInv
  <2> QED
    BY <1>2, <2>8, <2>9, <2>10 DEF KeysInv
<1>8. CASE LoopWait
  <2>1. /\ main = "cond" /\ Len(loops) < NumLoops /\ Starting = Len(loops) + 1
        /\ main' # "loop" /\ ~Listen /\ ~RedisInit
    BY <1>8 DEF LoopWait, StartInv, BaseInv, MainInv, Starting, Listen, RedisInit
  <2>2. CASE Starting \notin running
    <3>1. loops' = loops
      BY <1>8, <2>2 DEF LoopWait
    <3> QED
      BY <1>1, <1>2, <1>3, <1>4, <1>5, <2>1, <3>1, KeysFrame, MainEffect DEF KeysInv
  <2>3. CASE Starting \in running
    <3>0. Starting \in Loops /\ loops \in Seq(Loops)
      BY <2>3 DEF StartInv, BaseInv, TypeOK
    <3>1. loops' = Append(loops, Starting) /\ Len(loops') = Len(loops) + 1
      BY <1>8, <2>3, <3>0 DEF LoopWait
    <3>2. Taken = Len(loops) + 1
      BY <2>1, <2>3 DEF Taken, Popped
    <3>3. Taken' = Len(loops) + 1
      <4>1. ASSUME Len(loops') < NumLoops
            PROVE  ~Popped(Len(loops) + 1)'
        <5>0. Len(loops) + 2 \in Loops
          BY <1>3, <3>1, <4>1, HalfFacts DEF Loops
        <5> PICK k \in Loops : k = Len(loops) + 2
          BY <5>0
        <5>1. k > Len(loops) + 1 /\ Len(loops') + 1 = k
          BY <1>3, <3>1
        <5>2. pc[k] = "none"
          BY <5>1 DEF StartInv, BaseInv, MainInv
        <5>3. k \notin running
          BY <2>1, <5>1, <5>2 DEF KeysInv, PollInv
        <5>4. ~Popped(k)
          BY <5>2, <5>3 DEF Popped
        <5>5. ~Popped(k)'
          BY <1>1, <5>4
        <5> QED
          BY <5>1, <5>5 DEF Popped
      <4> QED
        BY <3>1, <4>1 DEF Taken
    <3>4. OrderInv'
      BY <1>4, <2>1, <3>2, <3>3, MainEffect DEF KeysInv, OrderInv
    <3>5. HeldInv'
      BY <1>4, <1>5, <2>1 DEF KeysInv, HeldInv
    <3>6. ReadInv'
      BY <1>1, <1>4, <2>1, MainEffect DEF KeysInv, ReadInv
    <3>7. EndInv'
      BY <2>1 DEF EndInv
    <3> QED
      BY <1>2, <3>4, <3>5, <3>6, <3>7 DEF KeysInv
  <2> QED
    BY <2>2, <2>3
<1>9. CASE Listen
  <2>1. main' = "loop" /\ outcome' = "up" /\ ~RedisInit
    BY <1>9 DEF Listen, Up, RedisInit
  <2>2. HeldInv'
    BY <1>4, <1>5, <2>1 DEF KeysInv, HeldInv
  <2>3. ReadInv'
    BY <1>1, <1>4, <2>1, MainEffect DEF KeysInv, ReadInv
  <2> QED
    BY <1>2, <2>1, <2>2, <2>3 DEF KeysInv, OrderInv, EndInv
<1> QED
  BY <1>6, <1>7, <1>8, <1>9

\* A step of loop l changes nothing of the others.
LEMMA LoopEffect ==
    ASSUME StartInv, NEW l \in Loops, LoopStep(l) \/ Wake(l)
    PROVE  /\ \A k \in Loops : k # l => pc'[k] = pc[k] /\ pool'[k] = pool[k] /\ conn'[k] = conn[k]
           /\ UNCHANGED <<loops, keys>> /\ (main' = "loop" <=> main = "loop")
           /\ pc[l] = "poll" => Wake(l)
           /\ ~Announce(l) => running' = running
           /\ Announce(l) => running' = running \cup {l} /\ pc'[l] = "poll"
           /\ ~Use(l) => refused' = refused /\ (outcome' = outcome \/ outcome' # "nokeys")
<1> USE DEF StartInv, BaseInv
<1>1. CASE Wait(l) \/ Pop(l) \/ Put(l) \/ Post(l)
  <2>1. pc[l] \in {"wait", "pop", "put", "post"}
    BY <1>1 DEF Wait, Pop, Put, Post
  <2> QED
    BY <1>1, <2>1, PoolStepFacts DEF startVars, redisVars, Announce
<1>2. CASE CountDown(l) \/ Announce(l) \/ Wake(l) \/ Check(l) \/ Use(l)
  <2>1. \A k \in Loops : k # l => pc'[k] = pc[k]
    BY <1>2, ThreadFacts DEF CountDown, Announce, Wake, Check, Use, TypeOK
  <2>2. main' = "loop" <=> main = "loop"
    BY <1>2, WokenMain DEF CountDown, Announce, Wake, Check, Use
  <2>3. Announce(l) => pc'[l] = "poll"
    BY ThreadFacts DEF Announce, TypeOK
  <2>4. UNCHANGED <<pool, conn, loops, keys>>
    BY <1>2 DEF CountDown, Announce, Wake, Check, Use, startVars, poolVars, redisVars
  <2>5. (pc[l] = "poll" => Wake(l)) /\ (~Announce(l) => running' = running)
    BY <1>2 DEF CountDown, Announce, Wake, Check, Use, startVars
  <2>6. ~Use(l) => refused' = refused /\ (outcome' = outcome \/ outcome' # "nokeys")
    BY <1>2 DEF CountDown, Announce, Wake, Check, redisVars
  <2> QED
    BY <2>1, <2>2, <2>3, <2>4, <2>5, <2>6 DEF Announce
<1> QED
  BY <1>1, <1>2 DEF LoopStep

LEMMA PollLoop ==
    ASSUME StartInv, KeysInv, NEW l \in Loops, LoopStep(l) \/ Wake(l)
    PROVE  PollInv' /\ (main # "loop" => l \notin running)
<1>1. main # "loop" => l \notin running
  <2>1. main # "loop" => ~Wake(l)
    BY DEF StartInv, TurnInv, Wake
  <2> QED
    BY <2>1, LoopEffect DEF KeysInv, PollInv
<1>2. \A k \in running' : k \in Loops /\ (k \in running \/ (k = l /\ pc'[l] = "poll"))
  BY LoopEffect DEF StartInv, BaseInv, TypeOK
<1>3. PollInv'
  BY <1>1, <1>2, LoopEffect DEF KeysInv, PollInv
<1> QED
  BY <1>1, <1>3

\* What a loop does without Redis, and while it waits for the connection.
LEMMA KeysNeutral ==
    ASSUME StartInv, StartInv', KeysInv, NEW l \in Loops,
           \/ CountDown(l) \/ Check(l) \/ Announce(l) \/ Wake(l) \/ Wait(l) \/ Post(l)
           \/ pool[l] = "mysql" /\ (Pop(l) \/ Use(l) \/ Put(l))
    PROVE  KeysInv'
<1> USE DEF StartInv, BaseInv
<1>1. LoopStep(l) \/ Wake(l)
  BY DEF LoopStep
<1>2. Len(loops) \in Nat /\ pool[l] \in {"mysql", "redis"} /\ l \in Threads
  <2>1. pool \in [Loops -> Pools] /\ loops \in Seq(Loops)
    BY DEF TypeOK
  <2> QED
    BY <2>1, ThreadFacts DEF Pools
<1>3. free'["redis"] = free["redis"]
  BY <1>2 DEF CountDown, Check, Announce, Wake, Wait, Post, Pop, Use, Put, poolVars, TypeOK, Pools
<1>4. refused' = refused /\ (outcome' = outcome \/ outcome' # "nokeys")
  <2>1. CASE Use(l)
    BY <2>1 DEF Use, NoKeys, Check, Announce, Wake, Wait, Post, Pop, Put, CountDown, redisVars
  <2> QED
    BY <1>1, <2>1, LoopEffect
<1>5. /\ Popped(l)' <=> Popped(l)
      /\ Asked(l)' <=> Asked(l)
      /\ pool'[l] = "redis" => pc'[l] # "use" /\ (conn'[l] = conn[l] \/ conn'[l] = None)
      /\ pool'[l] = "redis" => pool[l] = "redis" \/ conn'[l] = None
  <2>1. CASE CountDown(l) \/ Check(l) \/ Wake(l) \/ Announce(l)
    <3>1. UNCHANGED <<pool, conn>> /\ pc'[l] # "use"
      BY <1>2, <2>1 DEF CountDown, Check, Wake, Announce, poolVars, TypeOK, Sync
    <3>2. (Popped(l)' <=> Popped(l)) /\ (Asked(l)' <=> Asked(l))
      <4>1. CASE CountDown(l)
        BY <1>2, <4>1, ThreadFacts DEF CountDown, poolVars, TypeOK, Popped, Asked
      <4>2. CASE Check(l)
        BY <1>2, <4>2 DEF Check, startVars, poolVars, TypeOK, Popped, Asked
      <4>3. CASE Wake(l)
        BY <1>2, <4>3 DEF Wake, startVars, poolVars, TypeOK, Popped, Asked
      <4>4. CASE Announce(l)
        BY <1>2, <4>4 DEF Announce, poolVars, TypeOK, Popped, Asked
      <4> QED
        BY <2>1, <4>1, <4>2, <4>3, <4>4
    <3> QED
      BY <3>1, <3>2
  <2>2. CASE Wait(l)
    <3>1. pc[l] = "wait" /\ pc'[l] = "pop" /\ pool' = pool /\ conn' = conn /\ running' = running
      BY <1>2, <2>2 DEF Wait, startVars, TypeOK
    <3> QED
      BY <3>1 DEF Popped, Asked
  <2>3. CASE Post(l)
    <3>1. /\ pc[l] = "post" /\ conn' = conn /\ running' = running
          /\ pool'[l] = IF pool[l] = "mysql" THEN "redis" ELSE "mysql"
          /\ pc'[l] = IF pool[l] = "mysql" THEN "wait" ELSE IF l \in running THEN "poll" ELSE "announce"
      BY <1>2, <2>3 DEF Post, startVars, TypeOK
    <3>2. conn[l] = None
      BY <3>1 DEF PlaceInv
    <3> QED
      BY <1>2, <3>1, <3>2 DEF Popped, Asked
  <2>4. CASE pool[l] = "mysql" /\ (Pop(l) \/ Use(l) \/ Put(l))
    <3>1. pool' = pool /\ running' = running /\ pc[l] # "announce" /\ pc'[l] # "announce"
      BY <1>2, <2>4 DEF Pop, Use, Put, NoKeys, startVars, poolVars, TypeOK
    <3> QED
      BY <2>4, <3>1 DEF Popped, Asked
  <2> QED
    BY <2>1, <2>2, <2>3, <2>4
<1>6. \A k \in Loops : (Popped(k)' <=> Popped(k)) /\ (Asked(k)' <=> Asked(k))
  <2> SUFFICES ASSUME NEW k \in Loops, k # l
               PROVE  (Popped(k)' <=> Popped(k)) /\ (Asked(k)' <=> Asked(k))
    BY <1>5
  <2>1. (k \in running' <=> k \in running) /\ pc'[k] = pc[k] /\ pool'[k] = pool[k]
    BY <1>1, LoopEffect
  <2> QED
    BY <2>1 DEF Popped, Asked
<1>7. OnlyMasters => OnlyMasters'
  BY <1>1, <1>3, <1>5, LoopEffect, HalfFacts DEF OnlyMasters, None
<1>8. \A k \in Loops : k \notin running' /\ pool'[k] = "redis" /\ pc'[k] = "use"
          => k \notin running /\ pool[k] = "redis" /\ pc[k] = "use" /\ conn'[k] = conn[k]
  BY <1>1, <1>5, LoopEffect
<1>9. OrderInv' /\ HeldInv' /\ ReadInv' /\ EndInv'
  <2>1. loops' = loops /\ keys \subseteq keys' /\ (main' = "loop" <=> main = "loop")
    BY <1>1, LoopEffect
  <2> QED
    BY <1>2, <1>3, <1>4, <1>6, <1>7, <1>8, <2>1, KeysFrame
<1> QED
  BY <1>1, <1>9, PollLoop DEF KeysInv

\* A loop takes the next connection of the list.
LEMMA KeysPop ==
    ASSUME StartInv, StartInv', KeysInv, NEW l \in Loops, pool[l] = "redis", Pop(l)
    PROVE  KeysInv'
<1> USE DEF StartInv, BaseInv
<1>1. LoopStep(l) /\ pc[l] = "pop" /\ pc'[l] = "use" /\ pool' = pool /\ running' = running
  <2>1. LoopStep(l)
    BY DEF LoopStep
  <2> QED
    BY <2>1, PoolStepFacts DEF startVars
<1>2. /\ free["redis"] \in Seq(Nat \ {None}) /\ free["redis"] # << >>
      /\ free'["redis"] = Tail(free["redis"]) /\ conn'[l] = Head(free["redis"])
  BY PoolStepFacts DEF TypeOK, Pools
<1> DEFINE s == free["redis"]
<1>3. /\ Len(s) \in Nat \ {0} /\ Len(Tail(s)) = Len(s) - 1 /\ Head(s) = s[1]
      /\ \A i \in 1 .. Len(s) - 1 : Tail(s)[i] = s[i + 1]
      /\ \A i \in 1 .. Len(s) : s[i] \in Nat
  BY <1>2 DEF None
<1>4. OnlyMasters => OnlyMasters'
  <2> SUFFICES ASSUME OnlyMasters
               PROVE  OnlyMasters'
    OBVIOUS
  <2>1. \A i \in 1 .. Len(s) : s[i] <= Half
    BY DEF OnlyMasters
  <2>2. conn'[l] <= Half
    BY <1>2, <1>3, <2>1
  <2>3. \A i \in 1 .. Len(s) - 1 : Tail(s)[i] <= Half
    BY <1>3, <2>1
  <2>4. \A i \in 1 .. Len(free'["redis"]) : free'["redis"][i] <= Half
    BY <1>2, <1>3, <2>3
  <2> QED
    BY <1>1, <2>2, <2>4, LoopEffect DEF OnlyMasters
<1>5. PollInv' /\ (main # "loop" => l \notin running) /\ (main' = "loop" <=> main = "loop")
  BY <1>1, PollLoop, LoopEffect
<1>6. UNCHANGED <<loops, keys, refused>> /\ (outcome' = outcome \/ outcome' # "nokeys")
  BY <1>1, LoopEffect, PoolStepFacts DEF Use
<1>7. ASSUME l \notin running
      PROVE  /\ Taken = l - 1 /\ Taken' = l /\ l \in Nat \ {0}
             /\ OnlyMasters \/ (/\ l <= Half + 1 => conn'[l] = l
                                /\ Ordered(free["redis"], Taken)')
  <2>1. l = Len(loops) + 1 /\ Len(loops) < NumLoops /\ Len(loops) \in Nat /\ main # "loop"
    BY <1>1, <1>7, LoopsInOrder
  <2>2. ~Popped(l)
    BY <1>1, <1>7 DEF Popped
  <2>3. Taken = l - 1
    BY <2>1, <2>2 DEF Taken
  <2>4. Popped(l)'
    BY <1>1 DEF Popped
  <2>5. Popped(Len(loops) + 1)'
    BY <1>6, <2>1, <2>4 DEF Popped
  <2>6. Taken' = l
    BY <1>6, <2>1, <2>5 DEF Taken
  <2>7. ASSUME ~OnlyMasters
        PROVE  (l <= Half + 1 => conn'[l] = l) /\ Ordered(free["redis"], Taken)'
    <3>1. Ordered(s, l - 1)
      BY <2>1, <2>3, <2>7 DEF KeysInv, OrderInv
    <3>2. \A i \in 1 .. Half + 2 - l : i <= Len(s) /\ s[i] = l - 1 + i
      BY <2>1, <3>1, HalfFacts DEF Ordered
    <3>3. l <= Half + 1 => s[1] = l
      BY <2>1, <3>2, HalfFacts
    <3>4. \A i \in 1 .. Half + 1 - l : i <= Len(Tail(s)) /\ Tail(s)[i] = l + i
      <4> SUFFICES ASSUME NEW i \in 1 .. Half + 1 - l
                   PROVE  i <= Len(Tail(s)) /\ Tail(s)[i] = l + i
        OBVIOUS
      <4>1. i + 1 \in 1 .. Half + 2 - l /\ i \in Nat \ {0}
        BY <2>1, HalfFacts
      <4>2. i + 1 <= Len(s) /\ s[i + 1] = l + i
        BY <2>1, <3>2, <4>1
      <4> QED
        BY <1>3, <4>1, <4>2
    <3>5. Ordered(free["redis"], Taken)'
      BY <1>2, <2>6, <3>4 DEF Ordered
    <3> QED
      BY <1>2, <1>3, <3>3, <3>5
  <2> QED
    BY <2>1, <2>3, <2>6, <2>7
<1>8. OrderInv'
  BY <1>4, <1>5, <1>7 DEF OrderInv
<1>9. HeldInv'
  BY <1>1, <1>4, <1>7, LoopEffect DEF KeysInv, HeldInv
<1>10. \A k \in Loops : Asked(k)' <=> Asked(k)
  <2>1. Asked(l)' <=> Asked(l)
    BY <1>1 DEF Asked
  <2>2. \A k \in Loops : k # l => (Asked(k)' <=> Asked(k))
    BY <1>1, LoopEffect DEF Asked
  <2> QED
    BY <2>1, <2>2
<1>11. ReadInv' /\ EndInv'
  BY <1>4, <1>5, <1>6, <1>10 DEF KeysInv, ReadInv, EndInv
<1> QED
  BY <1>5, <1>8, <1>9, <1>11 DEF KeysInv

\* A connection is put at the end of the list.
LEMMA KeysPut ==
    ASSUME StartInv, StartInv', KeysInv, NEW l \in Loops, pool[l] = "redis", Put(l)
    PROVE  KeysInv'
<1> USE DEF StartInv, BaseInv
<1>1. LoopStep(l) /\ pc[l] = "put" /\ pc'[l] = "post" /\ pool' = pool /\ running' = running
  <2>1. LoopStep(l)
    BY DEF LoopStep
  <2> QED
    BY <2>1, PoolStepFacts DEF startVars
<1>2. /\ free["redis"] \in Seq(Nat \ {None}) /\ conn[l] \in Nat \ {None} /\ conn'[l] = None
      /\ free'["redis"] = Append(free["redis"], conn[l])
  BY PoolStepFacts DEF TypeOK, Pools
<1> DEFINE s == free["redis"]
<1>3. /\ Len(s) \in Nat /\ Len(free'["redis"]) = Len(s) + 1
      /\ \A i \in 1 .. Len(s) + 1 :
            free'["redis"][i] = IF i = Len(s) + 1 THEN conn[l] ELSE s[i]
  BY <1>2
<1>4. OnlyMasters => OnlyMasters'
  BY <1>1, <1>2, <1>3, LoopEffect, HalfFacts DEF OnlyMasters, None
<1>5. PollInv' /\ (main' = "loop" <=> main = "loop")
  BY <1>1, PollLoop, LoopEffect
<1>6. UNCHANGED <<loops, keys, refused>> /\ (outcome' = outcome \/ outcome' # "nokeys")
  BY <1>1, LoopEffect, PoolStepFacts DEF Use
<1>7. \A k \in Loops : (Asked(k)' <=> Asked(k)) /\ (Popped(k)' <=> Popped(k))
  <2>1. (Asked(l)' <=> Asked(l)) /\ (Popped(l)' <=> Popped(l))
    BY <1>1 DEF Asked, Popped
  <2>2. \A k \in Loops : k # l => (Asked(k)' <=> Asked(k)) /\ (Popped(k)' <=> Popped(k))
    BY <1>1, LoopEffect DEF Asked, Popped
  <2> QED
    BY <2>1, <2>2
<1>8. OrderInv'
  <2>1. Taken' = Taken /\ Taken \in Nat
    <3>1. Len(loops) \in Nat
      BY DEF TypeOK
    <3>2. Len(loops) < NumLoops => Len(loops) + 1 \in Loops
      BY <3>1, HalfFacts DEF Loops
    <3>3. Len(loops) < NumLoops => (Popped(Len(loops) + 1)' <=> Popped(Len(loops) + 1))
      <4> SUFFICES ASSUME Len(loops) < NumLoops
                   PROVE  Popped(Len(loops) + 1)' <=> Popped(Len(loops) + 1)
        OBVIOUS
      <4> PICK k \in Loops : k = Len(loops) + 1
        BY <3>2
      <4> QED
        BY <1>6, <1>7 DEF Popped
    <3> QED
      BY <1>6, <3>1, <3>3 DEF Taken
  <2>2. Ordered(s, Taken) => Ordered(free["redis"], Taken)'
    BY <1>3, <2>1, HalfFacts DEF Ordered
  <2> QED
    BY <1>4, <1>5, <2>2 DEF KeysInv, OrderInv
<1>9. HeldInv'
  BY <1>1, <1>4, LoopEffect DEF KeysInv, HeldInv
<1>10. ReadInv' /\ EndInv'
  BY <1>4, <1>5, <1>6, <1>7 DEF KeysInv, ReadInv, EndInv
<1> QED
  BY <1>5, <1>8, <1>9, <1>10 DEF KeysInv

\* What a loop reads is there, unless the process ends or an error is answered.
LEMMA KeysUse ==
    ASSUME StartInv, StartInv', KeysInv, NEW l \in Loops, pool[l] = "redis", Use(l)
    PROVE  KeysInv'
<1> USE DEF StartInv, BaseInv
<1>1. LoopStep(l) /\ pc[l] = "use" /\ UNCHANGED <<pool, conn, free, running, keys, loops, main>>
  BY DEF LoopStep, Use, startVars, poolVars
<1>2. /\ \A k \in Loops : k # l => pc'[k] = pc[k]
      /\ pc'[l] \in {"use", "put"} /\ (pc'[l] = "use" => outcome' = "nokeys" /\ NoKeys(l))
      /\ pc'[l] = "put" => outcome' = outcome /\ (~NoKeys(l) \/ refused' \/ l \in running)
      /\ refused => refused'
      /\ outcome = "up"
  BY ThreadFacts DEF Use, Up, TypeOK
<1>3. Server(conn[l]) \in Servers /\ l \in Nat /\ l > 0 /\ 1 \in Loops
  BY ThreadFacts DEF Server, Servers
<1>4. PollInv'
  BY <1>1, PollLoop
<1>5. OnlyMasters' <=> OnlyMasters
  BY <1>1 DEF OnlyMasters
<1>6. \A k \in Loops : Popped(k)' <=> Popped(k)
  BY <1>1, <1>2 DEF Popped
<1>7. OrderInv'
  <2>1. Len(loops) \in Nat
    BY DEF TypeOK
  <2>2. Taken' = Taken
    <3>1. Len(loops) < NumLoops => Len(loops) + 1 \in Loops
      BY <2>1, HalfFacts DEF Loops
    <3> QED
      BY <1>1, <1>6, <3>1 DEF Taken
  <2> QED
    BY <1>1, <1>5, <2>2 DEF KeysInv, OrderInv, Ordered
<1>8. HeldInv'
  BY <1>1, <1>2, <1>5 DEF KeysInv, HeldInv
<1>9. ASSUME ~refused, ~NoKeys(l), l \notin running
      PROVE  "master" \in keys /\ (l > Half => OnlyMasters \/ "replica" \in keys)
  <2>1. \A k \in Loops : k < l => k \in running
    BY <1>1, <1>9, LoopsInOrder
  <2>2. Server(conn[l]) \in keys
    BY <1>9 DEF NoKeys
  <2>3. \A k \in Loops : k \in running => "master" \in keys /\ (k > Half => OnlyMasters \/ "replica" \in keys)
    BY <1>9 DEF KeysInv, ReadInv, Asked
  <2>4. l > 1 => "master" \in keys
    BY <1>3, <2>1, <2>3
  <2>5. OnlyMasters => conn[l] <= Half
    BY DEF OnlyMasters
  <2>6. CASE l > Half + 1
    <3>1. Half + 1 \in Loops /\ Half + 1 < l /\ Half + 1 > Half
      BY <1>3, <2>6, HalfFacts DEF Loops
    <3> QED
      BY <2>1, <2>3, <3>1
  <2>7. CASE l <= Half + 1
    <3>1. OnlyMasters \/ conn[l] = l
      BY <1>1, <1>9, <2>7 DEF KeysInv, HeldInv
    <3>2. CASE OnlyMasters
      BY <2>2, <2>5, <3>2 DEF Server
    <3>3. CASE conn[l] = l
      BY <1>3, <2>2, <2>4, <3>3, HalfFacts DEF Server
    <3> QED
      BY <3>1, <3>2, <3>3
  <2> QED
    BY <1>3, <2>6, <2>7, HalfFacts
<1>10. ReadInv'
  <2> SUFFICES ASSUME ~refused', NEW k \in Loops, Asked(k)'
               PROVE  "master" \in keys /\ (k > Half => OnlyMasters \/ "replica" \in keys)
    BY <1>1, <1>5 DEF ReadInv
  <2>1. ~refused
    BY <1>2
  <2>2. CASE Asked(k)
    BY <2>1, <2>2 DEF KeysInv, ReadInv
  <2>3. CASE ~Asked(k)
    <3>1. k = l /\ pc'[l] = "put" /\ l \notin running
      BY <1>1, <1>2, <2>3 DEF Asked
    <3> QED
      BY <1>2, <1>9, <2>1, <3>1
  <2> QED
    BY <2>2, <2>3
<1>11. EndInv'
  <2> SUFFICES ASSUME NumLoops > Half, ~refused', main = "loop"
               PROVE  ~NoKeys(l)
    BY <1>1, <1>2 DEF EndInv
  <2>1. NumLoops \in Loops /\ NumLoops \in running
    BY HalfFacts DEF ListInv, Loops
  <2>2. "master" \in keys /\ (OnlyMasters \/ "replica" \in keys)
    BY <1>2, <2>1 DEF KeysInv, ReadInv, Asked
  <2>3. OnlyMasters => Server(conn[l]) = "master"
    BY DEF OnlyMasters, Server
  <2> QED
    BY <1>3, <2>2, <2>3 DEF NoKeys, Servers
<1> QED
  BY <1>4, <1>7, <1>8, <1>10, <1>11 DEF KeysInv

LEMMA KeysStep == StartInv /\ StartInv' /\ KeysInv /\ [Next]_vars => KeysInv'
<1> SUFFICES ASSUME StartInv, StartInv', KeysInv, [Next]_vars
             PROVE  KeysInv'
  OBVIOUS
<1>1. ASSUME NEW l \in Loops, LoopStep(l) \/ Wake(l)
      PROVE  KeysInv'
  <2>1. pool[l] \in {"mysql", "redis"}
    BY DEF StartInv, BaseInv, TypeOK, Pools
  <2> QED
    BY <1>1, <2>1, KeysNeutral, KeysPop, KeysPut, KeysUse DEF LoopStep
<1> QED
  BY <1>1, KeysMain DEF Next, MainStep

\* The process ends for a missing key only while it starts, and for one of the master
\* only before any loop runs.
THEOREM MissingKeysEarly == Spec => []KeysMissedEarly
<1>1. Init => KeysInv
  <2> SUFFICES ASSUME Init
               PROVE  KeysInv
    OBVIOUS
  <2>1. /\ main = "setConn" /\ running = {} /\ free["redis"] = << >>
        /\ \A l \in Loops : pc[l] = "none" /\ conn[l] = None
    BY ThreadFacts DEF Init
  <2>2. OnlyMasters
    BY <2>1, HalfFacts DEF OnlyMasters, None
  <2> QED
    BY <2>1, <2>2 DEF KeysInv, PollInv, OrderInv, HeldInv, ReadInv, EndInv, Asked
<1>2. StartInv /\ KeysInv => KeysMissedEarly
  <2> SUFFICES ASSUME StartInv, KeysInv, outcome = "nokeys", ~refused
               PROVE  /\ running # {} => "master" \in keys
                      /\ NumLoops > Half => main # "loop"
    BY DEF KeysMissedEarly
  <2>1. ASSUME NEW l \in running
        PROVE  "master" \in keys
    BY DEF StartInv, BaseInv, TypeOK, KeysInv, ReadInv, Asked
  <2> QED
    BY <2>1 DEF KeysInv, EndInv
<1>3. Init => StartInv
  BY BaseInit, TurnInit DEF StartInv
<1>4. StartInv /\ [Next]_vars => StartInv'
  BY BaseStep, ListStep, TurnStep DEF StartInv
<1> QED
  BY KeysStep, <1>1, <1>2, <1>3, <1>4, PTL DEF Spec
===============================================================================
