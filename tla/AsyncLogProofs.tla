---------------------------- MODULE AsyncLogProofs ----------------------------
(***************************************************************************)
(* Proofs about AsyncLog, for buffers of every size and any number of      *)
(* messages, as long as new finds memory: the addresses do not run out.    *)
(***************************************************************************)
EXTENDS AsyncLog, FiniteSetTheorems, TLAPS

Endless == ~IsFiniteSet(Heap)

(* Sequences. *)

LEMMA SequenceIsFinite ==
    ASSUME NEW S, NEW s \in Seq(S)
    PROVE  IsFiniteSet(ToSet(s))
<1>1. s \in [1 .. Len(s) -> ToSet(s)] /\ Len(s) \in Nat /\ DOMAIN s = 1 .. Len(s)
  BY DEF ToSet
<1>2. s \in Surjection(1 .. Len(s), ToSet(s))
  BY <1>1 DEF Surjection, ToSet
<1>3. IsFiniteSet(1 .. Len(s))
  BY <1>1, FS_Interval
<1> QED
  BY <1>2, <1>3, FS_Surjection

LEMMA MemoryLeft ==
    ASSUME Endless, NEW S, IsFiniteSet(S)
    PROVE  \E b \in Heap : b \notin S
<1> SUFFICES ASSUME Heap \subseteq S
             PROVE  FALSE
  OBVIOUS
<1> QED
  BY FS_Subset DEF Endless

LEMMA Appended ==
    ASSUME NEW S, NEW s \in Seq(S), NEW x \in S
    PROVE  /\ Append(s, x) \in Seq(S) /\ Len(Append(s, x)) = Len(s) + 1
           /\ ToSet(Append(s, x)) = ToSet(s) \cup {x}
           /\ IsInjective(s) /\ x \notin ToSet(s) => IsInjective(Append(s, x))
<1>1. /\ Append(s, x) \in Seq(S) /\ Len(Append(s, x)) = Len(s) + 1 /\ Len(s) \in Nat
      /\ DOMAIN Append(s, x) = 1 .. Len(s) + 1 /\ DOMAIN s = 1 .. Len(s)
      /\ \A i \in 1 .. Len(s) + 1 : Append(s, x)[i] = IF i = Len(s) + 1 THEN x ELSE s[i]
  OBVIOUS
<1>2. ToSet(Append(s, x)) = ToSet(s) \cup {x}
  BY <1>1 DEF ToSet
<1>3. ASSUME IsInjective(s), x \notin ToSet(s)
      PROVE  IsInjective(Append(s, x))
  BY <1>1, <1>3 DEF IsInjective, ToSet
<1> QED
  BY <1>1, <1>2, <1>3

LEMMA PartFrom ==
    ASSUME NEW g \in Seq(Nat), NEW e \in Seq(Nat), NEW m \in Nat, Len(g) = m + Len(e),
           \A i \in 1 .. Len(e) : g[m + i] = e[i]
    PROVE  SubSeq(g, m + 1, Len(g)) = e
<1>1. PICK n \in Nat : n = Len(e)
  OBVIOUS
<1>2. SubSeq(g, m + 1, Len(g)) = [i \in 1 .. n |-> g[m + i]]
  BY <1>1
<1>3. e = [i \in 1 .. n |-> e[i]]
  BY <1>1
<1>4. [i \in 1 .. n |-> g[m + i]] = [i \in 1 .. n |-> e[i]]
  BY <1>1, Zenon
<1> QED
  BY <1>2, <1>3, <1>4, Zenon

LEMMA Joined ==
    ASSUME NEW S, NEW s \in Seq(S), NEW t \in Seq(S)
    PROVE  /\ s \o t \in Seq(S) /\ Len(s \o t) = Len(s) + Len(t)
           /\ ToSet(s \o t) = ToSet(s) \cup ToSet(t)
           /\ DOMAIN (s \o t) = 1 .. Len(s) + Len(t)
           /\ \A i \in 1 .. Len(s) : (s \o t)[i] = s[i]
           /\ \A i \in 1 .. Len(t) : (s \o t)[Len(s) + i] = t[i]
<1>1. /\ s \o t \in Seq(S) /\ Len(s \o t) = Len(s) + Len(t) /\ Len(s) \in Nat /\ Len(t) \in Nat
      /\ DOMAIN (s \o t) = 1 .. Len(s) + Len(t) /\ DOMAIN s = 1 .. Len(s) /\ DOMAIN t = 1 .. Len(t)
      /\ \A i \in 1 .. Len(s) + Len(t) : (s \o t)[i] = IF i <= Len(s) THEN s[i] ELSE t[i - Len(s)]
  OBVIOUS
<1>2. \A i \in 1 .. Len(s) : i \in 1 .. Len(s) + Len(t) /\ (s \o t)[i] = s[i]
  BY <1>1
<1>3. \A i \in 1 .. Len(t) : /\ i + Len(s) \in 1 .. Len(s) + Len(t)
                             /\ (s \o t)[i + Len(s)] = t[i]
  BY <1>1
<1>4. \A i \in 1 .. Len(s) + Len(t) : i <= Len(s) \/ i - Len(s) \in 1 .. Len(t)
  BY <1>1
<1>5. \A i \in 1 .. Len(s) + Len(t) : (s \o t)[i] \in ToSet(s) \cup ToSet(t)
  BY <1>1, <1>4 DEF ToSet
<1>6. ToSet(s) \subseteq ToSet(s \o t)
  BY <1>1, <1>2 DEF ToSet
<1>7. ToSet(t) \subseteq ToSet(s \o t)
  <2> SUFFICES ASSUME NEW i \in 1 .. Len(t)
               PROVE  t[i] \in ToSet(s \o t)
    BY <1>1 DEF ToSet
  <2> QED
    BY <1>1, <1>3 DEF ToSet
<1>8. ToSet(s \o t) \subseteq ToSet(s) \cup ToSet(t)
  BY <1>1, <1>5 DEF ToSet
<1>9. \A i \in 1 .. Len(t) : (s \o t)[Len(s) + i] = t[i]
  BY <1>1, <1>3
<1> QED
  BY <1>1, <1>2, <1>6, <1>7, <1>8, <1>9

LEMMA FirstPart ==
    ASSUME NEW S, NEW s \in Seq(S), NEW n \in 0 .. Len(s)
    PROVE  /\ SubSeq(s, 1, n) \in Seq(S) /\ Len(SubSeq(s, 1, n)) = n
           /\ \A i \in 1 .. n : SubSeq(s, 1, n)[i] = s[i]
           /\ ToSet(SubSeq(s, 1, n)) \subseteq ToSet(s)
           /\ IsInjective(s) => IsInjective(SubSeq(s, 1, n))
<1>1. /\ SubSeq(s, 1, n) \in Seq(S) /\ Len(SubSeq(s, 1, n)) = n /\ n \in Nat /\ n <= Len(s)
      /\ DOMAIN SubSeq(s, 1, n) = 1 .. n /\ DOMAIN s = 1 .. Len(s)
      /\ \A i \in 1 .. n : SubSeq(s, 1, n)[i] = s[i] /\ i \in 1 .. Len(s)
  OBVIOUS
<1> QED
  BY <1>1 DEF ToSet, IsInjective

(* What is left of a sequence from place n + 1 on. *)
LEMMA LastPart ==
    ASSUME NEW S, NEW s \in Seq(S), NEW n \in 0 .. Len(s)
    PROVE  /\ SubSeq(s, n + 1, Len(s)) \in Seq(S)
           /\ ToSet(SubSeq(s, n + 1, Len(s))) = {s[i] : i \in n + 1 .. Len(s)}
<1>1. /\ SubSeq(s, n + 1, Len(s)) \in Seq(S) /\ Len(SubSeq(s, n + 1, Len(s))) = Len(s) - n
      /\ n \in Nat /\ Len(s) \in Nat
      /\ DOMAIN SubSeq(s, n + 1, Len(s)) = 1 .. Len(s) - n
      /\ \A i \in 1 .. Len(s) - n : SubSeq(s, n + 1, Len(s))[i] = s[n + i]
  OBVIOUS
<1>2. \A i \in 1 .. Len(s) - n : n + i \in n + 1 .. Len(s)
  BY <1>1
<1>3. \A j \in n + 1 .. Len(s) : j - n \in 1 .. Len(s) - n /\ SubSeq(s, n + 1, Len(s))[j - n] = s[j]
  BY <1>1
<1> DEFINE r == SubSeq(s, n + 1, Len(s))
           rest == {s[i] : i \in n + 1 .. Len(s)}
<1>4. ToSet(r) \subseteq rest
  BY <1>1, <1>2 DEF ToSet
<1>5. rest \subseteq ToSet(r)
  <2> SUFFICES ASSUME NEW j \in n + 1 .. Len(s)
               PROVE  s[j] \in ToSet(r)
    OBVIOUS
  <2> QED
    BY <1>1, <1>3 DEF ToSet
<1> QED
  BY <1>1, <1>4, <1>5

LEMMA EmptySequence == ToSet(<< >>) = {} /\ IsInjective(<< >>) /\ Len(<< >>) = 0
BY DEF ToSet, IsInjective

-----------------------------------------------------------------------------
(* The invariant. *)

(* The logging thread and the thread that starts and stops it. *)
PhaseInv ==
    /\ pc = "begin" => life = "starting"
    /\ life = "starting" => running
    /\ life = "new" <=> pc = "none"
    /\ life = "stopped" => pc = "end"

(* Which pointers are set.  A buffer has been taken from next only when the one
   before was full, and waits in buffers. *)
SpareInv ==
    /\ current \in Heap
    /\ next = Null => buffers # << >>
    /\ pc \in {"top", "lock", "wait"} => new1 # Null /\ new2 # Null
    /\ pc \in {"cut", "write"} => new1 = Null /\ Len(toWrite) >= Missing
    /\ pc \notin {"cut", "write"} => toWrite = << >>
    /\ pc # "write" => written = 0

(* Who is a spare is empty. *)
EmptyInv == \A b \in {next, new1, new2} \ {Null} : data[b] = << >>

(* NoSharing, part by part. *)
DistinctInv ==
    /\ IsInjective(buffers) /\ IsInjective(toWrite)
    /\ ToSet(buffers) \cap ToSet(toWrite) = {}
    /\ {current, next, new1, new2} \cap (ToSet(buffers) \cup ToSet(toWrite)) = {}
    /\ current \notin {next, new1, new2}
    /\ next \notin {new1, new2} \ {Null}
    /\ new1 = new2 => new1 = Null

BufferInv == TypeOK /\ SpareInv /\ EmptyInv /\ DistinctInv

(* Where message x is. *)
Saved(x) == x \in dropped \cup ToSet(file)
Collected(x) == \E i \in written + 1 .. Len(toWrite) : x \in ToSet(data[toWrite[i]])
InFront(x) == \E b \in ToSet(buffers) \cup {current} : x \in ToSet(data[b])

TotalInv == \A x \in 1 .. appended : Saved(x) \/ Collected(x) \/ InFront(x)
DebtInv == pc \notin {"lock", "wait"} => \A x \in 1 .. owed : Saved(x) \/ Collected(x)

LEMMA PointerAt ==
    ASSUME TypeOK
    PROVE  /\ DOMAIN Pointers = 1 .. 4 + Len(buffers) + Len(toWrite)
           /\ Len(buffers) \in Nat /\ Len(toWrite) \in Nat
           /\ Pointers[1] = current /\ Pointers[2] = next /\ Pointers[3] = new1 /\ Pointers[4] = new2
           /\ \A i \in 1 .. Len(buffers) : Pointers[4 + i] = buffers[i]
           /\ \A i \in 1 .. Len(toWrite) : Pointers[4 + Len(buffers) + i] = toWrite[i]
<1> DEFINE four == <<current, next, new1, new2>>
<1>1. /\ four \in Seq(Buffer) /\ Len(four) = 4
      /\ four[1] = current /\ four[2] = next /\ four[3] = new1 /\ four[4] = new2
  BY DEF TypeOK
<1>2. Pointers = four \o buffers \o toWrite
  BY DEF Pointers
<1> HIDE DEF four
<1>3. PICK f \in Seq(Buffer) : f = four
  BY <1>1
<1>4. PICK b \in Seq(Buffer) : b = buffers
  BY DEF TypeOK, Buffer
<1>5. PICK w \in Seq(Buffer) : w = toWrite
  BY DEF TypeOK, Buffer
<1>6a. /\ f \o b \in Seq(Buffer) /\ Len(f \o b) = Len(f) + Len(b)
       /\ \A i \in 1 .. Len(f) : (f \o b)[i] = f[i]
       /\ \A i \in 1 .. Len(b) : (f \o b)[Len(f) + i] = b[i]
  BY Joined
<1>6. PICK g \in Seq(Buffer) : g = f \o b
  BY <1>6a
<1>6b. Len(f) = 4
  BY <1>1, <1>3
<1>7. /\ Len(g) = 4 + Len(b) /\ Len(b) \in Nat /\ Len(w) \in Nat
      /\ \A i \in 1 .. 4 : g[i] = f[i]
      /\ \A i \in 1 .. Len(b) : g[4 + i] = b[i]
  BY <1>6, <1>6a, <1>6b
<1>7a. /\ DOMAIN (g \o w) = 1 .. Len(g) + Len(w)
       /\ \A i \in 1 .. Len(g) : (g \o w)[i] = g[i]
       /\ \A i \in 1 .. Len(w) : (g \o w)[Len(g) + i] = w[i]
  BY Joined
<1>8. /\ DOMAIN (g \o w) = 1 .. 4 + Len(b) + Len(w)
      /\ \A i \in 1 .. 4 + Len(b) : (g \o w)[i] = g[i]
      /\ \A i \in 1 .. Len(w) : (g \o w)[4 + Len(b) + i] = w[i]
  BY <1>7, <1>7a
<1>9. \A i \in 1 .. Len(b) : 4 + i \in 1 .. 4 + Len(b)
  BY <1>7
<1>10. \A i \in 1 .. 4 : i \in 1 .. 4 + Len(b)
  BY <1>7
<1>11. /\ \A i \in 1 .. 4 : (g \o w)[i] = f[i]
       /\ \A i \in 1 .. Len(b) : (g \o w)[4 + i] = b[i]
  BY <1>7, <1>8, <1>9, <1>10
<1>12. 1 \in 1 .. 4 /\ 2 \in 1 .. 4 /\ 3 \in 1 .. 4 /\ 4 \in 1 .. 4
  OBVIOUS
<1>13. Pointers = g \o w
  BY <1>2, <1>3, <1>4, <1>5, <1>6
<1> QED
  BY <1>1, <1>3, <1>4, <1>5, <1>7, <1>8, <1>11, <1>12, <1>13

LEMMA PointerSet ==
    ASSUME TypeOK
    PROVE  ToSet(Pointers) = {current, next, new1, new2} \cup ToSet(buffers) \cup ToSet(toWrite)
<1>1a. <<current, next, new1, new2>> \in Seq(Buffer)
  BY DEF TypeOK
<1>1. PICK f \in Seq(Buffer) : f = <<current, next, new1, new2>>
  BY <1>1a
<1>2. PICK b \in Seq(Buffer) : b = buffers
  BY DEF TypeOK, Buffer
<1>3. PICK w \in Seq(Buffer) : w = toWrite
  BY DEF TypeOK, Buffer
<1>4. ToSet(f) = {current, next, new1, new2}
  BY <1>1 DEF ToSet
<1>5. f \o b \in Seq(Buffer) /\ ToSet(f \o b) = {current, next, new1, new2} \cup ToSet(b)
  BY <1>4, Joined
<1>6a. PICK g \in Seq(Buffer) : g = f \o b
  BY <1>5
<1>6b. ToSet(g \o w) = ToSet(g) \cup ToSet(w)
  BY Joined
<1>6. ToSet((f \o b) \o w) = {current, next, new1, new2} \cup ToSet(b) \cup ToSet(w)
  BY <1>5, <1>6a, <1>6b
<1> QED
  BY <1>1, <1>2, <1>3, <1>6 DEF Pointers

(* There is always memory for two more buffers. *)
LEMMA NewMemory ==
    ASSUME Endless, TypeOK
    PROVE  /\ Unused(NewBuffer)
           /\ LET b == CHOOSE b \in Heap : Unused(b) /\ b # NewBuffer
              IN  Unused(b) /\ b # NewBuffer
<1>1. Pointers \in Seq(Buffer)
  <2>1. buffers \in Seq(Buffer) /\ toWrite \in Seq(Buffer) /\ <<current, next, new1, new2>> \in Seq(Buffer)
    BY DEF TypeOK, Buffer
  <2> QED
    BY <2>1 DEF Pointers
<1>2. IsFiniteSet(ToSet(Pointers))
  BY <1>1, SequenceIsFinite
<1>3. \E b \in Heap : Unused(b)
  BY <1>2, MemoryLeft DEF Unused
<1>4. Unused(NewBuffer)
  BY <1>3 DEF NewBuffer
<1>5. IsFiniteSet(ToSet(Pointers) \cup {NewBuffer})
  BY <1>2, FS_AddElement
<1>6. \E b \in Heap : Unused(b) /\ b # NewBuffer
  BY <1>5, MemoryLeft DEF Unused
<1> QED
  BY <1>4, <1>6

LEMMA DistinctGivesNoSharing ==
    ASSUME TypeOK, DistinctInv
    PROVE  NoSharing
<1> DEFINE n == Len(buffers)
           m == Len(toWrite)
<1>1. /\ DOMAIN Pointers = 1 .. 4 + n + m /\ n \in Nat /\ m \in Nat
      /\ Pointers[1] = current /\ Pointers[2] = next /\ Pointers[3] = new1 /\ Pointers[4] = new2
      /\ \A i \in 1 .. n : Pointers[4 + i] = buffers[i]
      /\ \A i \in 1 .. m : Pointers[4 + n + i] = toWrite[i]
  BY PointerAt
<1>2. DOMAIN buffers = 1 .. n /\ DOMAIN toWrite = 1 .. m
  BY DEF TypeOK
<1> HIDE DEF n, m
<1>3. ASSUME NEW i \in DOMAIN Pointers, i > 4, i <= 4 + n
      PROVE  i - 4 \in 1 .. n /\ Pointers[i] = buffers[i - 4] /\ Pointers[i] \in ToSet(buffers)
  <2>1. i - 4 \in 1 .. n /\ 4 + (i - 4) = i
    BY <1>1, <1>3
  <2>2. Pointers[4 + (i - 4)] = buffers[i - 4]
    BY <1>1, <2>1
  <2> QED
    BY <1>2, <2>1, <2>2 DEF ToSet
<1>4. ASSUME NEW i \in DOMAIN Pointers, i > 4 + n
      PROVE  i - (4 + n) \in 1 .. m /\ Pointers[i] = toWrite[i - (4 + n)] /\ Pointers[i] \in ToSet(toWrite)
  <2>1. i - (4 + n) \in 1 .. m /\ 4 + n + (i - (4 + n)) = i
    BY <1>1, <1>4
  <2>2. Pointers[4 + n + (i - (4 + n))] = toWrite[i - (4 + n)]
    BY <1>1, <2>1
  <2> QED
    BY <1>2, <2>1, <2>2 DEF ToSet
<1>5. SUFFICES ASSUME NEW i \in DOMAIN Pointers, NEW j \in DOMAIN Pointers,
                      i < j, Pointers[i] = Pointers[j]
               PROVE  Pointers[i] = Null
  BY <1>1 DEF NoSharing
<1>6. CASE j <= 4
  <2>1. i \in 1 .. 3 /\ j \in 2 .. 4
    BY <1>1, <1>5, <1>6
  <2> QED
    BY <1>1, <1>5, <2>1 DEF DistinctInv
<1>7. CASE i <= 4 /\ j > 4
  <2>1. Pointers[i] \in {current, next, new1, new2}
    <3>1. i \in 1 .. 4
      BY <1>1, <1>7
    <3> QED
      BY <1>1, <3>1
  <2>2. Pointers[j] \in ToSet(buffers) \cup ToSet(toWrite)
    BY <1>1, <1>3, <1>4, <1>7
  <2> QED
    BY <1>5, <2>1, <2>2 DEF DistinctInv
<1>8. CASE i > 4 /\ j <= 4 + n
  <2>1. i <= 4 + n /\ j > 4 /\ i - 4 # j - 4
    BY <1>1, <1>5, <1>8
  <2>2. i - 4 \in DOMAIN buffers /\ j - 4 \in DOMAIN buffers /\ buffers[i - 4] = buffers[j - 4]
    BY <1>2, <1>3, <1>5, <1>8, <2>1
  <2> QED
    BY <2>1, <2>2 DEF DistinctInv, IsInjective
<1>9. CASE i > 4 /\ i <= 4 + n /\ j > 4 + n
  BY <1>3, <1>4, <1>5, <1>9 DEF DistinctInv
<1>10. CASE i > 4 + n
  <2>1. j > 4 + n /\ i - (4 + n) # j - (4 + n)
    BY <1>1, <1>5, <1>10
  <2>2. /\ i - (4 + n) \in DOMAIN toWrite /\ j - (4 + n) \in DOMAIN toWrite
        /\ toWrite[i - (4 + n)] = toWrite[j - (4 + n)]
    BY <1>2, <1>4, <1>5, <1>10, <2>1
  <2> QED
    BY <2>1, <2>2 DEF DistinctInv, IsInjective
<1> QED
  BY <1>1, <1>5, <1>6, <1>7, <1>8, <1>9, <1>10

-----------------------------------------------------------------------------
(* The threads' states. *)

(* What each thread may be doing is known from how far the other has come. *)
THEOREM PhasesAgree == Spec => []PhaseInv
<1>1. Init => PhaseInv
  BY DEF Init, PhaseInv
<1>2. PhaseInv /\ [Next]_vars => PhaseInv'
  <2> SUFFICES ASSUME PhaseInv, [Next]_vars
               PROVE  PhaseInv'
    OBVIOUS
  <2>1. CASE Start
    BY <2>1 DEF PhaseInv, Start
  <2>2. CASE Started
    BY <2>2 DEF PhaseInv, Started
  <2>3. CASE AppendMessage
    BY <2>3 DEF PhaseInv, AppendMessage
  <2>4. CASE Stop
    BY <2>4 DEF PhaseInv, Stop
  <2>5. CASE Join
    BY <2>5 DEF PhaseInv, Join
  <2>6. CASE ThreadStart
    BY <2>6 DEF PhaseInv, ThreadStart
  <2>7. CASE Allocate
    BY <2>7 DEF PhaseInv, Allocate
  <2>8. CASE Top
    BY <2>8 DEF PhaseInv, Top
  <2>9. CASE Wait
    BY <2>9 DEF PhaseInv, Wait
  <2>10. CASE Swap
    BY <2>10 DEF PhaseInv, Swap
  <2>11. CASE Cut
    BY <2>11 DEF PhaseInv, Cut
  <2>12. CASE WriteBuffer
    BY <2>12 DEF PhaseInv, WriteBuffer
  <2>13. CASE Refill
    BY <2>13 DEF PhaseInv, Refill
  <2>14. CASE Finish
    BY <2>14 DEF PhaseInv, Finish
  <2>15. CASE UNCHANGED vars
    BY <2>15 DEF PhaseInv, vars
  <2> QED
    BY <2>1, <2>2, <2>3, <2>4, <2>5, <2>6, <2>7, <2>8, <2>9, <2>10, <2>11, <2>12, <2>13, <2>14, <2>15
    DEF Next, Logging
<1> QED
  BY <1>1, <1>2, PTL DEF Spec

-----------------------------------------------------------------------------
(* The buffers. *)

(* The message goes to a buffer with room that nobody but the front has, and the
   front keeps all it had. *)
LEMMA AppendEffect ==
    ASSUME Endless, BufferInv, AppendMessage
    PROVE  /\ current' \in Heap
           /\ current' \notin {next', new1, new2} \cup ToSet(buffers') \cup ToSet(toWrite)
           /\ current' = current \/ current' \notin ToSet(buffers) \cup {current}
           /\ buffers' \in Seq(Heap) /\ IsInjective(buffers')
           /\ ToSet(buffers') \cup {current'} = ToSet(buffers) \cup {current, current'}
           /\ \/ next' = next /\ buffers' = buffers
              \/ next' = Null /\ buffers' # << >>
           /\ \E old \in Seq(Nat) :
                 /\ Len(old) + 1 < BufferSize
                 /\ current' = current => old = data[current]
                 /\ data' = [data EXCEPT ![current'] = Append(old, appended + 1)]
<1> USE LogAssumption DEF BufferInv
<1>1. /\ current \in Heap /\ buffers \in Seq(Heap) /\ next \in Heap \cup {Null} /\ data \in [Heap -> Seq(Nat)]
      /\ \A b \in Heap : Len(data[b]) \in Nat /\ Len(data[b]) < BufferSize
  BY DEF TypeOK, SpareInv, Buffer
<1>2. ToSet(Pointers) = {current, next, new1, new2} \cup ToSet(buffers) \cup ToSet(toWrite)
  BY PointerSet
<1>3. data' = [data EXCEPT ![current'] = Append(IF Unused(current') THEN << >> ELSE data[current'], appended + 1)]
  BY DEF AppendMessage
<1>4. CASE Fits(current)
  <2>1. current' = current /\ next' = next /\ buffers' = buffers
    BY <1>4 DEF AppendMessage, front
  <2>2. ~ Unused(current')
    BY <1>2, <2>1 DEF Unused
  <2>3. Len(data[current]) + 1 < BufferSize
    BY <1>1, <1>4 DEF Fits
  <2>4. data' = [data EXCEPT ![current'] = Append(data[current], appended + 1)]
    BY <1>3, <2>1, <2>2
  <2>5. data[current] \in Seq(Nat)
    BY <1>1
  <2>6. /\ current' \notin {next', new1, new2} \cup ToSet(buffers') \cup ToSet(toWrite)
        /\ IsInjective(buffers')
    BY <2>1 DEF DistinctInv
  <2> QED
    BY <1>1, <2>1, <2>3, <2>4, <2>5, <2>6
<1>5. CASE ~ Fits(current)
  <2>1. /\ buffers' = Append(buffers, current) /\ next' = Null
        /\ current' = IF next # Null THEN next ELSE NewBuffer
    BY <1>5 DEF AppendMessage
  <2>2. /\ buffers' \in Seq(Heap) /\ buffers' # << >>
        /\ ToSet(buffers') = ToSet(buffers) \cup {current}
        /\ IsInjective(buffers')
    <3>1. PICK b \in Seq(Heap) : b = buffers
      BY <1>1
    <3>2. PICK c \in Heap : c = current
      BY <1>1
    <3>3. IsInjective(b) /\ c \notin ToSet(b)
      BY <3>1, <3>2 DEF DistinctInv
    <3>4. /\ Append(b, c) \in Seq(Heap) /\ Len(Append(b, c)) = Len(b) + 1 /\ Len(b) \in Nat
          /\ ToSet(Append(b, c)) = ToSet(b) \cup {c} /\ IsInjective(Append(b, c))
      BY <3>3, Appended
    <3>5. Append(b, c) # << >>
      BY <3>4, EmptySequence
    <3> QED
      BY <2>1, <3>1, <3>2, <3>4, <3>5
  <2>3. CASE next # Null
    <3>1. current' = next /\ current' \in Heap /\ data[next] = << >>
      BY <1>1, <2>1, <2>3 DEF EmptyInv
    <3>2. current' \notin {Null, current, new1, new2} \cup ToSet(buffers) \cup ToSet(toWrite)
      BY <2>3, <3>1 DEF DistinctInv
    <3>3. data' = [data EXCEPT ![current'] = Append(<< >>, appended + 1)]
      <4>1. (IF Unused(current') THEN << >> ELSE data[current']) = << >>
        BY <3>1
      <4> QED
        BY <1>3, <4>1
    <3>4. << >> \in Seq(Nat) /\ Len(<< >>) + 1 < BufferSize
      OBVIOUS
    <3> QED
      BY <2>1, <2>2, <3>1, <3>2, <3>3, <3>4
  <2>4. CASE next = Null
    <3>1. current' = NewBuffer /\ Unused(current')
      BY <2>1, <2>4, NewMemory
    <3>2. current' \in Heap /\ current' \notin {Null, current, new1, new2} \cup ToSet(buffers) \cup ToSet(toWrite)
      BY <1>2, <3>1 DEF Unused
    <3>3. data' = [data EXCEPT ![current'] = Append(<< >>, appended + 1)]
      <4>1. (IF Unused(current') THEN << >> ELSE data[current']) = << >>
        BY <3>1
      <4> QED
        BY <1>3, <4>1
    <3>4. << >> \in Seq(Nat) /\ Len(<< >>) + 1 < BufferSize
      OBVIOUS
    <3> QED
      BY <2>1, <2>2, <3>2, <3>3, <3>4
  <2> QED
    BY <2>3, <2>4
<1> QED
  BY <1>4, <1>5

LEMMA AppendKeepsBuffers ==
    ASSUME Endless, BufferInv, AppendMessage
    PROVE  BufferInv'
<1> USE LogAssumption
<1>1. /\ current' \in Heap
      /\ current' \notin {next', new1, new2} \cup ToSet(buffers') \cup ToSet(toWrite)
      /\ current' = current \/ current' \notin ToSet(buffers) \cup {current}
      /\ buffers' \in Seq(Heap) /\ IsInjective(buffers')
      /\ ToSet(buffers') \cup {current'} = ToSet(buffers) \cup {current, current'}
      /\ \/ next' = next /\ buffers' = buffers
         \/ next' = Null /\ buffers' # << >>
  BY AppendEffect
<1>2. PICK old \in Seq(Nat) :
         /\ Len(old) + 1 < BufferSize
         /\ data' = [data EXCEPT ![current'] = Append(old, appended + 1)]
  BY AppendEffect
<1>3. /\ new1' = new1 /\ new2' = new2 /\ toWrite' = toWrite /\ written' = written
      /\ pc' = pc /\ running' = running /\ life' = life /\ file' = file /\ flushed' = flushed
      /\ appended' = appended + 1 /\ dropped' = dropped /\ owed' = owed
  BY DEF AppendMessage, back, output
<1>4. TypeOK'
  <2>1. {current', next', new1', new2'} \subseteq Buffer
    BY <1>1, <1>3 DEF BufferInv, TypeOK, Buffer
  <2>2. appended + 1 \in Nat /\ owed \in 0 .. appended + 1
    BY DEF BufferInv, TypeOK
  <2>3. Append(old, appended + 1) \in Seq(Nat) /\ Len(Append(old, appended + 1)) < BufferSize
    BY <1>2, <2>2
  <2>4. data' \in [Heap -> Seq(Nat)] /\ \A b \in Heap : Len(data'[b]) < BufferSize
    BY <1>1, <1>2, <2>3 DEF BufferInv, TypeOK
  <2> QED
    BY <1>1, <1>3, <2>1, <2>2, <2>4 DEF BufferInv, TypeOK
<1>5. SpareInv'
  BY <1>1, <1>3 DEF BufferInv, SpareInv, Missing
<1>6. EmptyInv'
  <2> SUFFICES ASSUME NEW b \in {next', new1, new2} \ {Null}
               PROVE  data'[b] = << >>
    BY <1>3 DEF EmptyInv
  <2>1. b \in Heap
    BY <1>1, <1>3 DEF BufferInv, TypeOK, Buffer
  <2>2. b # current' /\ b \in {next, new1, new2} \ {Null}
    BY <1>1
  <2> QED
    BY <1>2, <2>1, <2>2 DEF BufferInv, EmptyInv, TypeOK
<1>7. DistinctInv'
  <2>0. current \notin ToSet(toWrite) \cup {next, new1, new2}
    BY DEF BufferInv, DistinctInv
  <2>1. ToSet(buffers') \cap ToSet(toWrite) = {}
    BY <1>1, <2>0 DEF BufferInv, DistinctInv
  <2>2. {current', next', new1, new2} \cap (ToSet(buffers') \cup ToSet(toWrite)) = {}
    <3>1. {new1, new2} \cap ToSet(buffers') = {}
      BY <1>1, <2>0 DEF BufferInv, DistinctInv
    <3>2. {new1, new2} \cap ToSet(toWrite) = {}
      BY DEF BufferInv, DistinctInv
    <3>3. CASE next' = next /\ buffers' = buffers
      BY <1>1, <3>1, <3>2, <3>3 DEF BufferInv, DistinctInv
    <3>4. CASE next' = Null
      <4>1. Null \notin ToSet(buffers') \cup ToSet(toWrite)
        BY <1>1 DEF BufferInv, TypeOK, ToSet
      <4> QED
        BY <1>1, <3>1, <3>2, <3>4, <4>1
    <3> QED
      BY <1>1, <3>3, <3>4
  <2> QED
    BY <1>1, <1>3, <2>1, <2>2 DEF BufferInv, DistinctInv
<1> QED
  BY <1>4, <1>5, <1>6, <1>7 DEF BufferInv

LEMMA AllocateKeepsBuffers ==
    ASSUME Endless, BufferInv, Allocate
    PROVE  BufferInv'
<1> USE LogAssumption
<1>1. /\ new1' = NewBuffer /\ Unused(new1') /\ Unused(new2') /\ new2' # new1'
  BY NewMemory DEF Allocate, BufferInv
<1>2. ToSet(Pointers) = {current, next, new1, new2} \cup ToSet(buffers) \cup ToSet(toWrite)
  BY PointerSet DEF BufferInv
<1>3. /\ new1' \in Heap /\ new1' \notin {current, next} \cup ToSet(buffers) \cup ToSet(toWrite)
      /\ new2' \in Heap /\ new2' \notin {current, next} \cup ToSet(buffers) \cup ToSet(toWrite)
  BY <1>1, <1>2 DEF Unused
<1>4. /\ current' = current /\ next' = next /\ buffers' = buffers /\ toWrite' = toWrite /\ written' = written
      /\ pc = "allocate" /\ pc' = "top" /\ running' = running /\ life' = life
      /\ file' = file /\ flushed' = flushed /\ appended' = appended /\ dropped' = dropped /\ owed' = owed
      /\ data' = [data EXCEPT ![new1'] = << >>, ![new2'] = << >>]
  BY DEF Allocate, front, output, history
<1>5. /\ data' \in [Heap -> Seq(Nat)] /\ data'[new1'] = << >> /\ data'[new2'] = << >>
      /\ \A b \in Heap : data'[b] = data[b] \/ data'[b] = << >>
      /\ \A b \in Heap : b \notin {new1', new2'} => data'[b] = data[b]
  <2>1. PICK n \in Heap : n = new1'
    BY <1>3
  <2>2. PICK m \in Heap : m = new2'
    BY <1>3
  <2>3. data \in [Heap -> Seq(Nat)] /\ << >> \in Seq(Nat)
    BY DEF BufferInv, TypeOK
  <2>4. PICK d \in [Heap -> Seq(Nat)] : d = data
    BY <2>3
  <2>5. data' = [d EXCEPT ![n] = << >>, ![m] = << >>]
    BY <1>4, <2>1, <2>2, <2>4
  <2>6. data' \in [Heap -> Seq(Nat)]
    BY <2>3, <2>5
  <2>7. \A b \in Heap : data'[b] = IF b \in {n, m} THEN << >> ELSE d[b]
    BY <2>5
  <2> QED
    BY <2>1, <2>2, <2>4, <2>6, <2>7
<1>6. TypeOK'
  <2>1. \A b \in Heap : Len(data'[b]) < BufferSize
    BY <1>5 DEF BufferInv, TypeOK
  <2> QED
    BY <1>3, <1>4, <1>5, <2>1 DEF BufferInv, TypeOK, Buffer
<1>7. SpareInv'
  BY <1>3, <1>4 DEF BufferInv, SpareInv
<1>8. EmptyInv'
  <2> SUFFICES ASSUME NEW b \in {next, new1', new2'} \ {Null}
               PROVE  data'[b] = << >>
    BY <1>4 DEF EmptyInv
  <2>1. b \in Heap
    BY <1>3 DEF BufferInv, TypeOK, Buffer
  <2> QED
    BY <1>5, <2>1 DEF BufferInv, EmptyInv
<1>9. DistinctInv'
  BY <1>1, <1>3, <1>4 DEF BufferInv, DistinctInv
<1> QED
  BY <1>6, <1>7, <1>8, <1>9 DEF BufferInv

LEMMA SwapKeepsBuffers ==
    ASSUME BufferInv, Swap
    PROVE  BufferInv'
<1> USE LogAssumption
<1>1. /\ pc \in {"lock", "wait"} /\ pc' = "cut"
      /\ toWrite' = Append(buffers, current) /\ written' = 0
      /\ buffers' = << >> /\ current' = new1 /\ new1' = Null
      /\ next' = IF next = Null THEN new2 ELSE next
      /\ new2' = IF next = Null THEN Null ELSE new2
      /\ data' = data /\ running' = running /\ life' = life
      /\ file' = file /\ flushed' = flushed /\ appended' = appended /\ dropped' = dropped /\ owed' = appended
  BY DEF Swap, output
<1>2. /\ toWrite = << >> /\ written = 0 /\ new1 # Null /\ new2 # Null
      /\ new1 \in Heap /\ new2 \in Heap /\ current \in Heap /\ buffers \in Seq(Heap)
      /\ next = Null => buffers # << >>
  BY <1>1 DEF BufferInv, SpareInv, TypeOK, Buffer
<1>3. /\ toWrite' \in Seq(Heap) /\ Len(toWrite') = Len(buffers) + 1 /\ Len(buffers) \in Nat
      /\ ToSet(toWrite') = ToSet(buffers) \cup {current} /\ IsInjective(toWrite')
  <2>1. PICK b \in Seq(Heap) : b = buffers
    BY <1>2
  <2>2. PICK c \in Heap : c = current
    BY <1>2
  <2>3. IsInjective(b) /\ c \notin ToSet(b)
    BY <2>1, <2>2 DEF BufferInv, DistinctInv
  <2>4. /\ Append(b, c) \in Seq(Heap) /\ Len(Append(b, c)) = Len(b) + 1 /\ Len(b) \in Nat
        /\ ToSet(Append(b, c)) = ToSet(b) \cup {c} /\ IsInjective(Append(b, c))
    BY <2>3, Appended
  <2> QED
    BY <1>1, <2>1, <2>2, <2>4
<1>4. TypeOK'
  <2>1. << >> \in Seq(Heap) /\ owed' \in 0 .. appended' /\ written' \in 0 .. Len(toWrite')
    BY <1>1, <1>3 DEF BufferInv, TypeOK
  <2> QED
    BY <1>1, <1>2, <1>3, <2>1 DEF BufferInv, TypeOK, Buffer
<1>5. SpareInv'
  <2>1. Len(toWrite') >= Missing'
    <3>1. CASE next = Null
      <4>1. Len(buffers) >= 1
        BY <1>2, <1>3, <3>1
      <4>2. Missing' = 2
        BY <1>1, <3>1 DEF Missing
      <4> QED
        BY <1>3, <4>1, <4>2
    <3>2. CASE next # Null
      <4>1. Missing' = 1
        BY <1>1, <1>2, <3>2 DEF Missing
      <4> QED
        BY <1>3, <4>1
    <3> QED
      BY <3>1, <3>2
  <2> QED
    BY <1>1, <1>2, <2>1 DEF SpareInv
<1>6. EmptyInv'
  BY <1>1 DEF BufferInv, EmptyInv
<1>7. DistinctInv'
  <2>1. ToSet(buffers') = {} /\ IsInjective(buffers')
    BY <1>1, EmptySequence
  <2>2. Null \notin ToSet(toWrite')
    BY <1>2, <1>3 DEF ToSet
  <2>3. {next, new1, new2} \cap ToSet(toWrite') = {}
    BY <1>3 DEF BufferInv, DistinctInv
  <2>4. {current', next', new1', new2'} \subseteq {next, new1, new2, Null}
    BY <1>1
  <2>5. {current', next', new1', new2'} \cap ToSet(toWrite') = {}
    BY <2>2, <2>3, <2>4
  <2>6. new1 # new2 /\ new1 # next /\ (next # Null => next # new2)
    BY <1>2 DEF BufferInv, DistinctInv
  <2>7. current' \notin {next', new1', new2'}
    BY <1>1, <1>2, <2>6
  <2>8. next' \notin {new1', new2'} \ {Null}
    BY <1>1, <2>6
  <2>9. new1' = new2' => new1' = Null
    BY <1>1
  <2> QED
    BY <1>3, <2>1, <2>5, <2>7, <2>8, <2>9 DEF DistinctInv
<1> QED
  BY <1>4, <1>5, <1>6, <1>7 DEF BufferInv

(* The first Kept buffers, or all of them: in Cut what is still written, in Refill
   where the spares come from. *)
LEMMA FirstOnes ==
    ASSUME BufferInv, NEW k \in 0 .. Len(toWrite)
    PROVE  /\ SubSeq(toWrite, 1, k) \in Seq(Heap) /\ Len(SubSeq(toWrite, 1, k)) = k
           /\ ToSet(SubSeq(toWrite, 1, k)) \subseteq ToSet(toWrite)
           /\ IsInjective(SubSeq(toWrite, 1, k))
           /\ \A i \in 1 .. k : SubSeq(toWrite, 1, k)[i] = toWrite[i]
<1>1. PICK w \in Seq(Heap) : w = toWrite
  BY DEF BufferInv, TypeOK
<1>2. IsInjective(w)
  BY <1>1 DEF BufferInv, DistinctInv
<1>3. k \in 0 .. Len(w)
  BY <1>1
<1>4. /\ SubSeq(w, 1, k) \in Seq(Heap) /\ Len(SubSeq(w, 1, k)) = k
      /\ \A i \in 1 .. k : SubSeq(w, 1, k)[i] = w[i]
      /\ ToSet(SubSeq(w, 1, k)) \subseteq ToSet(w)
      /\ IsInjective(w) => IsInjective(SubSeq(w, 1, k))
  BY <1>3, FirstPart
<1> QED
  BY <1>1, <1>2, <1>4

LEMMA CutKeepsBuffers ==
    ASSUME BufferInv, Cut
    PROVE  BufferInv'
<1> USE LogAssumption
<1>1. /\ pc = "cut" /\ pc' = "write"
      /\ current' = current /\ next' = next /\ buffers' = buffers /\ new1' = new1 /\ new2' = new2
      /\ written' = written /\ data' = data /\ running' = running /\ life' = life
      /\ appended' = appended /\ owed' = owed
  BY DEF Cut, front
<1>2. Len(toWrite) \in Nat /\ toWrite \in Seq(Heap) /\ written = 0 /\ Kept \in Nat /\ Kept = 2
  BY <1>1 DEF BufferInv, TypeOK, SpareInv, Kept
<1>3. Missing \in 0 .. 2 /\ Len(toWrite) >= Missing /\ new1 = Null
  BY <1>1 DEF BufferInv, SpareInv, Missing
<1>4. /\ toWrite' \in Seq(Heap) /\ ToSet(toWrite') \subseteq ToSet(toWrite) /\ IsInjective(toWrite')
      /\ Len(toWrite') \in Nat /\ Len(toWrite') >= Missing
      /\ file' \in Seq(Nat) /\ flushed' \in 0 .. Len(file') /\ dropped' \subseteq Nat
  <2>1. CASE Len(toWrite) > MaxBuffers
    <3>1. toWrite' = SubSeq(toWrite, 1, Kept) /\ Kept \in 0 .. Len(toWrite)
      BY <1>2, <2>1 DEF Cut
    <3>2. file' = Append(file, Announcement) /\ flushed' \in {flushed, Len(file')}
      BY <2>1 DEF Cut, MayFlush
    <3>3. file' \in Seq(Nat) /\ Len(file') = Len(file) + 1 /\ flushed' \in 0 .. Len(file')
      BY <3>2 DEF BufferInv, TypeOK, Announcement
    <3>4. dropped' = dropped \cup MessagesIn(SubSeq(toWrite, Kept + 1, Len(toWrite)))
      BY <2>1 DEF Cut
    <3>5. SubSeq(toWrite, Kept + 1, Len(toWrite)) \in Seq(Heap)
      BY <1>2, <3>1
    <3>6. MessagesIn(SubSeq(toWrite, Kept + 1, Len(toWrite))) \subseteq Nat
      <4> DEFINE rest == SubSeq(toWrite, Kept + 1, Len(toWrite))
      <4>1. ToSet(rest) \subseteq Heap
        <5>1. \A s \in Seq(Heap) : ToSet(s) \subseteq Heap
          BY DEF ToSet
        <5> QED
          BY <3>5, <5>1
      <4>2. \A b \in Heap : ToSet(data[b]) \subseteq Nat
        BY DEF BufferInv, TypeOK, ToSet
      <4> QED
        BY <4>1, <4>2 DEF MessagesIn
    <3>7. dropped' \subseteq Nat
      BY <3>4, <3>6 DEF BufferInv, TypeOK
    <3> QED
      BY <1>2, <1>3, <3>1, <3>3, <3>7, FirstOnes
  <2>2. CASE ~ (Len(toWrite) > MaxBuffers)
    <3>1. toWrite' = toWrite /\ file' = file /\ flushed' = flushed /\ dropped' = dropped
      BY <2>2 DEF Cut, output
    <3> QED
      BY <1>2, <1>3, <3>1 DEF BufferInv, TypeOK, DistinctInv
  <2> QED
    BY <2>1, <2>2
<1>5. TypeOK'
  BY <1>1, <1>2, <1>4 DEF BufferInv, TypeOK
<1>6. SpareInv'
  BY <1>1, <1>3, <1>4 DEF BufferInv, SpareInv, Missing
<1>7. EmptyInv'
  BY <1>1 DEF BufferInv, EmptyInv
<1>8. DistinctInv'
  BY <1>1, <1>4 DEF BufferInv, DistinctInv
<1> QED
  BY <1>5, <1>6, <1>7, <1>8 DEF BufferInv

LEMMA WriteKeepsBuffers ==
    ASSUME BufferInv, WriteBuffer
    PROVE  BufferInv'
<1>1. /\ pc = "write" /\ written < Len(toWrite) /\ written' = written + 1 /\ pc' = pc
      /\ current' = current /\ next' = next /\ buffers' = buffers /\ new1' = new1 /\ new2' = new2
      /\ toWrite' = toWrite /\ data' = data /\ running' = running /\ life' = life
      /\ appended' = appended /\ owed' = owed /\ dropped' = dropped
      /\ file' = file \o data[toWrite[written + 1]] /\ flushed' \in {flushed, Len(file')}
  BY DEF WriteBuffer, MayFlush, front, history
<1>2. written + 1 \in 1 .. Len(toWrite) /\ toWrite[written + 1] \in Heap
  BY <1>1 DEF BufferInv, TypeOK
<1>3. file' \in Seq(Nat) /\ Len(file') \in Nat /\ Len(file) \in Nat /\ Len(file') >= Len(file)
  <2>1. PICK f \in Seq(Nat) : f = file
    BY DEF BufferInv, TypeOK
  <2>2. PICK d \in Seq(Nat) : d = data[toWrite[written + 1]]
    BY <1>2 DEF BufferInv, TypeOK
  <2>3. f \o d \in Seq(Nat) /\ Len(f \o d) = Len(f) + Len(d) /\ Len(f) \in Nat /\ Len(d) \in Nat
    BY Joined
  <2> QED
    BY <1>1, <2>1, <2>2, <2>3
<1>4. TypeOK'
  BY <1>1, <1>2, <1>3, SMTT(30) DEF BufferInv, TypeOK
<1>5. SpareInv'
  BY <1>1 DEF BufferInv, SpareInv, Missing
<1>6. EmptyInv' /\ DistinctInv'
  BY <1>1 DEF BufferInv, EmptyInv, DistinctInv
<1> QED
  BY <1>4, <1>5, <1>6 DEF BufferInv

LEMMA RefillKeepsBuffers ==
    ASSUME BufferInv, Refill
    PROVE  BufferInv'
<1> USE LogAssumption
<1> DEFINE k == IF Len(toWrite) > Kept THEN Kept ELSE Len(toWrite)
           spare == SubSeq(toWrite, 1, k)
<1>1. /\ pc = "write" /\ pc' = "top" /\ new1 = Null /\ Len(toWrite) >= Missing
      /\ toWrite \in Seq(Heap) /\ Len(toWrite) \in Nat /\ Kept = 2
  BY DEF Refill, BufferInv, SpareInv, TypeOK, Kept
<1>2. k \in 0 .. Len(toWrite) /\ k >= Missing /\ Missing = (IF new2 = Null THEN 2 ELSE 1)
  BY <1>1 DEF Missing
<1>3. Len(spare) = k /\ \A i \in 1 .. k : spare[i] = toWrite[i]
  BY <1>2, FirstOnes
<1>4. /\ new1' = spare[k]
      /\ new2' = IF new2 = Null THEN spare[k - 1] ELSE new2
  BY <1>1, <1>3 DEF Refill
<1>5. /\ k \in 1 .. Len(toWrite) /\ k \in 1 .. k /\ new1' = toWrite[k]
      /\ new2 = Null => k - 1 \in 1 .. Len(toWrite) /\ k - 1 \in 1 .. k /\ new2' = toWrite[k - 1]
  BY <1>1, <1>2, <1>3, <1>4
<1>6. /\ new1' \in Heap /\ new1' \in ToSet(toWrite) /\ new1' # new2'
      /\ new2' \in Heap /\ (new2' \in ToSet(toWrite) \/ new2' = new2)
  <2>1. new1' \in Heap /\ new1' \in ToSet(toWrite) /\ DOMAIN toWrite = 1 .. Len(toWrite)
    BY <1>1, <1>5 DEF ToSet
  <2>2. CASE new2 = Null
    <3>1. toWrite[k] # toWrite[k - 1]
      <4>1. k # k - 1
        BY <1>5
      <4> QED
        BY <1>5, <2>1, <2>2, <4>1 DEF BufferInv, DistinctInv, IsInjective
    <3> QED
      BY <1>1, <1>5, <2>1, <2>2, <3>1 DEF ToSet
  <2>3. CASE new2 # Null
    <3>1. new2' = new2 /\ new2 \notin ToSet(toWrite) /\ new2 \in Heap
      BY <1>4, <2>3 DEF BufferInv, DistinctInv, TypeOK, Buffer
    <3> QED
      BY <2>1, <3>1
  <2> QED
    BY <2>2, <2>3
<1>7. /\ current' = current /\ next' = next /\ buffers' = buffers /\ toWrite' = << >> /\ written' = 0
      /\ data' = [b \in Heap |-> IF b \in {new1', new2'} THEN << >> ELSE data[b]]
      /\ running' = running /\ life' = life /\ file' = file /\ flushed' = Len(file)
      /\ appended' = appended /\ dropped' = dropped /\ owed' = owed
  BY DEF Refill, front, history
<1> HIDE DEF k, spare
<1>8. TypeOK'
  <2>1. << >> \in Seq(Nat) /\ << >> \in Seq(Heap) /\ Len(<< >>) = 0
    OBVIOUS
  <2>2. data' \in [Heap -> Seq(Nat)] /\ \A b \in Heap : Len(data'[b]) < BufferSize
    BY <1>7, <2>1 DEF BufferInv, TypeOK
  <2>3. flushed' \in 0 .. Len(file') /\ written' \in 0 .. Len(toWrite')
    BY <1>7, <2>1 DEF BufferInv, TypeOK
  <2> QED
    BY <1>1, <1>6, <1>7, <2>1, <2>2, <2>3 DEF BufferInv, TypeOK, Buffer
<1>9. SpareInv'
  BY <1>1, <1>6, <1>7 DEF BufferInv, SpareInv
<1>10. EmptyInv'
  <2> SUFFICES ASSUME NEW b \in {next, new1', new2'} \ {Null}
               PROVE  data'[b] = << >>
    BY <1>7 DEF EmptyInv
  <2>1. b \in Heap
    BY <1>6 DEF BufferInv, TypeOK, Buffer
  <2> QED
    BY <1>7, <2>1 DEF BufferInv, EmptyInv
<1>11. DistinctInv'
  <2>1. ToSet(toWrite') = {} /\ IsInjective(toWrite')
    BY <1>7, EmptySequence
  <2>2. {new1', new2'} \cap ({current} \cup ToSet(buffers)) = {}
    BY <1>6 DEF BufferInv, DistinctInv
  <2>3. next # Null => next \notin {new1', new2'}
    BY <1>6 DEF BufferInv, DistinctInv
  <2> QED
    BY <1>6, <1>7, <2>1, <2>2, <2>3 DEF BufferInv, DistinctInv
<1> QED
  BY <1>8, <1>9, <1>10, <1>11 DEF BufferInv

(* A buffer is never in two places, never too full, and there is always one to
   go on with. *)
LEMMA BuffersKept ==
    ASSUME Endless
    PROVE  Spec => []BufferInv
<1> USE LogAssumption
<1>1. Init => BufferInv
  <2> SUFFICES ASSUME Init
               PROVE  BufferInv
    OBVIOUS
  <2>1. current \in Heap /\ next \in Heap /\ next # current
    <3>1. \E b \in Heap : TRUE
      BY MemoryLeft, FS_EmptySet
    <3>2. current \in Heap
      BY <3>1 DEF Init
    <3>3. IsFiniteSet({current})
      BY FS_Singleton
    <3>4. \E b \in Heap : b # current
      BY <3>3, MemoryLeft
    <3> QED
      BY <3>2, <3>4 DEF Init
  <2>2. << >> \in Seq(Nat) /\ << >> \in Seq(Heap) /\ Len(<< >>) = 0
    OBVIOUS
  <2>3. TypeOK
    BY <2>1, <2>2 DEF Init, TypeOK, Buffer
  <2>4. SpareInv
    BY <2>1 DEF Init, SpareInv
  <2>5. EmptyInv
    BY <2>1 DEF Init, EmptyInv
  <2>6. DistinctInv
    BY <2>1, EmptySequence DEF Init, DistinctInv
  <2> QED
    BY <2>3, <2>4, <2>5, <2>6 DEF BufferInv
<1>2. BufferInv /\ PhaseInv /\ [Next]_vars => BufferInv'
  <2> SUFFICES ASSUME BufferInv, PhaseInv, [Next]_vars
               PROVE  BufferInv'
    OBVIOUS
  <2> USE DEF BufferInv
  <2> DEFINE same == UNCHANGED <<front, new1, new2, toWrite, written, data, dropped, appended, file>>
  <2>1. ASSUME same, UNCHANGED pc \/ (pc \notin {"cut", "write"} /\ pc' \notin {"cut", "write"}),
               pc' \in {"top", "lock", "wait"} => pc \in {"top", "lock", "wait"},
               pc' \in {"none", "begin", "allocate", "top", "lock", "wait", "cut", "write", "finish", "end"},
               running' \in BOOLEAN, life' \in {"new", "starting", "up", "stopping", "stopped"},
               flushed' \in 0 .. Len(file), owed' \in 0 .. appended
        PROVE  BufferInv'
    <3>1. TypeOK'
      BY <2>1 DEF TypeOK, front
    <3>2. SpareInv'
      BY <2>1 DEF SpareInv, Missing, front
    <3>3. EmptyInv' /\ DistinctInv'
      BY <2>1 DEF EmptyInv, DistinctInv, front
    <3> QED
      BY <3>1, <3>2, <3>3
  <2>2. TypeOK
    OBVIOUS
  <2> HIDE DEF BufferInv
  <2>3. CASE Start
    <3>1. pc = "none" /\ pc' = "begin"
      BY <2>3 DEF Start, PhaseInv
    <3> QED
      BY <2>1, <2>2, <2>3, <3>1 DEF Start, TypeOK, back, output, history
  <2>4. CASE Started
    BY <2>1, <2>2, <2>4 DEF Started, TypeOK, back, output, history
  <2>5. CASE AppendMessage
    BY <2>5, AppendKeepsBuffers
  <2>6. CASE Stop
    <3>1. owed' \in 0 .. appended
      BY <2>2, <2>6 DEF Stop, TypeOK
    <3> QED
      BY <2>1, <2>2, <2>6, <3>1 DEF Stop, TypeOK, back, output, history
  <2>7. CASE Join
    BY <2>1, <2>2, <2>7 DEF Join, TypeOK, back, output, history
  <2>8. CASE ThreadStart
    BY <2>1, <2>2, <2>8 DEF ThreadStart, TypeOK, back, output, history
  <2>9. CASE Allocate
    BY <2>9, AllocateKeepsBuffers
  <2>10. CASE Top
    <3>1. pc = "top" /\ pc' \in {"lock", "finish"}
      BY <2>10 DEF Top
    <3> QED
      BY <2>1, <2>2, <2>10, <3>1 DEF Top, TypeOK, back, output, history
  <2>11. CASE Wait
    BY <2>1, <2>2, <2>11 DEF Wait, TypeOK, back, output, history
  <2>12. CASE Swap
    BY <2>12, SwapKeepsBuffers
  <2>13. CASE Cut
    BY <2>13, CutKeepsBuffers
  <2>14. CASE WriteBuffer
    BY <2>14, WriteKeepsBuffers
  <2>15. CASE Refill
    BY <2>15, RefillKeepsBuffers
  <2>16. CASE Finish
    <3>1. /\ pc = "finish" /\ pc' = "end" /\ new1' = Null /\ new2' = Null
          /\ current' = current /\ next' = next /\ buffers' = buffers
          /\ toWrite' = toWrite /\ written' = written /\ data' = data /\ running' = running
          /\ life' = life /\ file' = file /\ flushed' = Len(file)
          /\ appended' = appended /\ dropped' = dropped /\ owed' = owed
      BY <2>16 DEF Finish, front, history
    <3>2. TypeOK'
      BY <2>2, <3>1 DEF TypeOK, Buffer
    <3>3. SpareInv'
      BY <3>1 DEF BufferInv, SpareInv
    <3>4. EmptyInv'
      BY <3>1 DEF BufferInv, EmptyInv
    <3>5. DistinctInv'
      <4>1. Null \notin ToSet(buffers) \cup ToSet(toWrite)
        BY <2>2 DEF TypeOK, ToSet
      <4>2. current # Null
        BY DEF BufferInv, SpareInv
      <4> QED
        BY <3>1, <4>1, <4>2 DEF BufferInv, DistinctInv
    <3> QED
      BY <3>2, <3>3, <3>4, <3>5 DEF BufferInv
  <2>17. CASE UNCHANGED vars
    BY <2>1, <2>2, <2>17 DEF vars, TypeOK, back, output, history
  <2> QED
    BY <2>3, <2>4, <2>5, <2>6, <2>7, <2>8, <2>9, <2>10, <2>11, <2>12, <2>13, <2>14, <2>15, <2>16, <2>17
    DEF Next, Logging
<1> QED
  BY <1>1, <1>2, PhasesAgree, PTL DEF Spec

(* Every variable keeps its kind, and no buffer is filled to its end. *)
THEOREM TypeCorrect ==
    ASSUME Endless
    PROVE  Spec => []TypeOK
<1>1. BufferInv => TypeOK
  BY DEF BufferInv
<1> QED
  BY <1>1, BuffersKept, PTL

(* No buffer is filled by one thread while another writes, empties or keeps it. *)
THEOREM BuffersAreNotShared ==
    ASSUME Endless
    PROVE  Spec => []NoSharing
<1>1. BufferInv => NoSharing
  BY DistinctGivesNoSharing DEF BufferInv
<1> QED
  BY <1>1, BuffersKept, PTL

(* The asserts of threadFunc hold on every pass. *)
THEOREM SparesAreReady ==
    ASSUME Endless
    PROVE  Spec => []SparesReady
<1>1. BufferInv /\ PhaseInv => SparesReady
  BY DEF BufferInv, PhaseInv, SpareInv, EmptyInv, SparesReady
<1> QED
  BY <1>1, BuffersKept, PhasesAgree, PTL

-----------------------------------------------------------------------------
(* Where the messages are. *)

DebtsInv == TotalInv /\ DebtInv

LEMMA SwapCollects ==
    ASSUME BufferInv, TotalInv, Swap
    PROVE  DebtsInv'
<1>1. /\ toWrite = << >> /\ written = 0 /\ pc' = "cut"
      /\ toWrite' = Append(buffers, current) /\ written' = 0
      /\ data' = data /\ file' = file /\ dropped' = dropped /\ appended' = appended /\ owed' = appended
  BY DEF Swap, output, BufferInv, SpareInv
<1>2. /\ DOMAIN toWrite' = 1 .. Len(toWrite') /\ ToSet(toWrite') = ToSet(buffers) \cup {current}
  <2>1. PICK b \in Seq(Heap) : b = buffers
    BY DEF BufferInv, TypeOK
  <2>2. PICK c \in Heap : c = current
    BY DEF BufferInv, SpareInv
  <2>3. Append(b, c) \in Seq(Heap) /\ ToSet(Append(b, c)) = ToSet(b) \cup {c}
    BY Appended
  <2> QED
    BY <1>1, <2>1, <2>2, <2>3
<1>3. ASSUME NEW x \in 1 .. appended
      PROVE  Saved(x)' \/ Collected(x)'
  <2>1. CASE Saved(x)
    BY <1>1, <2>1 DEF Saved
  <2>2. CASE Collected(x)
    BY <1>1, <2>2, EmptySequence DEF Collected
  <2>3. CASE InFront(x)
    <3>1. PICK b \in ToSet(toWrite') : x \in ToSet(data[b])
      BY <1>2, <2>3 DEF InFront
    <3>2. PICK i \in 1 .. Len(toWrite') : toWrite'[i] = b
      BY <1>2 DEF ToSet
    <3>3. i \in written' + 1 .. Len(toWrite')
      BY <1>1, <3>2
    <3> QED
      BY <1>1, <3>1, <3>2, <3>3 DEF Collected
  <2> QED
    BY <2>1, <2>2, <2>3 DEF TotalInv
<1> QED
  BY <1>1, <1>3 DEF DebtsInv, TotalInv, DebtInv

(* Cutting, writing and refilling only move messages from what is collected to the
   file or to what is dropped. *)
LEMMA CutSaves ==
    ASSUME BufferInv, Cut, NEW x, Collected(x)
    PROVE  Saved(x)' \/ Collected(x)'
<1>1. /\ written = 0 /\ written' = 0 /\ data' = data
      /\ toWrite \in Seq(Heap) /\ Len(toWrite) \in Nat /\ Kept = 2
  BY DEF Cut, BufferInv, SpareInv, TypeOK, Kept
<1>2. PICK i \in 1 .. Len(toWrite) : x \in ToSet(data[toWrite[i]])
  BY <1>1 DEF Collected
<1>3. CASE ~ (Len(toWrite) > MaxBuffers)
  BY <1>1, <1>2, <1>3 DEF Cut, Collected
<1>4. CASE Len(toWrite) > MaxBuffers
  <2>1. /\ Kept \in 0 .. Len(toWrite) /\ toWrite' = SubSeq(toWrite, 1, Kept)
        /\ dropped' = dropped \cup MessagesIn(SubSeq(toWrite, Kept + 1, Len(toWrite)))
    BY <1>1, <1>4, LogAssumption DEF Cut
  <2>2. CASE i <= Kept
    <3>1. i \in 1 .. Kept /\ Len(toWrite') = Kept /\ toWrite'[i] = toWrite[i]
      BY <1>2, <2>1, <2>2, FirstOnes
    <3> QED
      BY <1>1, <1>2, <3>1 DEF Collected
  <2>3. CASE i > Kept
    <3>1. PICK w \in Seq(Heap) : w = toWrite
      BY <1>1
    <3>2. ToSet(SubSeq(w, Kept + 1, Len(w))) = {w[j] : j \in Kept + 1 .. Len(w)}
      BY <2>1, <3>1, LastPart
    <3>3. i \in Kept + 1 .. Len(w)
      BY <1>1, <1>2, <2>3, <3>1
    <3>4. toWrite[i] \in ToSet(SubSeq(toWrite, Kept + 1, Len(toWrite)))
      BY <3>1, <3>2, <3>3
    <3>5. x \in dropped'
      BY <1>2, <2>1, <3>4 DEF MessagesIn
    <3> QED
      BY <3>5 DEF Saved
  <2> QED
    BY <1>1, <1>2, <2>2, <2>3
<1> QED
  BY <1>3, <1>4

LEMMA WriteSaves ==
    ASSUME BufferInv, WriteBuffer, NEW x, Saved(x) \/ Collected(x)
    PROVE  Saved(x)' \/ Collected(x)'
<1>1. /\ written' = written + 1 /\ written \in Nat /\ written + 1 \in 1 .. Len(toWrite)
      /\ toWrite' = toWrite /\ data' = data /\ dropped' = dropped
      /\ file' = file \o data[toWrite[written + 1]]
      /\ toWrite \in Seq(Heap) /\ Len(toWrite) \in Nat
  BY DEF WriteBuffer, BufferInv, TypeOK, history
<1>2. ToSet(file') = ToSet(file) \cup ToSet(data[toWrite[written + 1]])
  <2>1. PICK f \in Seq(Nat) : f = file
    BY DEF BufferInv, TypeOK
  <2>2. PICK d \in Seq(Nat) : d = data[toWrite[written + 1]]
    BY <1>1 DEF BufferInv, TypeOK
  <2>3. ToSet(f \o d) = ToSet(f) \cup ToSet(d)
    BY Joined
  <2> QED
    BY <1>1, <2>1, <2>2, <2>3
<1>3. CASE Saved(x)
  BY <1>1, <1>2, <1>3 DEF Saved
<1>4. CASE Collected(x)
  <2>1. PICK i \in written + 1 .. Len(toWrite) : x \in ToSet(data[toWrite[i]])
    BY <1>4 DEF Collected
  <2>2. CASE i = written + 1
    BY <1>2, <2>1, <2>2 DEF Saved
  <2>3. CASE i # written + 1
    <3>1. i \in written' + 1 .. Len(toWrite')
      BY <1>1, <2>1, <2>3
    <3> QED
      BY <1>1, <2>1, <3>1 DEF Collected
  <2> QED
    BY <2>2, <2>3
<1> QED
  BY <1>3, <1>4

LEMMA RefillNothingLeft ==
    ASSUME BufferInv, Refill
    PROVE  /\ \A x : ~ Collected(x)
           /\ \A b \in ToSet(buffers) \cup {current} : data'[b] = data[b]
<1>1. /\ written = Len(toWrite) /\ Len(toWrite) \in Nat
      /\ data' = [b \in Heap |-> IF b \in {new1', new2'} THEN << >> ELSE data[b]]
      /\ current' = current /\ buffers' = buffers
  BY DEF Refill, BufferInv, TypeOK, front
<1>2. \A x : ~ Collected(x)
  BY <1>1 DEF Collected
<1>3. BufferInv'
  BY RefillKeepsBuffers
<1>4. \A b \in ToSet(buffers) \cup {current} : b \notin {new1', new2'}
  BY <1>1, <1>3 DEF BufferInv, DistinctInv
<1>5. ToSet(buffers) \cup {current} \subseteq Heap
  BY DEF BufferInv, SpareInv, TypeOK, ToSet
<1> QED
  BY <1>1, <1>2, <1>4, <1>5

LEMMA AppendKeepsDebts ==
    ASSUME Endless, BufferInv, DebtsInv, AppendMessage
    PROVE  DebtsInv'
<1>1. /\ current' \in Heap
      /\ current' \notin {next', new1, new2} \cup ToSet(buffers') \cup ToSet(toWrite)
      /\ current' = current \/ current' \notin ToSet(buffers) \cup {current}
      /\ ToSet(buffers') \cup {current'} = ToSet(buffers) \cup {current, current'}
  BY AppendEffect
<1>2. PICK old \in Seq(Nat) :
         /\ current' = current => old = data[current]
         /\ data' = [data EXCEPT ![current'] = Append(old, appended + 1)]
  BY AppendEffect
<1>3. /\ toWrite' = toWrite /\ written' = written /\ pc' = pc /\ file' = file
      /\ appended' = appended + 1 /\ dropped' = dropped /\ owed' = owed /\ appended \in Nat
      /\ data \in [Heap -> Seq(Nat)]
  BY DEF AppendMessage, back, output, BufferInv, TypeOK
<1>4. /\ appended + 1 \in ToSet(data'[current'])
      /\ current' = current => ToSet(data[current]) \subseteq ToSet(data'[current'])
  <2>1. data'[current'] = Append(old, appended + 1)
    BY <1>1, <1>2, <1>3
  <2>2. appended + 1 \in Nat
    BY <1>3
  <2>3. ToSet(Append(old, appended + 1)) = ToSet(old) \cup {appended + 1}
    <3>1. PICK n \in Nat : n = appended + 1
      BY <2>2
    <3>2. ToSet(Append(old, n)) = ToSet(old) \cup {n}
      BY Appended
    <3> QED
      BY <3>1, <3>2
  <2> QED
    BY <1>2, <2>1, <2>3
<1>5. \A b \in Heap : b # current' => data'[b] = data[b]
  BY <1>2, <1>3
<1>6. ToSet(toWrite) \subseteq Heap /\ ToSet(buffers) \cup {current} \subseteq Heap
  BY DEF BufferInv, TypeOK, SpareInv, ToSet
<1>7. ASSUME NEW x, Saved(x) \/ Collected(x)
      PROVE  Saved(x)' \/ Collected(x)'
  <2>1. CASE Saved(x)
    BY <1>3, <2>1 DEF Saved
  <2>2. CASE Collected(x)
    <3>1. PICK i \in written + 1 .. Len(toWrite) : x \in ToSet(data[toWrite[i]])
      BY <2>2 DEF Collected
    <3>2. toWrite[i] \in ToSet(toWrite)
      BY <3>1 DEF ToSet, BufferInv, TypeOK
    <3>3. data'[toWrite[i]] = data[toWrite[i]]
      BY <1>1, <1>5, <1>6, <3>2
    <3> QED
      BY <1>3, <3>1, <3>3 DEF Collected
  <2> QED
    BY <1>7, <2>1, <2>2
<1>8. ASSUME NEW x, InFront(x)
      PROVE  InFront(x)'
  <2>1. PICK b \in ToSet(buffers) \cup {current} : x \in ToSet(data[b])
    BY <1>8 DEF InFront
  <2>2. b \in ToSet(buffers') \cup {current'}
    BY <1>1
  <2>3. x \in ToSet(data'[b])
    <3>1. CASE b = current'
      BY <1>1, <1>4, <2>1, <3>1
    <3>2. CASE b # current'
      BY <1>5, <1>6, <2>1, <3>2
    <3> QED
      BY <3>1, <3>2
  <2> QED
    BY <2>2, <2>3 DEF InFront
<1>9. TotalInv'
  <2> SUFFICES ASSUME NEW x \in 1 .. appended + 1
               PROVE  Saved(x)' \/ Collected(x)' \/ InFront(x)'
    BY <1>3 DEF TotalInv
  <2>1. CASE x = appended + 1
    BY <1>4, <2>1 DEF InFront
  <2>2. CASE x # appended + 1
    <3>1. x \in 1 .. appended
      BY <1>3, <2>2
    <3> QED
      BY <1>7, <1>8, <3>1 DEF DebtsInv, TotalInv
  <2> QED
    BY <2>1, <2>2
<1>10. DebtInv'
  BY <1>3, <1>7 DEF DebtsInv, DebtInv
<1> QED
  BY <1>9, <1>10 DEF DebtsInv

LEMMA DebtsKept ==
    ASSUME Endless
    PROVE  Spec => []DebtsInv
<1>1. Init => DebtsInv
  BY DEF Init, DebtsInv, TotalInv, DebtInv
<1>2. BufferInv /\ BufferInv' /\ PhaseInv /\ DebtsInv /\ [Next]_vars => DebtsInv'
  <2> SUFFICES ASSUME BufferInv, BufferInv', PhaseInv, DebtsInv, [Next]_vars
               PROVE  DebtsInv'
    OBVIOUS
  <2>1. ASSUME UNCHANGED <<buffers, current, appended>>,
               \A b \in ToSet(buffers) \cup {current} : data'[b] = data[b],
               \A x : Saved(x) \/ Collected(x) => Saved(x)' \/ Collected(x)',
               (pc \notin {"lock", "wait"} /\ owed' = owed) \/ pc' \in {"lock", "wait"}
        PROVE  DebtsInv'
    <3>1. \A x : InFront(x) => InFront(x)'
      BY <2>1 DEF InFront
    <3>2. TotalInv'
      BY <2>1, <3>1 DEF DebtsInv, TotalInv
    <3>3. DebtInv'
      BY <2>1 DEF DebtsInv, DebtInv
    <3> QED
      BY <3>2, <3>3 DEF DebtsInv
  <2> DEFINE same == UNCHANGED <<front, toWrite, written, data, appended, dropped, file>>
  <2>2. ASSUME same, (pc \notin {"lock", "wait"} /\ owed' = owed) \/ pc' \in {"lock", "wait"}
        PROVE  DebtsInv'
    <3>1. \A x : Saved(x) \/ Collected(x) => Saved(x)' \/ Collected(x)'
      BY <2>2 DEF Saved, Collected
    <3> QED
      BY <2>1, <2>2, <3>1 DEF front
  <2>3. CASE Start
    BY <2>2, <2>3 DEF Start, PhaseInv, back, output, history
  <2>4. CASE Started
    BY <2>2, <2>4 DEF Started, back, output, history
  <2>5. CASE AppendMessage
    BY <2>5, AppendKeepsDebts
  <2>6. CASE Stop
    BY <2>2, <2>6 DEF Stop, back, output
  <2>7. CASE Join
    BY <2>2, <2>7 DEF Join, back, output, history
  <2>8. CASE ThreadStart
    BY <2>2, <2>8 DEF ThreadStart, back, output, history
  <2>9. CASE Allocate
    <3>1. /\ pc = "allocate" /\ toWrite' = toWrite /\ toWrite = << >> /\ written = 0 /\ written' = 0
          /\ buffers' = buffers /\ current' = current /\ appended' = appended /\ owed' = owed
          /\ file' = file /\ dropped' = dropped
          /\ data' = [data EXCEPT ![new1'] = << >>, ![new2'] = << >>]
      BY <2>9 DEF Allocate, front, output, history, BufferInv, SpareInv
    <3>2. \A b \in ToSet(buffers) \cup {current} : b \notin {new1', new2'} /\ b \in Heap
      <4>1. \A b \in ToSet(buffers) \cup {current} : b \notin {new1', new2'}
        BY <3>1 DEF BufferInv, DistinctInv
      <4>2. ToSet(buffers) \cup {current} \subseteq Heap
        <5>1. buffers \in Seq(Heap) /\ current \in Heap
          BY DEF BufferInv, SpareInv, TypeOK
        <5>2. \A s \in Seq(Heap) : ToSet(s) \subseteq Heap
          BY DEF ToSet
        <5> QED
          BY <5>1, <5>2
      <4> QED
        BY <4>1, <4>2
    <3>3. \A b \in ToSet(buffers) \cup {current} : data'[b] = data[b]
      BY <3>1, <3>2 DEF BufferInv, TypeOK
    <3>4. \A x : ~ Collected(x)
      BY <3>1, EmptySequence DEF Collected
    <3>5. \A x : Saved(x) => Saved(x)'
      BY <3>1 DEF Saved
    <3> QED
      BY <2>1, <3>1, <3>3, <3>4, <3>5
  <2>10. CASE Top
    <3>1. pc = "top"
      BY <2>10 DEF Top
    <3> QED
      BY <2>2, <2>10, <3>1 DEF Top, back, output, history
  <2>11. CASE Wait
    BY <2>2, <2>11 DEF Wait, back, output, history
  <2>12. CASE Swap
    BY <2>12, SwapCollects DEF DebtsInv
  <2>13. CASE Cut
    <3>1. /\ pc = "cut" /\ UNCHANGED <<buffers, current, appended, owed, data>>
      BY <2>13 DEF Cut, front
    <3>2. ToSet(file) \subseteq ToSet(file') /\ dropped \subseteq dropped'
      <4>1. CASE file' = file
        BY <2>13, <4>1 DEF Cut
      <4>2. CASE file' = Append(file, Announcement)
        <5>1. PICK f \in Seq(Nat) : f = file
          BY DEF BufferInv, TypeOK
        <5>2. ToSet(Append(f, Announcement)) = ToSet(f) \cup {Announcement}
          BY Appended DEF Announcement
        <5> QED
          BY <2>13, <4>2, <5>1, <5>2 DEF Cut
      <4> QED
        BY <2>13, <4>1, <4>2 DEF Cut, output
    <3>3. \A x : Saved(x) => Saved(x)'
      BY <3>2 DEF Saved
    <3>4. \A x : Collected(x) => Saved(x)' \/ Collected(x)'
      BY <2>13, CutSaves
    <3> QED
      BY <2>1, <3>1, <3>3, <3>4
  <2>14. CASE WriteBuffer
    <3>1. /\ pc = "write" /\ UNCHANGED <<buffers, current, appended, owed, data>>
      BY <2>14 DEF WriteBuffer, front, history
    <3>2. \A x : Saved(x) \/ Collected(x) => Saved(x)' \/ Collected(x)'
      BY <2>14, WriteSaves
    <3> QED
      BY <2>1, <3>1, <3>2
  <2>15. CASE Refill
    <3>1. /\ pc = "write" /\ UNCHANGED <<buffers, current, appended, owed, file, dropped>>
      BY <2>15 DEF Refill, front, history
    <3>2. \A x : Saved(x) => Saved(x)'
      BY <3>1 DEF Saved
    <3> QED
      BY <2>1, <2>15, <3>1, <3>2, RefillNothingLeft
  <2>16. CASE Finish
    <3>1. pc = "finish"
      BY <2>16 DEF Finish
    <3> QED
      BY <2>2, <2>16, <3>1 DEF Finish, history
  <2>17. CASE UNCHANGED vars
    BY <2>2, <2>17 DEF vars, back, output, history
  <2> QED
    BY <2>3, <2>4, <2>5, <2>6, <2>7, <2>8, <2>9, <2>10, <2>11, <2>12, <2>13, <2>14, <2>15, <2>16, <2>17
    DEF Next, Logging
<1> QED
  BY <1>1, <1>2, PhasesAgree, BuffersKept, PTL DEF Spec

(* What stop promised is in the file, or announced as missing, once it returns. *)
THEOREM StopSavesItsDebt ==
    ASSUME Endless
    PROVE  Spec => []StopKeepsItsDebt
<1>1. BufferInv /\ PhaseInv /\ DebtsInv => StopKeepsItsDebt
  <2> SUFFICES ASSUME BufferInv, PhaseInv, DebtsInv, life = "stopped", NEW x \in 1 .. owed
               PROVE  x \in dropped \cup ToSet(file)
    BY DEF StopKeepsItsDebt
  <2>1. pc = "end" /\ toWrite = << >> /\ written = 0
    BY DEF PhaseInv, BufferInv, SpareInv
  <2>2. Saved(x) \/ Collected(x)
    BY <2>1 DEF DebtsInv, DebtInv
  <2>3. ~ Collected(x)
    BY <2>1, EmptySequence DEF Collected
  <2> QED
    BY <2>2, <2>3 DEF Saved
<1> QED
  BY <1>1, BuffersKept, PhasesAgree, DebtsKept, PTL

-----------------------------------------------------------------------------
(* The order of the messages. *)

In(b) == ToSet(data[b])
Below(S, T) == \A x \in S, y \in T : x < y

(* b comes before c among the buffers that are not yet written. *)
Ahead(b, c) ==
    \/ \E i, j \in written + 1 .. Len(toWrite) : i < j /\ b = toWrite[i] /\ c = toWrite[j]
    \/ \E i \in written + 1 .. Len(toWrite) : b = toWrite[i] /\ c \in ToSet(buffers) \cup {current}
    \/ \E i, j \in DOMAIN buffers : i < j /\ b = buffers[i] /\ c = buffers[j]
    \/ b \in ToSet(buffers) /\ c = current

(* Messages are in order inside each buffer and from one to the next. *)
OrderInv ==
    /\ \A b \in Queued : Log!Increasing(data[b]) /\ In(b) \subseteq 1 .. appended
    /\ \A b, c : Ahead(b, c) => Below(In(b), In(c))

(* What waits is younger than all that is written. *)
FileInv ==
    /\ ToSet(file) \subseteq 0 .. appended
    /\ Below(ToSet(file), Waiting)

(* There is something in every buffer the front has left, and in current if it has left
   any; so there is in those that may be thrown away. *)
FilledInv ==
    /\ \A b \in ToSet(buffers) : data[b] # << >>
    /\ buffers # << >> => data[current] # << >>
    /\ pc = "cut" /\ Len(toWrite) > 1 => \A b \in ToSet(toWrite) : data[b] # << >>

LogInv == OrderInv /\ FileInv /\ FilledInv /\ DropsAnnounced

LEMMA QueuedInHeap ==
    ASSUME BufferInv
    PROVE  /\ Queued \subseteq Heap /\ ToSet(buffers) \cup {current} \subseteq Queued
           /\ \A b \in Queued : data[b] \in Seq(Nat) /\ Len(data[b]) \in Nat
           /\ \A b \in Queued : b \notin {next, new1, new2}
<1>1. /\ current \in Heap /\ buffers \in Seq(Heap) /\ toWrite \in Seq(Heap)
      /\ written \in 0 .. Len(toWrite) /\ data \in [Heap -> Seq(Nat)]
  BY DEF BufferInv, TypeOK, SpareInv
<1>2. ToSet(buffers) \subseteq Heap
  BY <1>1 DEF ToSet
<1>3. \A i \in written + 1 .. Len(toWrite) : toWrite[i] \in Heap /\ toWrite[i] \in ToSet(toWrite)
  BY <1>1 DEF ToSet
<1>4. Queued \subseteq Heap
  BY <1>1, <1>2, <1>3 DEF Queued
<1>5. \A b \in Queued : b \in ToSet(toWrite) \cup ToSet(buffers) \cup {current}
  BY <1>3 DEF Queued
<1>6. \A b \in Queued : b \notin {next, new1, new2}
  BY <1>5 DEF BufferInv, DistinctInv
<1> QED
  BY <1>1, <1>4, <1>6 DEF Queued

LEMMA AheadInQueue ==
    ASSUME BufferInv
    PROVE  \A b, c : Ahead(b, c) => b \in Queued /\ c \in Queued
BY DEF Ahead, Queued, ToSet

(* A step of the logging thread only takes messages out of the queue of buffers. *)
LEMMA QueueShrinks ==
    ASSUME OrderInv, appended' = appended,
           \A b \in Queued' : data'[b] = << >> \/ (b \in Queued /\ data'[b] = data[b]),
           \A b, c : Ahead(b, c)' => b \in Queued' /\ c \in Queued',
           \A b, c : Ahead(b, c)' => Ahead(b, c) \/ data'[b] = << >> \/ data'[c] = << >>
    PROVE  OrderInv' /\ Waiting' \subseteq Waiting
<1>1. \A b \in Queued' : In(b)' = {} \/ (b \in Queued /\ In(b)' = In(b))
  BY EmptySequence DEF In
<1>2. \A b \in Queued' : Log!Increasing(data[b])' /\ (In(b) \subseteq 1 .. appended)'
  <2> SUFFICES ASSUME NEW b \in Queued'
               PROVE  Log!Increasing(data'[b]) /\ In(b)' \subseteq 1 .. appended
    OBVIOUS
  <2>1. CASE data'[b] = << >>
    BY <2>1, EmptySequence DEF Log!Increasing, In
  <2>2. CASE b \in Queued /\ data'[b] = data[b]
    BY <2>2 DEF OrderInv, In
  <2> QED
    BY <2>1, <2>2
<1>3. ASSUME NEW b, NEW c, Ahead(b, c)'
      PROVE  Below(In(b), In(c))'
  <2>1. CASE data'[b] = << >> \/ data'[c] = << >>
    BY <2>1, EmptySequence DEF In, Below
  <2>2. CASE Ahead(b, c) /\ data'[b] # << >> /\ data'[c] # << >>
    <3>1. data'[b] = data[b] /\ data'[c] = data[c]
      BY <1>3, <2>2
    <3> QED
      BY <2>2, <3>1 DEF OrderInv, In, Below
  <2> QED
    BY <1>3, <2>1, <2>2
<1>4. Waiting' \subseteq Waiting
  BY <1>1 DEF Waiting, In
<1> QED
  BY <1>2, <1>3, <1>4 DEF OrderInv

(* The message goes to the end of the last buffer, or of a new one behind it. *)
LEMMA AppendQueue ==
    ASSUME Endless, BufferInv, AppendMessage
    PROVE  \/ /\ current' = current /\ buffers' = buffers
              /\ data' = [data EXCEPT ![current] = Append(data[current], appended + 1)]
           \/ /\ buffers' = Append(buffers, current) /\ data[current] # << >>
              /\ current' \in Heap /\ current' \notin Queued
              /\ data' = [data EXCEPT ![current'] = Append(<< >>, appended + 1)]
<1>1. /\ current \in Heap /\ data[current] \in Seq(Nat) /\ Len(data[current]) \in Nat
  BY DEF BufferInv, TypeOK, SpareInv
<1>2. ToSet(Pointers) = {current, next, new1, new2} \cup ToSet(buffers) \cup ToSet(toWrite)
  BY PointerSet DEF BufferInv
<1>3. data' = [data EXCEPT ![current'] = Append(IF Unused(current') THEN << >> ELSE data[current'], appended + 1)]
  BY DEF AppendMessage
<1>4. CASE Fits(current)
  <2>1. current' = current /\ buffers' = buffers
    BY <1>4 DEF AppendMessage, front
  <2>2. ~ Unused(current')
    BY <1>2, <2>1 DEF Unused
  <2> QED
    BY <1>3, <2>1, <2>2
<1>5. CASE ~ Fits(current)
  <2>1. /\ buffers' = Append(buffers, current)
        /\ current' = IF next # Null THEN next ELSE NewBuffer
    BY <1>5 DEF AppendMessage
  <2>2. data[current] # << >>
    <3>1. Len(data[current]) # 0
      BY <1>1, <1>5, LogAssumption DEF Fits
    <3> QED
      BY <3>1, EmptySequence
  <2>3. current' \in Heap /\ current' \notin Queued /\ (Unused(current') \/ data[current'] = << >>)
    <3>1. CASE next # Null
      <4>1. next \in Heap /\ data[next] = << >>
        BY <3>1 DEF BufferInv, TypeOK, EmptyInv, Buffer
      <4> QED
        BY <2>1, <3>1, <4>1, QueuedInHeap
    <3>2. CASE next = Null
      <4>1. current' = NewBuffer /\ Unused(current')
        BY <2>1, <3>2, NewMemory DEF BufferInv
      <4>2. Queued \subseteq ToSet(Pointers)
        <5>1. \A i \in written + 1 .. Len(toWrite) : toWrite[i] \in ToSet(toWrite)
          BY DEF BufferInv, TypeOK, ToSet
        <5> QED
          BY <1>2, <5>1 DEF Queued
      <4> QED
        BY <4>1, <4>2 DEF Unused
    <3> QED
      BY <3>1, <3>2
  <2>4. (IF Unused(current') THEN << >> ELSE data[current']) = << >>
    BY <2>3
  <2> QED
    BY <1>3, <2>1, <2>2, <2>3, <2>4
<1> QED
  BY <1>4, <1>5

(* The new message is behind all that waits; for the rest the order stays. *)
LEMMA AppendAhead ==
    ASSUME Endless, BufferInv, AppendMessage
    PROVE  /\ Queued' = Queued \cup {current'}
           /\ \A b, c : Ahead(b, c)' => /\ b \in Queued /\ b # current'
                                        /\ c \in Queued => Ahead(b, c)
                                        /\ c \notin Queued => c = current'
<1>1. /\ toWrite' = toWrite /\ written' = written
      /\ current \in Heap /\ buffers \in Seq(Heap) /\ Len(buffers) \in Nat /\ DOMAIN buffers = 1 .. Len(buffers)
  BY DEF AppendMessage, back, BufferInv, TypeOK, SpareInv
<1>2. \A i \in written + 1 .. Len(toWrite) : toWrite[i] \in ToSet(toWrite)
  BY DEF BufferInv, TypeOK, ToSet
<1>3. /\ current \notin ToSet(buffers) \cup ToSet(toWrite)
  BY DEF BufferInv, DistinctInv
<1>4. CASE current' = current /\ buffers' = buffers
  <2>1. Queued' = Queued /\ current' \in Queued
    BY <1>1, <1>4 DEF Queued
  <2>2. \A b, c : Ahead(b, c)' <=> Ahead(b, c)
    BY <1>1, <1>4 DEF Ahead
  <2>3. \A b, c : Ahead(b, c) => b # current
    BY <1>2, <1>3 DEF Ahead, ToSet
  <2> QED
    BY <1>4, <2>1, <2>2, <2>3, AheadInQueue
<1>5. CASE /\ buffers' = Append(buffers, current) /\ current' \notin Queued
  <2>1. PICK bs \in Seq(Heap) : bs = buffers
    BY <1>1
  <2>2. /\ ToSet(Append(bs, current)) = ToSet(bs) \cup {current}
        /\ DOMAIN Append(bs, current) = 1 .. Len(bs) + 1
        /\ \A i \in 1 .. Len(bs) + 1 : Append(bs, current)[i] = IF i = Len(bs) + 1 THEN current ELSE bs[i]
    <3>1. PICK c \in Heap : c = current
      BY <1>1
    <3>2. ToSet(Append(bs, c)) = ToSet(bs) \cup {c}
      BY Appended
    <3>3. /\ DOMAIN Append(bs, c) = 1 .. Len(bs) + 1
          /\ \A i \in 1 .. Len(bs) + 1 : Append(bs, c)[i] = IF i = Len(bs) + 1 THEN c ELSE bs[i]
      OBVIOUS
    <3> QED
      BY <3>1, <3>2, <3>3
  <2>3. ToSet(buffers') = ToSet(buffers) \cup {current}
    BY <1>5, <2>1, <2>2
  <2>4. Queued' = Queued \cup {current'}
    BY <1>1, <2>3 DEF Queued
  <2>5. ASSUME NEW b, NEW c,
               \E i, j \in DOMAIN buffers' : i < j /\ b = buffers'[i] /\ c = buffers'[j]
        PROVE  Ahead(b, c)
    <3>1. PICK i \in DOMAIN buffers', j \in DOMAIN buffers' : i < j /\ b = buffers'[i] /\ c = buffers'[j]
      BY <2>5
    <3>2. /\ i \in 1 .. Len(buffers) /\ b = buffers[i]
          /\ j \in 1 .. Len(buffers) + 1 /\ c = IF j = Len(buffers) + 1 THEN current ELSE buffers[j]
      BY <1>1, <1>5, <2>1, <2>2, <3>1
    <3>3. CASE j = Len(buffers) + 1
      BY <1>1, <3>2, <3>3 DEF Ahead, ToSet
    <3>4. CASE j # Len(buffers) + 1
      <4>1. j \in 1 .. Len(buffers) /\ c = buffers[j]
        BY <1>1, <3>2, <3>4
      <4> QED
        BY <1>1, <3>1, <3>2, <4>1 DEF Ahead
    <3> QED
      BY <3>3, <3>4
  <2>6. \A b, c : Ahead(b, c)' => Ahead(b, c) \/ (b \in Queued /\ c = current')
    BY <1>1, <2>3, <2>5 DEF Ahead, Queued
  <2> QED
    BY <1>5, <2>4, <2>6, AheadInQueue
<1> QED
  BY <1>4, <1>5, AppendQueue

LEMMA AppendKeepsLog ==
    ASSUME Endless, BufferInv, LogInv, AppendMessage
    PROVE  LogInv' /\ Log!Accept
<1> DEFINE n == appended + 1
<1>1. /\ toWrite' = toWrite /\ written' = written /\ pc' = pc /\ file' = file /\ dropped' = dropped
      /\ appended' = n /\ appended \in Nat /\ data \in [Heap -> Seq(Nat)] /\ current \in Heap
  BY DEF AppendMessage, back, output, BufferInv, TypeOK, SpareInv
<1>2. PICK old \in Seq(Nat) :
         /\ current' \in Heap /\ data' = [data EXCEPT ![current'] = Append(old, n)]
         /\ current' \in Queued => old = data[current']
         /\ current' \notin Queued => old = << >>
         /\ ToSet(buffers') \cup {current'} = ToSet(buffers) \cup {current, current'}
         /\ \A b \in ToSet(buffers') : b \in ToSet(buffers) \/ (b = current /\ data[current] # << >>)
         /\ \A b \in ToSet(buffers') : b \in Queued /\ b # current'
  <2>1. current \in Queued /\ data[current] \in Seq(Nat)
    BY <1>1 DEF Queued
  <2>2. /\ current' \notin ToSet(buffers')
        /\ ToSet(buffers') \cup {current'} = ToSet(buffers) \cup {current, current'}
    BY AppendEffect
  <2>3. CASE /\ current' = current /\ buffers' = buffers
             /\ data' = [data EXCEPT ![current] = Append(data[current], n)]
    BY <1>1, <2>1, <2>2, <2>3, QueuedInHeap
  <2>4. CASE /\ buffers' = Append(buffers, current) /\ data[current] # << >>
             /\ current' \in Heap /\ current' \notin Queued
             /\ data' = [data EXCEPT ![current'] = Append(<< >>, n)]
    <3>1. \A b \in ToSet(buffers') : b \in ToSet(buffers) \cup {current}
      BY <2>2
    <3>2. << >> \in Seq(Nat)
      OBVIOUS
    <3> QED
      BY <1>1, <2>1, <2>2, <2>4, <3>1, <3>2, QueuedInHeap
  <2> QED
    BY <2>3, <2>4, AppendQueue
<1>3. /\ data'[current'] = Append(old, n) /\ ToSet(data'[current']) = ToSet(old) \cup {n}
      /\ data'[current'] # << >>
  <2>1. data'[current'] = Append(old, n)
    BY <1>1, <1>2
  <2>2. PICK m \in Nat : m = n
    BY <1>1
  <2>3. ToSet(Append(old, m)) = ToSet(old) \cup {m} /\ Len(Append(old, m)) = Len(old) + 1 /\ Len(old) \in Nat
    BY Appended
  <2>4. Append(old, m) # << >>
    BY <2>3, EmptySequence
  <2> QED
    BY <2>1, <2>2, <2>3, <2>4 DEF In
<1>4. \A b \in Heap : b # current' => data'[b] = data[b] /\ In(b)' = In(b)
  BY <1>1, <1>2 DEF In
<1>5. Queued \subseteq Heap
  BY QueuedInHeap
<1>6. Queued' = Queued \cup {current'}
  BY AppendAhead
<1>7. ToSet(old) \subseteq 1 .. appended /\ Log!Increasing(old)
  BY <1>2, EmptySequence DEF LogInv, OrderInv, In, Log!Increasing
<1>8. Waiting' = Waiting \cup {n}
  <2>1. current' \in Queued => ToSet(old) = In(current')
    BY <1>2 DEF In
  <2>2. current' \notin Queued => ToSet(old) = {}
    BY <1>2, EmptySequence
  <2>3. Waiting' = UNION {ToSet(data'[b]) : b \in Queued \cup {current'}} /\ Waiting = UNION {In(b) : b \in Queued}
    BY <1>6 DEF Waiting, In
  <2>4. \A b \in Queued : b # current' => In(b)' = In(b)
    BY <1>4, <1>5
  <2> QED
    BY <1>3, <2>1, <2>2, <2>3, <2>4 DEF In
<1>9. OrderInv'
  <2>1. Log!Increasing(data'[current'])
    <3>1. /\ DOMAIN old = 1 .. Len(old) /\ Len(old) \in Nat
          /\ DOMAIN Append(old, n) = 1 .. Len(old) + 1
          /\ \A i \in 1 .. Len(old) + 1 : Append(old, n)[i] = IF i = Len(old) + 1 THEN n ELSE old[i]
      BY <1>1
    <3>2. \A i \in 1 .. Len(old) : old[i] \in 1 .. appended
      BY <1>7, <3>1 DEF ToSet
    <3> QED
      BY <1>1, <1>3, <1>7, <3>1, <3>2 DEF Log!Increasing
  <2>2. \A b \in Queued : In(b) \subseteq 1 .. appended
    BY DEF LogInv, OrderInv
  <2>3. \A b \in Queued' : Log!Increasing(data'[b]) /\ In(b)' \subseteq 1 .. n
    <3> SUFFICES ASSUME NEW b \in Queued'
                 PROVE  Log!Increasing(data'[b]) /\ In(b)' \subseteq 1 .. n
      OBVIOUS
    <3>1. CASE b = current'
      <4>1. ToSet(data'[current']) \subseteq 1 .. n
        BY <1>1, <1>3, <1>7
      <4>2. data'[b] = data'[current'] /\ In(b)' = ToSet(data'[current'])
        BY <3>1 DEF In
      <4> QED
        BY <2>1, <4>1, <4>2
    <3>2. CASE b # current'
      <4>1. b \in Queued /\ data'[b] = data[b] /\ In(b)' = In(b)
        BY <1>4, <1>5, <1>6, <3>2
      <4> QED
        BY <1>1, <2>2, <4>1 DEF LogInv, OrderInv
    <3> QED
      BY <3>1, <3>2
  <2>4. ASSUME NEW b, NEW c, Ahead(b, c)'
        PROVE  Below(In(b)', In(c)')
    <3>1. b \in Queued /\ b # current' /\ (c \in Queued => Ahead(b, c)) /\ (c \notin Queued => c = current')
      BY <2>4, AppendAhead
    <3>2. In(b)' = In(b) /\ In(b) \subseteq 1 .. appended
      BY <1>4, <1>5, <2>2, <3>1
    <3>3. CASE c # current'
      <4>1. In(c)' = In(c) /\ Below(In(b), In(c))
        BY <1>4, <1>5, <3>1, <3>3 DEF LogInv, OrderInv
      <4> QED
        BY <3>2, <4>1
    <3>4. CASE c = current'
      <4>1. Below(In(b), ToSet(old))
        <5>1. CASE c \in Queued
          BY <1>2, <3>1, <3>4, <5>1 DEF LogInv, OrderInv, In
        <5>2. CASE c \notin Queued
          BY <1>2, <3>4, <5>2, EmptySequence DEF Below
        <5> QED
          BY <5>1, <5>2
      <4> QED
        <5>1. In(c)' = ToSet(old) \cup {n}
          BY <1>3, <3>4 DEF In
        <5>2. \A x \in In(b)' : x \in 1 .. appended /\ x < n
          BY <1>1, <3>2
        <5> QED
          BY <3>2, <4>1, <5>1, <5>2 DEF Below
    <3> QED
      BY <3>3, <3>4
  <2> QED
    BY <1>1, <2>3, <2>4 DEF OrderInv, Below
<1>10. FileInv'
  BY <1>1, <1>8 DEF LogInv, FileInv, Below
<1>11. FilledInv'
  <2>1. \A b \in ToSet(buffers') : data'[b] # << >>
    BY <1>2, <1>4, <1>5 DEF LogInv, FilledInv
  <2>2. pc = "cut" /\ Len(toWrite) > 1 => \A b \in ToSet(toWrite) : data'[b] # << >>
    <3>1. current' \notin ToSet(toWrite)
      <4>1. current' \notin {next', new1, new2} \cup ToSet(buffers') \cup ToSet(toWrite)
        BY AppendEffect
      <4> QED
        BY <4>1
    <3>2. ToSet(toWrite) \subseteq Heap
      <4>1. toWrite \in Seq(Heap)
        BY DEF BufferInv, TypeOK
      <4> QED
        BY <4>1 DEF ToSet
    <3> QED
      BY <1>4, <3>1, <3>2 DEF LogInv, FilledInv
  <2> QED
    BY <1>1, <1>3, <2>1, <2>2 DEF FilledInv
<1>12. DropsAnnounced'
  BY <1>1 DEF LogInv, DropsAnnounced
<1>13. Log!Accept
  BY <1>1, <1>8 DEF Log!Accept
<1> QED
  BY <1>9, <1>10, <1>11, <1>12, <1>13 DEF LogInv

(* Buffers that are not in the same place have no message in common. *)
LEMMA AheadIsYounger ==
    ASSUME OrderInv, NEW b, NEW c, Ahead(b, c), b \in Queued, c \in Queued, appended \in Nat
    PROVE  /\ \A x \in In(b), y \in In(c) : x < y
           /\ \A x \in In(b) : x \notin In(c)
<1>1. \A x \in In(b), y \in In(c) : x < y
  BY DEF OrderInv, Below
<1>2. In(b) \subseteq Nat
  BY DEF OrderInv
<1> QED
  BY <1>1, <1>2

(* What an announcement says stays true while only younger messages follow. *)
LEMMA AnnouncedStays ==
    ASSUME DropsAnnounced, NEW S, file \in Seq(S), file' \in Seq(S), dropped' = dropped,
           Len(file) <= Len(file'), \A i \in 1 .. Len(file) : file'[i] = file[i],
           \A i \in Len(file) + 1 .. Len(file') : file'[i] # Announcement
    PROVE  DropsAnnounced'
<1>1. /\ DOMAIN file = 1 .. Len(file) /\ Len(file) \in Nat
      /\ DOMAIN file' = 1 .. Len(file') /\ Len(file') \in Nat
  OBVIOUS
<1>2. ASSUME NEW x \in dropped
      PROVE  \E j \in DOMAIN file' : file'[j] = Announcement /\ \A i \in 1 .. j - 1 : file'[i] < x
  <2>1. PICK j \in DOMAIN file : file[j] = Announcement /\ \A i \in 1 .. j - 1 : file[i] < x
    BY DEF DropsAnnounced
  <2>2. j \in DOMAIN file' /\ \A i \in 1 .. j - 1 : i \in 1 .. Len(file)
    BY <1>1, <2>1
  <2> QED
    BY <1>1, <2>1, <2>2
<1>3. ASSUME NEW j \in DOMAIN file', file'[j] = Announcement
      PROVE  \E x \in dropped : \A i \in 1 .. j - 1 : file'[i] < x
  <2>1. j \in DOMAIN file /\ file[j] = Announcement /\ \A i \in 1 .. j - 1 : i \in 1 .. Len(file)
    BY <1>1, <1>3
  <2>2. PICK x \in dropped : \A i \in 1 .. j - 1 : file[i] < x
    BY <2>1 DEF DropsAnnounced
  <2> QED
    BY <2>1, <2>2
<1> QED
  BY <1>2, <1>3 DEF DropsAnnounced

(* The oldest buffer goes to the file. *)
LEMMA WriteKeepsLog ==
    ASSUME BufferInv, LogInv, WriteBuffer
    PROVE  LogInv' /\ Log!Write
<1> DEFINE k == written + 1
           d == data[toWrite[k]]
<1>1. /\ written' = k /\ written \in Nat /\ k \in 1 .. Len(toWrite) /\ pc = "write" /\ pc' = "write"
      /\ toWrite' = toWrite /\ data' = data /\ dropped' = dropped /\ appended' = appended
      /\ current' = current /\ buffers' = buffers /\ file' = file \o d
      /\ toWrite \in Seq(Heap) /\ Len(toWrite) \in Nat /\ appended \in Nat
  BY DEF WriteBuffer, BufferInv, TypeOK, history, front
<1>2. d \in Seq(Nat) /\ file \in Seq(Nat)
  BY <1>1 DEF BufferInv, TypeOK
<1>3. /\ toWrite[k] \in Queued /\ k \in written + 1 .. Len(toWrite)
      /\ In(toWrite[k]) = ToSet(d)
  BY <1>1 DEF Queued, In
<1>4. /\ Queued' = {toWrite[i] : i \in k + 1 .. Len(toWrite)} \cup ToSet(buffers) \cup {current}
      /\ Queued = Queued' \cup {toWrite[k]}
  <2>1. written + 1 .. Len(toWrite) = (k + 1 .. Len(toWrite)) \cup {k}
    BY <1>1
  <2> QED
    BY <1>1, <2>1 DEF Queued
<1>5. \A b \in Queued' : Ahead(toWrite[k], b)
  <2>1. \A i \in k + 1 .. Len(toWrite) : i \in written + 1 .. Len(toWrite) /\ k < i
    BY <1>1
  <2> QED
    BY <1>3, <1>4, <2>1 DEF Ahead
<1>6. \A b, c : Ahead(b, c)' => Ahead(b, c) /\ b \in Queued' /\ c \in Queued'
  <2>1. \A i \in k + 1 .. Len(toWrite) : i \in written + 1 .. Len(toWrite)
    BY <1>1
  <2>2. \A i \in DOMAIN buffers : buffers[i] \in ToSet(buffers)
    BY DEF ToSet
  <2> QED
    BY <1>1, <1>4, <2>1, <2>2 DEF Ahead
<1>7. OrderInv' /\ Waiting' \subseteq Waiting
  BY <1>1, <1>4, <1>6, QueueShrinks DEF LogInv
<1>8. \A b \in Queued' : b \in Queued /\ In(b)' = In(b)
  BY <1>1, <1>4 DEF In
<1>9. \A x \in ToSet(d), y \in Waiting' : x < y
  <2> SUFFICES ASSUME NEW x \in ToSet(d), NEW b \in Queued', NEW y \in In(b)'
               PROVE  x < y
    BY DEF Waiting, In
  <2> QED
    BY <1>1, <1>3, <1>5, <1>8, AheadIsYounger DEF LogInv
<1>10. Waiting = Waiting' \cup ToSet(d)
  <2>1. Waiting = UNION {In(b) : b \in Queued' \cup {toWrite[k]}}
    BY <1>4 DEF Waiting, In
  <2>2. Waiting' = UNION {In(b) : b \in Queued'}
    BY <1>1 DEF Waiting, In
  <2> QED
    BY <1>3, <2>1, <2>2
<1>11. ToSet(d) \subseteq 1 .. appended /\ Log!Increasing(d)
  BY <1>3 DEF LogInv, OrderInv
<1>12. Waiting' = Waiting \ ToSet(d)
  <2>1. \A x \in ToSet(d) : x \notin Waiting'
    BY <1>9, <1>11
  <2> QED
    BY <1>10, <2>1
<1>13. /\ Len(file') = Len(file) + Len(d) /\ Len(file) \in Nat /\ Len(d) \in Nat
       /\ file' \in Seq(Nat) /\ ToSet(file') = ToSet(file) \cup ToSet(d)
       /\ \A i \in 1 .. Len(file) : file'[i] = file[i]
       /\ \A i \in 1 .. Len(d) : file'[Len(file) + i] = d[i]
  <2>1. PICK f \in Seq(Nat) : f = file
    BY <1>2
  <2>2. PICK e \in Seq(Nat) : e = d
    BY <1>2
  <2>3. /\ f \o e \in Seq(Nat) /\ Len(f \o e) = Len(f) + Len(e)
        /\ ToSet(f \o e) = ToSet(f) \cup ToSet(e)
        /\ \A i \in 1 .. Len(f) : (f \o e)[i] = f[i]
        /\ \A i \in 1 .. Len(e) : (f \o e)[Len(f) + i] = e[i]
    BY Joined
  <2>4. Len(f) \in Nat /\ Len(e) \in Nat
    OBVIOUS
  <2> QED
    BY <1>1, <2>1, <2>2, <2>3, <2>4
<1>14. SubSeq(file', Len(file) + 1, Len(file')) = d
  <2>1. PICK g \in Seq(Nat) : g = file'
    BY <1>13
  <2>2. PICK e \in Seq(Nat) : e = d
    BY <1>2
  <2>3. PICK m \in Nat : m = Len(file)
    BY <1>13
  <2>4. /\ Len(g) = m + Len(e) /\ Len(e) \in Nat /\ Len(g) \in Nat
        /\ \A i \in 1 .. Len(e) : g[m + i] = e[i]
    BY <1>13, <2>1, <2>2, <2>3
  <2>5. SubSeq(g, m + 1, Len(g)) = e
    BY <2>4, PartFrom
  <2> QED
    BY <2>1, <2>2, <2>3, <2>5
<1> HIDE DEF d
<1>15. Log!Write
  <2>1. Log!ToSet(d) = ToSet(d)
    BY DEF Log!ToSet, ToSet
  <2> QED
    BY <1>1, <1>9, <1>10, <1>11, <1>12, <1>14, <2>1 DEF Log!Write
<1>16. FileInv'
  <2>1. ToSet(file') \subseteq 0 .. appended
    BY <1>1, <1>11, <1>13 DEF LogInv, FileInv
  <2>2. Below(ToSet(file'), Waiting')
    BY <1>7, <1>9, <1>13 DEF LogInv, FileInv, Below
  <2> QED
    BY <1>1, <2>1, <2>2 DEF FileInv, Below
<1>17. FilledInv'
  BY <1>1 DEF LogInv, FilledInv
<1>18. DropsAnnounced'
  <2>1. ASSUME NEW i \in Len(file) + 1 .. Len(file')
        PROVE  file'[i] # Announcement
    <3>1. i - Len(file) \in 1 .. Len(d) /\ Len(file) + (i - Len(file)) = i
      BY <1>13
    <3>2. file'[i] = d[i - Len(file)]
      BY <1>13, <3>1
    <3>3. d[i - Len(file)] \in ToSet(d)
      BY <1>2, <3>1 DEF ToSet
    <3> QED
      BY <1>11, <3>2, <3>3 DEF Announcement
  <2> QED
    BY <1>1, <1>2, <1>13, <2>1, AnnouncedStays DEF LogInv
<1> QED
  BY <1>7, <1>15, <1>16, <1>17, <1>18 DEF LogInv

(* All but the two oldest buffers are thrown away, behind an announcement. *)
LEMMA CutKeepsLog ==
    ASSUME BufferInv, LogInv, Cut, Len(toWrite) > MaxBuffers
    PROVE  /\ LogInv' /\ Log!Discard
           /\ dropped' = dropped \cup (Waiting \ Waiting')
<1> DEFINE rest == MessagesIn(SubSeq(toWrite, Kept + 1, Len(toWrite)))
<1>1. /\ written = 0 /\ written' = 0 /\ pc = "cut" /\ pc' = "write"
      /\ toWrite' = SubSeq(toWrite, 1, Kept) /\ data' = data /\ appended' = appended
      /\ current' = current /\ buffers' = buffers /\ file' = Append(file, Announcement)
      /\ dropped' = dropped \cup rest
      /\ toWrite \in Seq(Heap) /\ Len(toWrite) \in Nat /\ Kept + 1 \in 1 .. Len(toWrite)
      /\ Kept = 2 /\ appended \in Nat /\ file \in Seq(Nat)
  BY LogAssumption, SMTT(30) DEF Cut, BufferInv, TypeOK, SpareInv, front, Kept
<1>2. /\ Len(toWrite') = Kept /\ \A i \in 1 .. Kept : toWrite'[i] = toWrite[i] /\ i \in 1 .. Len(toWrite)
  <2>1. Kept \in 0 .. Len(toWrite) /\ \A i \in 1 .. Kept : i \in 1 .. Len(toWrite)
    BY <1>1
  <2> QED
    BY <1>1, <2>1, FirstOnes
<1>3. rest = UNION {In(toWrite[i]) : i \in Kept + 1 .. Len(toWrite)}
  <2>1. PICK w \in Seq(Heap) : w = toWrite
    BY <1>1
  <2>2. Kept \in 0 .. Len(w)
    BY <1>1, <2>1
  <2>3. ToSet(SubSeq(w, Kept + 1, Len(w))) = {w[i] : i \in Kept + 1 .. Len(w)}
    BY <2>2, LastPart
  <2> QED
    BY <2>1, <2>3 DEF MessagesIn, In
<1> HIDE DEF rest
<1>4. /\ Queued' = {toWrite[i] : i \in 1 .. Kept} \cup ToSet(buffers) \cup {current}
      /\ Queued = Queued' \cup {toWrite[i] : i \in Kept + 1 .. Len(toWrite)}
  <2>1. /\ written + 1 .. Len(toWrite) = (1 .. Kept) \cup (Kept + 1 .. Len(toWrite))
        /\ written' + 1 .. Len(toWrite') = 1 .. Kept
    BY <1>1, <1>2
  <2>2. {toWrite'[i] : i \in 1 .. Kept} = {toWrite[i] : i \in 1 .. Kept}
    BY <1>2
  <2> QED
    BY <1>1, <2>1, <2>2 DEF Queued
<1>5. ASSUME NEW b \in Queued', NEW i \in Kept + 1 .. Len(toWrite)
      PROVE  \/ Ahead(toWrite[i], b)
             \/ /\ b \in {toWrite[j] : j \in 1 .. Kept}
                /\ \A j \in Kept + 1 .. Len(toWrite) : Ahead(b, toWrite[j])
  <2>1. i \in written + 1 .. Len(toWrite)
    BY <1>1
  <2>2. CASE b \in ToSet(buffers) \cup {current}
    BY <2>1, <2>2 DEF Ahead
  <2>3. CASE b \in {toWrite[j] : j \in 1 .. Kept}
    <3>1. PICK j \in 1 .. Kept : b = toWrite[j]
      BY <2>3
    <3>2. \A l \in Kept + 1 .. Len(toWrite) :
             j \in written + 1 .. Len(toWrite) /\ l \in written + 1 .. Len(toWrite) /\ j < l
      BY <1>1
    <3> QED
      BY <2>3, <3>1, <3>2 DEF Ahead
  <2> QED
    BY <1>4, <2>2, <2>3
<1>6. \A b, c : Ahead(b, c)' => Ahead(b, c) /\ b \in Queued' /\ c \in Queued'
  <2>1. \A i \in 1 .. Kept : i \in written + 1 .. Len(toWrite)
    BY <1>1
  <2>2. \A i \in DOMAIN buffers : buffers[i] \in ToSet(buffers)
    BY DEF ToSet
  <2>3. written' + 1 .. Len(toWrite') = 1 .. Kept
    BY <1>1, <1>2
  <2> QED
    BY <1>1, <1>2, <1>4, <2>1, <2>2, <2>3 DEF Ahead
<1>7. \A b \in Queued' : b \in Queued /\ In(b)' = In(b)
  BY <1>1, <1>4 DEF In
<1>8. OrderInv' /\ Waiting' \subseteq Waiting
  BY <1>1, <1>6, <1>7, QueueShrinks DEF LogInv
<1>9. Waiting = Waiting' \cup rest
  <2>1. Waiting = UNION {In(b) : b \in Queued' \cup {toWrite[i] : i \in Kept + 1 .. Len(toWrite)}}
    BY <1>4 DEF Waiting, In
  <2>2. Waiting' = UNION {In(b) : b \in Queued'}
    BY <1>1 DEF Waiting, In
  <2> QED
    BY <1>3, <2>1, <2>2
<1>10. Waiting \subseteq 1 .. appended
  BY DEF LogInv, OrderInv, Waiting, In
(* What stays is older than all that goes, or younger. *)
<1>11. ASSUME NEW z \in Waiting'
       PROVE  (\A x \in rest : z < x) \/ (\A x \in rest : x < z)
  <2>1. PICK b \in Queued' : z \in In(b)
    BY <1>1 DEF Waiting, In
  <2>2. \A i \in Kept + 1 .. Len(toWrite) : toWrite[i] \in Queued
    BY <1>4
  <2>3. CASE \E i \in Kept + 1 .. Len(toWrite) : ~ Ahead(toWrite[i], b)
    <3>1. \A j \in Kept + 1 .. Len(toWrite) : Ahead(b, toWrite[j])
      BY <1>5, <2>3
    <3>2. \A j \in Kept + 1 .. Len(toWrite) : \A x \in In(toWrite[j]) : z < x
      BY <1>1, <1>7, <2>1, <2>2, <3>1, AheadIsYounger DEF LogInv
    <3> QED
      BY <1>3, <3>2
  <2>4. CASE \A i \in Kept + 1 .. Len(toWrite) : Ahead(toWrite[i], b)
    <3>1. \A j \in Kept + 1 .. Len(toWrite) : \A x \in In(toWrite[j]) : x < z
      BY <1>1, <1>7, <2>1, <2>2, <2>4, AheadIsYounger DEF LogInv
    <3> QED
      BY <1>3, <3>1
  <2> QED
    BY <2>3, <2>4
<1>12. rest \cap Waiting' = {} /\ rest \subseteq Nat /\ Waiting' \subseteq Nat
  <2>1. \A z \in Waiting' : z \notin rest
    BY <1>9, <1>10, <1>11
  <2> QED
    BY <1>9, <1>10, <2>1
<1>13. PICK dead \in rest : TRUE
  <2>1. toWrite[Kept + 1] \in ToSet(toWrite)
    BY <1>1 DEF ToSet
  <2>2. data[toWrite[Kept + 1]] # << >>
    BY <1>1, <2>1 DEF LogInv, FilledInv
  <2>3. data[toWrite[Kept + 1]] \in Seq(Nat)
    BY <1>1 DEF BufferInv, TypeOK
  <2>4. 1 \in DOMAIN data[toWrite[Kept + 1]]
    BY <2>2, <2>3
  <2>5. data[toWrite[Kept + 1]][1] \in In(toWrite[Kept + 1])
    BY <2>4 DEF In, ToSet
  <2>6. Kept + 1 \in Kept + 1 .. Len(toWrite)
    BY <1>1
  <2> QED
    BY <1>3, <2>5, <2>6
<1>14. Log!Discard
  <2>1. Waiting \ Waiting' = rest
    BY <1>9, <1>12
  <2>2. ASSUME NEW x \in rest, NEW y \in rest, NEW z \in Waiting'
        PROVE  ~ (x < z /\ z < y)
    BY <1>11, <1>12
  <2> QED
    BY <1>1, <1>8, <1>13, <2>1, <2>2 DEF Log!Discard, Log!Announcement, Announcement
<1>15. /\ Len(file') = Len(file) + 1 /\ Len(file) \in Nat /\ ToSet(file') = ToSet(file) \cup {Announcement}
       /\ DOMAIN file = 1 .. Len(file) /\ DOMAIN file' = 1 .. Len(file) + 1
       /\ file'[Len(file) + 1] = Announcement
       /\ \A i \in 1 .. Len(file) : file'[i] = file[i]
  <2>1. PICK f \in Seq(Nat) : f = file
    BY <1>1
  <2>2. PICK a \in Nat : a = Announcement
    BY DEF Announcement
  <2>3. ToSet(Append(f, a)) = ToSet(f) \cup {a}
    BY Appended
  <2>4. /\ Len(Append(f, a)) = Len(f) + 1 /\ Len(f) \in Nat
        /\ DOMAIN f = 1 .. Len(f) /\ DOMAIN Append(f, a) = 1 .. Len(f) + 1
        /\ Append(f, a)[Len(f) + 1] = a
        /\ \A i \in 1 .. Len(f) : Append(f, a)[i] = f[i]
    OBVIOUS
  <2> QED
    BY <1>1, <2>1, <2>2, <2>3, <2>4
<1>16. FileInv'
  <2>1. ToSet(file') \subseteq 0 .. appended
    BY <1>1, <1>15 DEF LogInv, FileInv, Announcement
  <2>2. Below(ToSet(file'), Waiting')
    BY <1>8, <1>10, <1>15 DEF LogInv, FileInv, Below, Announcement
  <2> QED
    BY <1>1, <2>1, <2>2 DEF FileInv, Below
<1>17. FilledInv'
  BY <1>1 DEF LogInv, FilledInv
<1>18. \A x \in rest, i \in 1 .. Len(file) : file'[i] < x
  <2>1. \A i \in 1 .. Len(file) : file[i] \in ToSet(file)
    BY <1>15 DEF ToSet
  <2> QED
    BY <1>9, <1>15, <2>1 DEF LogInv, FileInv, Below
<1>19. DropsAnnounced'
  <2>1. ASSUME NEW x \in dropped'
        PROVE  \E j \in DOMAIN file' : file'[j] = Announcement /\ \A i \in 1 .. j - 1 : file'[i] < x
    <3>1. CASE x \in rest
      <4>1. Len(file) + 1 \in DOMAIN file' /\ 1 .. Len(file) + 1 - 1 = 1 .. Len(file)
        BY <1>15
      <4> QED
        BY <1>15, <1>18, <3>1, <4>1
    <3>2. CASE x \in dropped
      <4>1. PICK j \in DOMAIN file : file[j] = Announcement /\ \A i \in 1 .. j - 1 : file[i] < x
        BY <3>2 DEF LogInv, DropsAnnounced
      <4>2. j \in DOMAIN file' /\ \A i \in 1 .. j - 1 : i \in 1 .. Len(file)
        BY <1>15, <4>1
      <4> QED
        BY <1>15, <4>1, <4>2
    <3> QED
      BY <1>1, <2>1, <3>1, <3>2
  <2>2. ASSUME NEW j \in DOMAIN file', file'[j] = Announcement
        PROVE  \E x \in dropped' : \A i \in 1 .. j - 1 : file'[i] < x
    <3>1. CASE j = Len(file) + 1
      <4>1. 1 .. j - 1 = 1 .. Len(file)
        BY <1>15, <3>1
      <4> QED
        BY <1>1, <1>13, <1>18, <4>1
    <3>2. CASE j # Len(file) + 1
      <4>1. j \in DOMAIN file /\ file[j] = Announcement /\ \A i \in 1 .. j - 1 : i \in 1 .. Len(file)
        BY <1>15, <2>2, <3>2
      <4>2. PICK x \in dropped : \A i \in 1 .. j - 1 : file[i] < x
        BY <4>1 DEF LogInv, DropsAnnounced
      <4> QED
        BY <1>1, <1>15, <4>1, <4>2
    <3> QED
      BY <3>1, <3>2
  <2> QED
    BY <2>1, <2>2 DEF DropsAnnounced
<1>20. dropped' = dropped \cup (Waiting \ Waiting')
  BY <1>1, <1>9, <1>12
<1> QED
  BY <1>8, <1>14, <1>16, <1>17, <1>19, <1>20 DEF LogInv

(* A step that leaves the queue of buffers and the file alone. *)
LEMMA SameQueueKeepsLog ==
    ASSUME BufferInv, LogInv, UNCHANGED <<current, buffers, file, appended, dropped>>,
           Queued' = Queued, \A b \in Queued : data'[b] = data[b],
           \A b, c : Ahead(b, c)' => Ahead(b, c),
           pc' # "cut" \/ UNCHANGED <<pc, toWrite, data>>
    PROVE  LogInv' /\ Waiting' = Waiting
<1>1. \A b, c : Ahead(b, c)' => Ahead(b, c) /\ b \in Queued' /\ c \in Queued'
  BY AheadInQueue
<1>2. OrderInv'
  BY <1>1, QueueShrinks DEF LogInv
<1>3. Waiting' = Waiting
  BY DEF Waiting
<1>4. FileInv'
  BY <1>3 DEF LogInv, FileInv, Below
<1>5. FilledInv'
  BY QueuedInHeap DEF LogInv, FilledInv
<1>6. DropsAnnounced'
  BY DEF LogInv, DropsAnnounced
<1> QED
  BY <1>2, <1>3, <1>4, <1>5, <1>6 DEF LogInv

(* The buffers move to toWrite as they stand, behind them an empty one. *)
LEMMA SwapKeepsLog ==
    ASSUME BufferInv, BufferInv', LogInv, Swap
    PROVE  LogInv' /\ Waiting' = Waiting
<1>1. /\ toWrite = << >> /\ written = 0 /\ written' = 0 /\ buffers' = << >>
      /\ toWrite' = Append(buffers, current) /\ current' = new1 /\ new1 # Null
      /\ data' = data /\ file' = file /\ dropped' = dropped /\ appended' = appended
      /\ pc' = "cut" /\ current \in Heap /\ buffers \in Seq(Heap)
  BY DEF Swap, output, BufferInv, TypeOK, SpareInv
<1>2. data'[current'] = << >>
  BY <1>1 DEF BufferInv, EmptyInv
<1>3. /\ Len(toWrite') = Len(buffers) + 1 /\ Len(buffers) \in Nat
      /\ DOMAIN buffers = 1 .. Len(buffers) /\ DOMAIN toWrite' = 1 .. Len(buffers) + 1
      /\ ToSet(toWrite') = ToSet(buffers) \cup {current}
      /\ toWrite'[Len(buffers) + 1] = current
      /\ \A i \in 1 .. Len(buffers) : toWrite'[i] = buffers[i]
  <2>1. PICK bs \in Seq(Heap) : bs = buffers
    BY <1>1
  <2>2. PICK c \in Heap : c = current
    BY <1>1
  <2>3. ToSet(Append(bs, c)) = ToSet(bs) \cup {c}
    BY Appended
  <2>4. /\ Len(Append(bs, c)) = Len(bs) + 1 /\ Len(bs) \in Nat
        /\ DOMAIN bs = 1 .. Len(bs) /\ DOMAIN Append(bs, c) = 1 .. Len(bs) + 1
        /\ Append(bs, c)[Len(bs) + 1] = c
        /\ \A i \in 1 .. Len(bs) : Append(bs, c)[i] = bs[i]
    OBVIOUS
  <2> QED
    BY <1>1, <2>1, <2>2, <2>3, <2>4
<1>4. Queued = ToSet(buffers) \cup {current} /\ Queued' = Queued \cup {current'}
  <2>1. Queued = ToSet(buffers) \cup {current}
    BY <1>1, EmptySequence DEF Queued
  <2>2. {toWrite'[i] : i \in written' + 1 .. Len(toWrite')} = ToSet(toWrite')
    BY <1>1, <1>3 DEF ToSet
  <2> QED
    BY <1>1, <1>3, <2>1, <2>2, EmptySequence DEF Queued
<1>5. \A b, c : Ahead(b, c)' => (Ahead(b, c) \/ c = current') /\ b \in Queued' /\ c \in Queued'
  <2>1. ASSUME NEW i \in written' + 1 .. Len(toWrite'), NEW j \in written' + 1 .. Len(toWrite'), i < j
        PROVE  Ahead(toWrite'[i], toWrite'[j])
    <3>1. i \in 1 .. Len(buffers) /\ toWrite'[i] = buffers[i] /\ buffers[i] \in ToSet(buffers)
      BY <1>1, <1>3, <2>1 DEF ToSet
    <3>2. CASE j = Len(buffers) + 1
      BY <1>3, <3>1, <3>2 DEF Ahead
    <3>3. CASE j # Len(buffers) + 1
      <4>1. j \in 1 .. Len(buffers) /\ toWrite'[j] = buffers[j]
        BY <1>1, <1>3, <2>1, <3>3
      <4> QED
        BY <1>3, <2>1, <3>1, <4>1 DEF Ahead
    <3> QED
      BY <3>2, <3>3
  <2>2. \A b, c : Ahead(b, c)' => Ahead(b, c) \/ c = current'
    BY <1>1, <2>1, EmptySequence DEF Ahead
  <2>3. \A b, c : Ahead(b, c)' => b \in Queued' /\ c \in Queued'
    BY AheadInQueue, <1>1, <1>3, <1>4, EmptySequence DEF Ahead, ToSet
  <2> QED
    BY <2>2, <2>3
<1>6. OrderInv'
  BY <1>1, <1>2, <1>4, <1>5, QueueShrinks DEF LogInv
<1>7. Waiting' = Waiting
  <2>1. Waiting' = UNION {ToSet(data[b]) : b \in Queued \cup {current'}} /\ ToSet(data[current']) = {}
    BY <1>1, <1>2, <1>4, EmptySequence DEF Waiting
  <2> QED
    BY <2>1 DEF Waiting
<1>8. FileInv'
  BY <1>1, <1>7 DEF LogInv, FileInv, Below
<1>9. FilledInv'
  <2>1. ASSUME Len(toWrite') > 1
        PROVE  buffers # << >>
    BY <1>3, <2>1, EmptySequence
  <2> QED
    BY <1>1, <1>3, <2>1, EmptySequence DEF LogInv, FilledInv
<1>10. DropsAnnounced'
  BY <1>1 DEF LogInv, DropsAnnounced
<1> QED
  BY <1>6, <1>7, <1>8, <1>9, <1>10 DEF LogInv

(* A step of the journal, and what is thrown away with it. *)
JournalStep ==
    \/ (Log!Accept \/ Log!Write) /\ dropped' = dropped
    \/ Log!Discard /\ dropped' = dropped \cup (Waiting \ Waiting')
    \/ UNCHANGED <<file, Waiting, appended, dropped>>

(* What each step does to the log. *)
LEMMA LogStep ==
    ASSUME Endless, BufferInv, BufferInv', LogInv, [Next]_vars
    PROVE  LogInv' /\ JournalStep
<1> DEFINE quiet == LogInv' /\ UNCHANGED <<file, Waiting, appended, dropped>>
<1> SUFFICES \/ quiet
             \/ LogInv' /\ (Log!Accept \/ Log!Write) /\ dropped' = dropped
             \/ LogInv' /\ Log!Discard /\ dropped' = dropped \cup (Waiting \ Waiting')
  BY DEF JournalStep
<1>1. ASSUME UNCHANGED <<front, toWrite, written, data, file, appended, dropped>>,
             pc' # "cut" \/ pc' = pc
      PROVE  quiet
  <2>1. Queued' = Queued /\ \A b, c : Ahead(b, c)' => Ahead(b, c)
    BY <1>1 DEF Queued, Ahead, front
  <2> QED
    BY <1>1, <2>1, SameQueueKeepsLog DEF front
<1>2. CASE Start
  BY <1>1, <1>2 DEF Start, back, output, history
<1>3. CASE Started
  BY <1>1, <1>3 DEF Started, back, output, history
<1>4. CASE AppendMessage
  BY <1>4, AppendKeepsLog DEF AppendMessage
<1>5. CASE Stop
  BY <1>1, <1>5 DEF Stop, back, output
<1>6. CASE Join
  BY <1>1, <1>6 DEF Join, back, output, history
<1>7. CASE ThreadStart
  BY <1>1, <1>7 DEF ThreadStart, back, output, history
<1>8. CASE Allocate
  <2>1. /\ UNCHANGED <<front, toWrite, written, file, appended, dropped>> /\ pc' = "top"
        /\ data' = [data EXCEPT ![new1'] = << >>, ![new2'] = << >>] /\ data \in [Heap -> Seq(Nat)]
    BY <1>8 DEF Allocate, output, history, BufferInv, TypeOK
  <2>2. Queued' = Queued /\ \A b, c : Ahead(b, c)' => Ahead(b, c)
    BY <2>1 DEF Queued, Ahead, front
  <2>3. \A b \in Queued' : b \notin {new1', new2'}
    <3>1. toWrite' = << >>
      BY <1>8, <2>1 DEF Allocate, BufferInv, SpareInv
    <3>2. Queued' = ToSet(buffers') \cup {current'}
      BY <2>1, <3>1, <1>8, EmptySequence DEF Allocate, BufferInv, SpareInv, Queued
    <3> QED
      BY <3>2 DEF BufferInv, DistinctInv
  <2>4. \A b \in Queued : data'[b] = data[b]
    BY <2>1, <2>2, <2>3, QueuedInHeap
  <2> QED
    BY <2>1, <2>2, <2>4, SameQueueKeepsLog DEF front
<1>9. CASE Top
  BY <1>1, <1>9 DEF Top, back, output, history
<1>10. CASE Wait
  BY <1>1, <1>10 DEF Wait, back, output, history
<1>11. CASE Swap
  BY <1>11, SwapKeepsLog DEF Swap, output, history
<1>12. CASE Cut
  <2>1. CASE Len(toWrite) > MaxBuffers
    BY <1>12, <2>1, CutKeepsLog
  <2>2. CASE ~ (Len(toWrite) > MaxBuffers)
    BY <1>1, <1>12, <2>2 DEF Cut, output
  <2> QED
    BY <2>1, <2>2
<1>13. CASE WriteBuffer
  BY <1>13, WriteKeepsLog DEF WriteBuffer, history
<1>14. CASE Refill
  <2>1. /\ UNCHANGED <<front, file, appended, dropped>> /\ pc' = "top"
        /\ written = Len(toWrite) /\ toWrite' = << >> /\ written' = 0 /\ Len(toWrite) \in Nat
    BY <1>14 DEF Refill, history, BufferInv, TypeOK
  <2>2. Queued = ToSet(buffers) \cup {current} /\ Queued' = Queued
    BY <2>1, EmptySequence DEF Queued, front
  <2>3. \A b \in Queued : data'[b] = data[b]
    BY <1>14, <2>2, RefillNothingLeft
  <2>4. \A b, c : Ahead(b, c)' => Ahead(b, c)
    BY <2>1, EmptySequence DEF Ahead, front
  <2> QED
    BY <2>1, <2>2, <2>3, <2>4, SameQueueKeepsLog DEF front
<1>15. CASE Finish
  BY <1>1, <1>15 DEF Finish, history
<1>16. CASE UNCHANGED vars
  BY <1>1, <1>16 DEF vars, back, output, history
<1> QED
  BY <1>2, <1>3, <1>4, <1>5, <1>6, <1>7, <1>8, <1>9, <1>10, <1>11, <1>12, <1>13, <1>14, <1>15, <1>16
  DEF Next, Logging

LEMMA LogStart == ASSUME Endless, Init PROVE LogInv /\ Log!Init
<1>1. /\ Queued = {current} /\ data[current] = << >> /\ file = << >> /\ appended = 0
      /\ dropped = {} /\ buffers = << >> /\ toWrite = << >> /\ written = 0
  <2>1. PICK b \in Heap : TRUE
    BY FS_EmptySet, MemoryLeft
  <2>2. current \in Heap
    BY <2>1 DEF Init
  <2> QED
    BY <2>2, EmptySequence DEF Init, Queued
<1>2. Waiting = {}
  BY <1>1, EmptySequence DEF Waiting
<1>3. OrderInv
  BY <1>1, EmptySequence DEF OrderInv, Ahead, Below, In, Log!Increasing
<1> QED
  BY <1>1, <1>2, <1>3, EmptySequence
  DEF LogInv, FileInv, FilledInv, DropsAnnounced, Below, Log!Init

LEMMA LogKept ==
    ASSUME Endless
    PROVE  Spec => []LogInv
<1>1. Init => LogInv
  BY LogStart
<1>2. BufferInv /\ BufferInv' /\ LogInv /\ [Next]_vars => LogInv'
  BY LogStep
<1> QED
  BY <1>1, <1>2, BuffersKept, PTL DEF Spec

(* The file holds the messages in the order they were given in, each once, but for those
   it says are missing: what AsyncLogging promises to those who log. *)
THEOREM LogImplementsJournal ==
    ASSUME Endless
    PROVE  Spec => JournalSpec
<1>1. Init => Log!Init
  BY LogStart
<1>2. BufferInv /\ BufferInv' /\ LogInv /\ [Next]_vars => [Log!Next]_(Log!vars)
  BY LogStep DEF JournalStep, Log!Next, Log!vars
<1> QED
  BY <1>1, <1>2, BuffersKept, LogKept, PTL DEF Spec, JournalSpec, Log!Spec

(* Every message thrown away is announced before the place it would have had, and nothing
   is announced when nothing is missing. *)
THEOREM MissingOnesAreAnnounced ==
    ASSUME Endless
    PROVE  Spec => []DropsAnnounced
<1>1. LogInv => DropsAnnounced
  BY DEF LogInv
<1> QED
  BY <1>1, LogKept, PTL

(* A place in a sequence that is behind the first m. *)
LEMMA Beyond ==
    ASSUME NEW m \in Nat, NEW n \in Nat, NEW i \in 1 .. m + n, i \notin 1 .. m
    PROVE  i - m \in 1 .. n /\ i = m + (i - m)
  OBVIOUS

(* The account balances after every step of the journal. *)
LEMMA AccountKept ==
    ASSUME file \in Seq(Nat), file' \in Seq(Nat), appended \in Nat, FileInv, AllAccountedFor, JournalStep
    PROVE  AllAccountedFor'
<1>1. /\ Waiting \subseteq 1 .. appended /\ ToSet(file) \subseteq 0 .. appended
      /\ \A x \in ToSet(file), y \in Waiting : x < y
      /\ 1 .. appended = Waiting \cup dropped \cup (ToSet(file) \ {0})
      /\ Waiting \cap dropped = {} /\ Waiting \cap ToSet(file) = {} /\ dropped \cap ToSet(file) = {}
      /\ \A i, j \in DOMAIN file : i < j /\ file[j] # 0 => file[i] < file[j]
  BY DEF AllAccountedFor, FileInv, Below, Announcement
<1>2. PICK f \in Seq(Nat) : f = file
  OBVIOUS
<1>3. DOMAIN f = 1 .. Len(f) /\ Len(f) \in Nat /\ \A i \in 1 .. Len(f) : f[i] \in ToSet(f)
  BY DEF ToSet
<1>4. CASE UNCHANGED <<file, Waiting, appended, dropped>>
  BY <1>4 DEF AllAccountedFor
<1>5. CASE Log!Accept /\ dropped' = dropped
  <2>1. /\ appended' = appended + 1 /\ Waiting' = Waiting \cup {appended + 1}
        /\ file' = file /\ dropped' = dropped
    BY <1>5 DEF Log!Accept
  <2>2. 1 .. appended' = (1 .. appended) \cup {appended + 1} /\ appended + 1 \notin 0 .. appended
    BY <2>1
  <2>3. appended + 1 \notin dropped /\ appended + 1 \notin ToSet(file) /\ appended + 1 # 0
    BY <1>1, <2>2
  <2>4. 1 .. appended' = Waiting' \cup dropped' \cup (ToSet(file') \ {0})
    BY <1>1, <2>1, <2>2
  <2> QED
    BY <1>1, <2>1, <2>3, <2>4 DEF AllAccountedFor, Announcement
<1>6. CASE Log!Write /\ dropped' = dropped
  <2>1. PICK d \in Seq(Nat) :
           /\ file' = file \o d /\ ToSet(d) \subseteq Waiting /\ Waiting' = Waiting \ ToSet(d)
           /\ \A i, j \in DOMAIN d : i < j => d[i] < d[j]
    <3> DEFINE d == SubSeq(file', Len(file) + 1, Len(file'))
    <3>1. PICK g \in Seq(Nat) : g = file'
      OBVIOUS
    <3>2. d \in Seq(Nat)
      <4>1. Len(g) \in Nat /\ \A i \in 1 .. Len(g) : g[i] \in Nat
        OBVIOUS
      <4>2. \A i \in Len(f) + 1 .. Len(g) : i \in 1 .. Len(g)
        BY <1>3, <4>1
      <4> QED
        BY <1>2, <1>3, <3>1, <4>1, <4>2
    <3>3. Log!ToSet(d) = ToSet(d)
      BY DEF Log!ToSet, ToSet
    <3> HIDE DEF d
    <3>4. /\ file' = file \o d /\ ToSet(d) \subseteq Waiting /\ Waiting' = Waiting \ ToSet(d)
          /\ Log!Increasing(d)
      BY <1>6, <3>3 DEF Log!Write, d
    <3> QED
      BY <3>2, <3>4 DEF Log!Increasing
  <2>2. /\ file' = f \o d /\ Len(file') = Len(f) + Len(d) /\ ToSet(file') = ToSet(f) \cup ToSet(d)
        /\ \A i \in 1 .. Len(f) : file'[i] = f[i]
        /\ \A i \in 1 .. Len(d) : file'[Len(f) + i] = d[i]
    BY <1>2, <2>1, Joined
  <2>3. /\ DOMAIN d = 1 .. Len(d) /\ Len(d) \in Nat /\ \A i \in 1 .. Len(d) : d[i] \in ToSet(d)
        /\ DOMAIN file' = 1 .. Len(f) + Len(d)
    BY <2>2 DEF ToSet
  <2>4. appended' = appended
    BY <1>6 DEF Log!Write
  <2>5. 1 .. appended = Waiting' \cup dropped \cup (ToSet(file') \ {0})
    BY <1>1, <1>2, <2>1, <2>2
  <2>6. Waiting' \cap dropped = {} /\ (Waiting' \cup dropped) \cap ToSet(file') = {}
    BY <1>1, <1>2, <2>1, <2>2
  <2>7. ASSUME NEW i \in DOMAIN file', NEW j \in DOMAIN file', i < j, file'[j] # 0
        PROVE  file'[i] < file'[j]
    <3>1. CASE j \in 1 .. Len(f)
      <4>1. i \in 1 .. Len(f)
        BY <1>3, <2>3, <2>7, <3>1
      <4> QED
        BY <1>1, <1>2, <1>3, <2>2, <2>7, <3>1, <4>1
    <3>2. CASE j \notin 1 .. Len(f)
      <4>1. PICK m \in 1 .. Len(d) : j = Len(f) + m /\ m = j - Len(f)
        BY <1>3, <2>3, <3>2, Beyond
      <4>2. file'[j] = d[m] /\ d[m] \in Waiting
        BY <2>1, <2>2, <2>3, <4>1
      <4>3. CASE i \in 1 .. Len(f)
        BY <1>1, <1>2, <1>3, <2>2, <4>2, <4>3
      <4>4. CASE i \notin 1 .. Len(f)
        <5>1. PICK l \in 1 .. Len(d) : i = Len(f) + l /\ l < m
          <6>1. i - Len(f) \in 1 .. Len(d) /\ i = Len(f) + (i - Len(f)) /\ i - Len(f) < m
            <7>1. i - Len(f) \in 1 .. Len(d) /\ i = Len(f) + (i - Len(f))
              BY <1>3, <2>3, <4>4, Beyond
            <7>2. i \in Int /\ Len(f) + m \in Int /\ m \in Int
              BY <1>3, <2>3, <4>1
            <7> QED
              BY <1>3, <2>7, <4>1, <7>1, <7>2
          <6> QED
            BY <6>1
        <5>2. file'[i] = d[l] /\ d[l] < d[m]
          BY <2>1, <2>2, <2>3, <5>1
        <5> QED
          BY <4>2, <5>2
      <4> QED
        BY <4>3, <4>4
    <3> QED
      BY <3>1, <3>2
  <2> QED
    BY <1>6, <2>4, <2>5, <2>6, <2>7 DEF AllAccountedFor, Announcement
<1>7. CASE Log!Discard /\ dropped' = dropped \cup (Waiting \ Waiting')
  <2>1. /\ appended' = appended /\ file' = Append(f, 0) /\ Waiting' \subseteq Waiting
        /\ dropped' = dropped \cup (Waiting \ Waiting')
    BY <1>2, <1>7 DEF Log!Discard, Log!Announcement
  <2>2. PICK a \in Nat : a = 0
    OBVIOUS
  <2>3. ToSet(Append(f, a)) = ToSet(f) \cup {a}
    BY Appended
  <2>4. /\ ToSet(file') = ToSet(f) \cup {0}
        /\ DOMAIN file' = 1 .. Len(f) + 1 /\ file'[Len(f) + 1] = 0
        /\ \A i \in 1 .. Len(f) : file'[i] = f[i]
    BY <1>3, <2>1, <2>2, <2>3
  <2>5. 0 \notin Waiting /\ 0 \notin dropped
    BY <1>1
  <2>6. 1 .. appended = Waiting' \cup dropped' \cup (ToSet(file') \ {0})
    BY <1>1, <1>2, <2>1, <2>4
  <2>7. Waiting' \cap dropped' = {} /\ (Waiting' \cup dropped') \cap ToSet(file') = {}
    BY <1>1, <1>2, <2>1, <2>4, <2>5
  <2>8. ASSUME NEW i \in DOMAIN file', NEW j \in DOMAIN file', i < j, file'[j] # 0
        PROVE  file'[i] < file'[j]
    <3>1. j \in 1 .. Len(f) /\ i \in 1 .. Len(f)
      BY <1>3, <2>4, <2>8
    <3> QED
      BY <1>1, <1>2, <1>3, <2>4, <2>8, <3>1
  <2> QED
    BY <2>1, <2>6, <2>7, <2>8 DEF AllAccountedFor, Announcement
<1> QED
  BY <1>4, <1>5, <1>6, <1>7 DEF JournalStep

(* Every message given to the log is in the file once and at its place, or in a buffer on
   its way there, or was thrown away with an announcement; for buffers of every size and
   any number of them. *)
THEOREM MessagesAreAccountedFor ==
    ASSUME Endless
    PROVE  Spec => []AllAccountedFor
<1>1. Init => AllAccountedFor
  <2> SUFFICES ASSUME Init
               PROVE  AllAccountedFor
    OBVIOUS
  <2>1. Waiting = {} /\ file = << >> /\ appended = 0 /\ dropped = {}
    BY LogStart DEF Log!Init, Init
  <2> QED
    BY <2>1, EmptySequence DEF AllAccountedFor, Announcement
<1>2. BufferInv /\ BufferInv' /\ LogInv /\ AllAccountedFor /\ [Next]_vars => AllAccountedFor'
  BY LogStep, AccountKept DEF BufferInv, TypeOK, LogInv
<1> QED
  BY <1>1, <1>2, BuffersKept, LogKept, PTL DEF Spec
===============================================================================
