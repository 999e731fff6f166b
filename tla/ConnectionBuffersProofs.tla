------------------------ MODULE ConnectionBuffersProofs ------------------------
(***************************************************************************)
(* Proofs about ConnectionBuffers, for arrays and reads of every size.     *)
(***************************************************************************)
EXTENDS ConnectionBuffers, Sequences, TLAPS

(* No vector of output is longer, none of input. *)
OutputLimit == Prep + InitRoom + MaxWaiting + 2 * MaxAppend
InputLimit == Prep + InitRoom + MaxRead

Sizes == {Prep, InitRoom, Word, ExtraBuf, MaxAppend, MaxRead, MaxWaiting, MaxSent}

LEMMA SizesFit ==
    /\ Sizes \subseteq Nat /\ Prep > 0 /\ InitRoom > 0
    /\ OutputLimit \in Nat /\ OutputLimit + MaxAppend < Word
    /\ InputLimit \in Nat /\ 2 * InputLimit < Word /\ Prep + InitRoom <= OutputLimit
    /\ Prep + InitRoom < Word
BY BufferAssumption, SizesAssumption DEF Sizes, OutputLimit, InputLimit

(* What waits in b is what stands in b from its read index on. *)
Waits(b) == b.write - b.read

OutputOK(b) ==
    /\ BufferType(b) /\ Prep <= b.read /\ b.read <= b.write
    /\ b.size <= OutputLimit

-----------------------------------------------------------------------------
(* The operations of Buffer. *)

(* Indices that are in order are subtracted and added as numbers. *)
LEMMA PlainSub ==
    ASSUME NEW a \in Nat, NEW b \in Nat, a >= b
    PROVE  Sub(a, b) = a - b
BY DEF Sub

LEMMA PlainAdd ==
    ASSUME NEW a \in Nat, NEW b \in Nat, a + b < Word
    PROVE  Add(a, b) = a + b
BY DEF Add

LEMMA FreshOK == OutputOK(Fresh) /\ Fresh.read = Prep /\ Fresh.write = Prep /\ Fresh.size = Prep + InitRoom
<1>1. /\ Fresh.cells = [i \in 0 .. Prep + InitRoom - 1 |-> 0] /\ Fresh.size = Prep + InitRoom
      /\ Fresh.read = Prep /\ Fresh.write = Prep
      /\ Fresh = [cells |-> Fresh.cells, size |-> Fresh.size, read |-> Fresh.read, write |-> Fresh.write]
  BY DEF Fresh
<1>2. Fresh.cells \in [0 .. Fresh.size - 1 -> Nat]
  <2>1. Prep + InitRoom - 1 = (Prep + InitRoom) - 1
    BY SizesFit DEF Sizes
  <2>2. [i \in 0 .. Prep + InitRoom - 1 |-> 0] \in [0 .. Prep + InitRoom - 1 -> Nat]
    OBVIOUS
  <2> QED
    BY <1>1, <2>1, <2>2, Zenon
<1>3. Fresh.size \in 0 .. Word - 1 /\ Fresh.write \in 0 .. Fresh.size /\ Fresh.read \in Nat
  BY <1>1, SizesFit, SMTT(30) DEF Sizes
<1> QED
  BY <1>1, <1>2, <1>3, SizesFit DEF OutputOK, BufferType

(* After ensureWriteAble there is room, and what waited still waits. *)
LEMMA Ensured ==
    ASSUME NEW b, OutputOK(b), Waits(b) <= MaxWaiting, NEW len \in 1 .. MaxAppend
    PROVE  LET e == EnsureWriteAble(b, len)
           IN  /\ OutputOK(e) /\ e.size - e.write >= len /\ Waits(e) = Waits(b)
               /\ \A k \in 0 .. Waits(b) - 1 : e.cells[e.read + k] = b.cells[b.read + k]
<1> DEFINE e == EnsureWriteAble(b, len)
<1>0. /\ b.cells \in [0 .. b.size - 1 -> Nat]
      /\ b = [cells |-> b.cells, size |-> b.size, read |-> b.read, write |-> b.write]
  BY DEF OutputOK, BufferType
<1>1. /\ b.size \in Nat /\ b.read \in Nat /\ b.write \in Nat /\ b.write <= b.size
      /\ Prep <= b.read /\ b.read <= b.write /\ b.size <= OutputLimit
  BY SizesFit DEF OutputOK, BufferType, Sizes
<1>2. /\ Prep \in Nat /\ Word \in Nat /\ MaxAppend \in Nat /\ MaxWaiting \in Nat /\ OutputLimit \in Nat
      /\ OutputLimit + MaxAppend < Word /\ len \in Nat /\ len >= 1 /\ len <= MaxAppend
      /\ b.write - b.read <= MaxWaiting
  BY SizesFit DEF Sizes, Waits
<1>3. ReadAble(b) = b.write - b.read /\ WriteAble(b) = b.size - b.write
  BY <1>1, PlainSub DEF ReadAble, WriteAble
<1>4. Sub(b.read, Prep) = b.read - Prep
  BY <1>1, <1>2, PlainSub
<1>5. Add(Sub(b.read, Prep), WriteAble(b)) = b.read - Prep + (b.size - b.write)
  <2>1. b.read - Prep \in Nat /\ b.size - b.write \in Nat /\ b.read - Prep + (b.size - b.write) < Word
    BY <1>1, <1>2
  <2> QED
    BY <1>3, <1>4, <2>1, PlainAdd
<1>6. CASE len <= b.size - b.write
  <2>1. e = b
    BY <1>1, <1>2, <1>3, <1>6 DEF EnsureWriteAble
  <2> QED
    BY <1>0, <1>1, <1>2, <1>6, <2>1
<1>7. CASE len > b.size - b.write /\ b.read - Prep + (b.size - b.write) >= len
  <2>1. e = Shift(b)
    BY <1>3, <1>5, <1>7 DEF EnsureWriteAble, EnlargeSpace
  <2>2. /\ e.size = b.size /\ e.read = Prep /\ e.write = Prep + (b.write - b.read)
        /\ e.cells = [i \in 0 .. b.size - 1 |->
                            IF i \in Prep .. Prep + (b.write - b.read) - 1
                            THEN b.cells[b.read + (i - Prep)] ELSE b.cells[i]]
        /\ e = [cells |-> e.cells, size |-> e.size, read |-> e.read, write |-> e.write]
    <3> DEFINE c == [i \in 0 .. b.size - 1 |->
                            IF i \in Prep .. Prep + (b.write - b.read) - 1
                            THEN b.cells[b.read + (i - Prep)] ELSE b.cells[i]]
    <3>1. e = [b EXCEPT !.cells = c, !.read = Prep, !.write = Prep + (b.write - b.read)]
      BY <1>3, <2>1 DEF Shift
    <3> HIDE DEF c
    <3>2. e = [cells |-> c, size |-> b.size, read |-> Prep, write |-> Prep + (b.write - b.read)]
      BY <1>0, <1>1, <3>1
    <3> QED
      BY <3>2 DEF c
  <2> HIDE DEF e
  <2>3. \A i \in 0 .. b.size - 1 : e.cells[i] \in Nat
    <3> SUFFICES ASSUME NEW i \in 0 .. b.size - 1
                 PROVE  e.cells[i] \in Nat
      OBVIOUS
    <3>1. CASE i \in Prep .. Prep + (b.write - b.read) - 1
      <4>1. b.read + (i - Prep) \in 0 .. b.size - 1
        BY <1>1, <1>2, <3>1
      <4> QED
        BY <1>0, <1>1, <2>2, <3>1, <4>1
    <3>2. CASE i \notin Prep .. Prep + (b.write - b.read) - 1
      BY <1>0, <1>1, <2>2, <3>2
    <3> QED
      BY <3>1, <3>2
  <2>4. e.cells \in [0 .. e.size - 1 -> Nat]
    <3>1. e.cells = [i \in 0 .. b.size - 1 |-> e.cells[i]]
      BY <2>2
    <3> QED
      BY <2>2, <2>3, <3>1
  <2>5. e.write \in 0 .. e.size /\ e.size - e.write >= len /\ e.size \in 0 .. Word - 1
    <3>1. e.write = Prep + (b.write - b.read) /\ e.size = b.size
      BY <2>2
    <3>2. Prep + (b.write - b.read) \in 0 .. b.size /\ b.size - (Prep + (b.write - b.read)) >= len
      BY <1>1, <1>2, <1>7
    <3>3. b.size \in 0 .. Word - 1
      BY <1>1, <1>2
    <3> QED
      BY <3>1, <3>2, <3>3
  <2>6. OutputOK(e)
    BY <1>1, <1>2, <2>2, <2>4, <2>5, SMTT(30) DEF OutputOK, BufferType
  <2>7. \A k \in 0 .. Waits(b) - 1 : e.cells[e.read + k] = b.cells[b.read + k]
    <3> SUFFICES ASSUME NEW k \in 0 .. (b.write - b.read) - 1
                 PROVE  e.cells[Prep + k] = b.cells[b.read + k]
      BY <2>2 DEF Waits
    <3>1. /\ Prep + k \in 0 .. b.size - 1 /\ Prep + k \in Prep .. Prep + (b.write - b.read) - 1
          /\ b.read + ((Prep + k) - Prep) = b.read + k
      BY <1>1, <1>2
    <3> QED
      BY <2>2, <3>1
  <2> QED
    <3>1. e.write - e.read = b.write - b.read
      BY <1>1, <1>2, <2>2
    <3>2. Waits(e) = Waits(b)
      BY <3>1 DEF Waits
    <3> QED
      BY <2>5, <2>6, <2>7, <3>2 DEF e
<1>8. CASE len > b.size - b.write /\ ~ (b.read - Prep + (b.size - b.write) >= len)
  <2>1. Add(b.write, len) = b.write + len /\ b.write + len <= OutputLimit /\ b.write + len \in Nat
    <3>1. b.write + len <= OutputLimit
      BY <1>1, <1>2, <1>8, SizesFit DEF OutputLimit, Sizes
    <3>2. b.write + len < Word /\ b.write + len \in Nat
      BY <1>1, <1>2, <3>1
    <3> QED
      BY <1>1, <1>2, <3>1, <3>2, PlainAdd
  <2>2. e = Resize(b, b.write + len)
    BY <1>3, <1>5, <1>8, <2>1 DEF EnsureWriteAble, EnlargeSpace
  <2>3. /\ e.size = b.write + len /\ e.read = b.read /\ e.write = b.write
        /\ e.cells = [i \in 0 .. (b.write + len) - 1 |-> IF i < b.size THEN b.cells[i] ELSE 0]
        /\ e = [cells |-> e.cells, size |-> e.size, read |-> e.read, write |-> e.write]
    <3> DEFINE c == [i \in 0 .. (b.write + len) - 1 |-> IF i < b.size THEN b.cells[i] ELSE 0]
    <3>1. e = [b EXCEPT !.cells = c, !.size = b.write + len]
      BY <2>2 DEF Resize
    <3> HIDE DEF c
    <3>2. e = [cells |-> c, size |-> b.write + len, read |-> b.read, write |-> b.write]
      BY <1>0, <1>1, <3>1
    <3> QED
      BY <3>2 DEF c
  <2> HIDE DEF e
  <2>4. e.cells \in [0 .. e.size - 1 -> Nat]
    BY <1>0, <1>1, <1>2, <2>3, SMTT(30)
  <2>5. OutputOK(e)
    BY <1>1, <1>2, <2>1, <2>3, <2>4, SMTT(30) DEF OutputOK, BufferType
  <2>6. \A k \in 0 .. Waits(b) - 1 : e.cells[e.read + k] = b.cells[b.read + k]
    <3>2. e.read = b.read /\ Waits(b) = b.write - b.read
      BY <2>3 DEF Waits
    <3> SUFFICES ASSUME NEW k \in 0 .. (b.write - b.read) - 1
                 PROVE  e.cells[b.read + k] = b.cells[b.read + k]
      BY <3>2
    <3>1. b.read + k \in 0 .. (b.write + len) - 1 /\ b.read + k < b.size
      BY <1>1, <1>2
    <3> QED
      BY <2>3, <3>1
  <2> QED
    <3>1. e.size - e.write >= len /\ e.write - e.read = b.write - b.read
      BY <1>1, <1>2, <2>3
    <3>2. Waits(e) = Waits(b)
      BY <3>1 DEF Waits
    <3> QED
      BY <2>5, <2>6, <3>1, <3>2 DEF e
<1> QED
  BY <1>1, <1>2, <1>6, <1>7, <1>8

(* append puts len bytes behind those that wait. *)
LEMMA AppendedBytes ==
    ASSUME NEW b, OutputOK(b), Waits(b) <= MaxWaiting, NEW len \in 1 .. MaxAppend, NEW first \in Nat
    PROVE  LET a == AppendBytes(b, first, len)
           IN  /\ AppendAssert(b, len) /\ OutputOK(a) /\ Waits(a) = Waits(b) + len
               /\ \A k \in 0 .. Waits(b) - 1 : a.cells[a.read + k] = b.cells[b.read + k]
               /\ \A k \in Waits(b) .. Waits(b) + len - 1 : a.cells[a.read + k] = first + (k - Waits(b)) + 1
<1>1. PICK e : e = EnsureWriteAble(b, len)
  OBVIOUS
<1>2. /\ OutputOK(e) /\ e.size - e.write >= len /\ Waits(e) = Waits(b)
      /\ \A k \in 0 .. Waits(b) - 1 : e.cells[e.read + k] = b.cells[b.read + k]
  BY <1>1, Ensured
<1>3. /\ e.cells \in [0 .. e.size - 1 -> Nat]
      /\ e = [cells |-> e.cells, size |-> e.size, read |-> e.read, write |-> e.write]
  BY <1>2 DEF OutputOK, BufferType
<1>4. /\ e.size \in Nat /\ e.read \in Nat /\ e.write \in Nat /\ e.write <= e.size
      /\ Prep <= e.read /\ e.read <= e.write /\ e.size <= OutputLimit /\ e.size - e.write >= len
  BY <1>2, SizesFit DEF OutputOK, BufferType, Sizes
<1>5. /\ Prep \in Nat /\ Word \in Nat /\ MaxAppend \in Nat /\ OutputLimit \in Nat
      /\ OutputLimit + MaxAppend < Word /\ len \in Nat /\ len >= 1 /\ len <= MaxAppend
  BY SizesFit DEF Sizes
<1>6. AppendAssert(b, len)
  <2>1. WriteAble(e) = e.size - e.write
    BY <1>4, PlainSub DEF WriteAble
  <2> QED
    BY <1>1, <1>4, <2>1 DEF AppendAssert
<1>7. Add(e.write, len) = e.write + len
  <2>1. e.write + len < Word
    BY <1>4, <1>5
  <2> QED
    BY <1>4, <1>5, <2>1, PlainAdd
<1> DEFINE c == [i \in 0 .. e.size - 1 |-> IF i \in e.write .. e.write + len - 1
                                         THEN first + (i - e.write) + 1 ELSE e.cells[i]]
<1>8. PICK a : a = AppendBytes(b, first, len)
  OBVIOUS
<1>9. a = [[e EXCEPT !.cells = c] EXCEPT !.write = Add(@, len)]
  BY <1>1, <1>8 DEF AppendBytes, Copied, HasWritten
<1>10. a.cells = c /\ a.size = e.size /\ a.read = e.read /\ a.write = e.write + len
       /\ a = [cells |-> a.cells, size |-> a.size, read |-> a.read, write |-> a.write]
  <2> HIDE DEF c
  <2>1. [e EXCEPT !.cells = c] = [cells |-> c, size |-> e.size, read |-> e.read, write |-> e.write]
    BY <1>3
  <2>2. a = [cells |-> c, size |-> e.size, read |-> e.read, write |-> e.write + len]
    BY <1>7, <1>9, <2>1
  <2> QED
    BY <2>2
<1>11. c \in [0 .. e.size - 1 -> Nat]
  <2>1. \A i \in e.write .. e.write + len - 1 : first + (i - e.write) + 1 \in Nat
    BY <1>4, <1>5
  <2> QED
    BY <1>3, <2>1
<1>12. /\ \A k \in 0 .. Waits(e) - 1 : c[e.read + k] = e.cells[e.read + k]
       /\ \A k \in Waits(e) .. Waits(e) + len - 1 : c[e.read + k] = first + (k - Waits(e)) + 1
  <2>1. Waits(e) = e.write - e.read
    BY DEF Waits
  <2>2. ASSUME NEW k \in 0 .. (e.write - e.read) - 1
        PROVE  c[e.read + k] = e.cells[e.read + k]
    <3>1. e.read + k \in 0 .. e.size - 1 /\ e.read + k \notin e.write .. e.write + len - 1
      BY <1>4, <1>5
    <3> QED
      BY <3>1
  <2>3. ASSUME NEW k \in (e.write - e.read) .. (e.write - e.read) + len - 1
        PROVE  c[e.read + k] = first + (k - (e.write - e.read)) + 1
    <3>1. /\ e.read + k \in 0 .. e.size - 1 /\ e.read + k \in e.write .. e.write + len - 1
          /\ (e.read + k) - e.write = k - (e.write - e.read)
      BY <1>4, <1>5
    <3>2. c[e.read + k] = first + ((e.read + k) - e.write) + 1
      BY <3>1
    <3> HIDE DEF c
    <3> QED
      BY <3>1, <3>2
  <2> QED
    BY <2>1, <2>2, <2>3
<1> HIDE DEF c
<1>13. Waits(a) = Waits(b) + len
  <2>1. a.write - a.read = e.write - e.read + len
    BY <1>4, <1>5, <1>10
  <2> QED
    BY <1>2, <2>1 DEF Waits
<1>14. OutputOK(a)
  <2>1. a.write \in 0 .. a.size /\ a.size \in 0 .. Word - 1 /\ Prep <= a.read /\ a.read <= a.write
        /\ a.size <= OutputLimit /\ a.read \in Nat
    BY <1>4, <1>5, <1>10
  <2>2. a.cells \in [0 .. a.size - 1 -> Nat]
    BY <1>10, <1>11
  <2> QED
    BY <1>10, <2>1, <2>2 DEF OutputOK, BufferType
<1>15. \A k \in 0 .. Waits(b) - 1 : a.cells[a.read + k] = b.cells[b.read + k]
  BY <1>2, <1>10, <1>12
<1>16. \A k \in Waits(b) .. Waits(b) + len - 1 : a.cells[a.read + k] = first + (k - Waits(b)) + 1
  BY <1>2, <1>10, <1>12
<1> QED
  BY <1>6, <1>8, <1>13, <1>14, <1>15, <1>16

(* retrieve takes the oldest n bytes away. *)
LEMMA Retrieved ==
    ASSUME NEW b, OutputOK(b), NEW n \in Nat, n <= Waits(b)
    PROVE  LET r == Retrieve(b, n)
           IN  /\ OutputOK(r) /\ Waits(r) = Waits(b) - n
               /\ \A k \in 0 .. Waits(b) - n - 1 : r.cells[r.read + k] = b.cells[b.read + n + k]
<1>1. /\ b.cells \in [0 .. b.size - 1 -> Nat]
      /\ b = [cells |-> b.cells, size |-> b.size, read |-> b.read, write |-> b.write]
  BY DEF OutputOK, BufferType
<1>2. /\ b.size \in Nat /\ b.read \in Nat /\ b.write \in Nat /\ b.write <= b.size /\ b.size < Word
      /\ Prep <= b.read /\ b.read <= b.write /\ b.size <= OutputLimit /\ Prep \in Nat /\ Word \in Nat
  BY SizesFit DEF OutputOK, BufferType, Sizes
<1>3. ReadAble(b) = b.write - b.read /\ n <= b.write - b.read
  BY <1>2, PlainSub DEF ReadAble, Waits
<1>4. PICK r : r = Retrieve(b, n)
  OBVIOUS
<1>5. CASE n < b.write - b.read
  <2>1. Add(b.read, n) = b.read + n
    <3>1. b.read + n < Word
      BY <1>2, <1>5
    <3> QED
      BY <1>2, <3>1, PlainAdd
  <2>2. r = [b EXCEPT !.read = b.read + n]
    BY <1>3, <1>4, <1>5, <2>1 DEF Retrieve
  <2>3. r = [cells |-> b.cells, size |-> b.size, read |-> b.read + n, write |-> b.write]
    BY <1>1, <2>2
  <2>4. r.cells = b.cells /\ r.size = b.size /\ r.read = b.read + n /\ r.write = b.write
        /\ r = [cells |-> r.cells, size |-> r.size, read |-> r.read, write |-> r.write]
    BY <2>3
  <2>5. OutputOK(r)
    <3>1. r.write \in 0 .. r.size /\ r.size \in 0 .. Word - 1 /\ Prep <= r.read /\ r.read <= r.write
          /\ r.size <= OutputLimit /\ r.read \in Nat
      BY <1>2, <1>5, <2>4
    <3>2. r.cells \in [0 .. r.size - 1 -> Nat]
      BY <1>1, <2>4
    <3> QED
      BY <2>4, <3>1, <3>2 DEF OutputOK, BufferType
  <2>6. Waits(r) = Waits(b) - n
    <3>1. r.write - r.read = b.write - b.read - n
      BY <1>2, <2>4
    <3> QED
      BY <3>1 DEF Waits
  <2>7. \A k \in 0 .. Waits(b) - n - 1 : r.cells[r.read + k] = b.cells[b.read + n + k]
    BY <2>4
  <2> QED
    BY <1>4, <2>5, <2>6, <2>7
<1>6. CASE n = b.write - b.read
  <2>1. r = [b EXCEPT !.read = Prep, !.write = Prep]
    BY <1>2, <1>3, <1>4, <1>6 DEF Retrieve, RetrieveAll
  <2>2. r = [cells |-> b.cells, size |-> b.size, read |-> Prep, write |-> Prep]
    BY <1>1, <2>1
  <2>3. r.cells = b.cells /\ r.size = b.size /\ r.read = Prep /\ r.write = Prep
        /\ r = [cells |-> r.cells, size |-> r.size, read |-> r.read, write |-> r.write]
    BY <2>2
  <2>4. OutputOK(r)
    <3>1. r.write \in 0 .. r.size /\ r.size \in 0 .. Word - 1 /\ Prep <= r.read /\ r.read <= r.write
          /\ r.size <= OutputLimit /\ r.read \in Nat
      BY <1>2, <2>3
    <3>2. r.cells \in [0 .. r.size - 1 -> Nat]
      BY <1>1, <2>3
    <3> QED
      BY <2>3, <3>1, <3>2 DEF OutputOK, BufferType
  <2>5. Waits(b) = n /\ Waits(r) = 0 /\ Waits(b) - n = 0
    BY <1>2, <1>6, <2>3 DEF Waits
  <2>6. \A k \in 0 .. Waits(b) - n - 1 : r.cells[r.read + k] = b.cells[b.read + n + k]
    BY <2>5
  <2> QED
    BY <1>4, <2>4, <2>5, <2>6
<1> QED
  BY <1>2, <1>3, <1>5, <1>6

-----------------------------------------------------------------------------
(* A read into an empty buffer. *)

(* The buffer inputBuffer_ is between two requests. *)
EmptyInput(b) ==
    /\ BufferType(b) /\ b.read = Prep /\ b.write = Prep /\ b.size <= InputLimit

(* The vector after a read that has filled the room: as long as what was read, be
   that longer or shorter than before. *)
LEMMA Refitted ==
    ASSUME NEW f, f = [cells |-> f.cells, size |-> f.size, read |-> f.read, write |-> f.write],
           f.size \in Nat, f.size <= InputLimit, f.read = Prep, f.write = f.size,
           f.cells \in [0 .. f.size - 1 -> Nat],
           NEW n \in 0 .. MaxRead
    PROVE  LET len == Sub(n, f.size)
               e == EnsureWriteAble(f, len)
           IN  /\ e = [cells |-> [i \in 0 .. n - 1 |-> IF i < f.size THEN f.cells[i] ELSE 0],
                       size |-> n, read |-> Prep, write |-> f.size]
               /\ Add(f.size, len) = n
               /\ WriteAble(e) >= len
               /\ len \in Nat /\ (n >= f.size => len = n - f.size)
<1> DEFINE len == Sub(n, f.size)
           e == EnsureWriteAble(f, len)
           c == [i \in 0 .. n - 1 |-> IF i < f.size THEN f.cells[i] ELSE 0]
<1>1. /\ Prep \in Nat /\ Word \in Nat /\ InputLimit \in Nat /\ 2 * InputLimit < Word
      /\ n \in Nat /\ n <= InputLimit /\ f.size \in Nat /\ f.size <= InputLimit
  BY SizesFit, SMTT(30) DEF Sizes, InputLimit
<1>2. len = IF n >= f.size THEN n - f.size ELSE Word - (f.size - n)
  BY DEF Sub
<1>3. len \in Nat /\ (n >= f.size => len = n - f.size) /\ (n < f.size => len > 0)
  BY <1>1, <1>2
<1>4. Add(f.size, len) = n
  <2>1. CASE n >= f.size
    BY <1>1, <1>2, <2>1 DEF Add
  <2>2. CASE n < f.size
    <3>1. ~ (f.size + len < Word) /\ f.size + len - Word = n
      BY <1>1, <1>2, <2>2
    <3> QED
      BY <3>1 DEF Add
  <2> QED
    BY <1>1, <2>1, <2>2
<1>5. WriteAble(f) = 0 /\ Sub(f.read, Prep) = 0 /\ Add(0, 0) = 0
  <2>1. f.size - f.size = 0 /\ Prep - Prep = 0 /\ 0 + 0 = 0 /\ 0 + 0 < Word
    BY <1>1, SizesFit
  <2>2. Sub(f.size, f.size) = 0 /\ Sub(Prep, Prep) = 0
    BY <1>1, <2>1 DEF Sub
  <2>3. Add(0, 0) = 0
    BY <2>1 DEF Add
  <2> QED
    BY <2>2, <2>3 DEF WriteAble
<1> HIDE DEF len
<1>6. e = [cells |-> c, size |-> n, read |-> Prep, write |-> f.size]
  <2>1. CASE len = 0
    <3>1. n = f.size /\ e = f
      BY <1>1, <1>3, <1>5, <2>1 DEF EnsureWriteAble
    <3>2. c = f.cells
      BY <1>1, <3>1
    <3> HIDE DEF c
    <3> QED
      BY <3>1, <3>2
  <2>2. CASE len # 0
    <3>1. len > WriteAble(f) /\ ~ (Add(Sub(f.read, Prep), WriteAble(f)) >= len)
      BY <1>3, <1>5, <2>2
    <3>2. e = Resize(f, n)
      BY <1>4, <3>1 DEF EnsureWriteAble, EnlargeSpace
    <3>3. e = [f EXCEPT !.cells = c, !.size = n]
      BY <3>2 DEF Resize
    <3> HIDE DEF c, e
    <3> QED
      BY <3>3
  <2> QED
    BY <2>1, <2>2
<1>7. WriteAble(e) >= len
  <2>1. WriteAble(e) = Sub(n, f.size)
    BY <1>6 DEF WriteAble
  <2> QED
    BY <1>3, <2>1 DEF len
<1> QED
  BY <1>3, <1>4, <1>6, <1>7 DEF len

(* What a read of n bytes leaves: all of them if a byte of the room stays free, else
   all but the last Prep ones. *)
LEMMA ReadLeaves ==
    ASSUME NEW b, EmptyInput(b), NEW n \in 0 .. MaxRead
    PROVE  /\ ReadResults(b, n) # {}
           /\ \A r \in ReadResults(b, n) :
                 /\ BufferType(r) /\ r.read = Prep /\ r.size <= InputLimit
                 /\ r.write = IF n >= WriteAble(b) THEN n ELSE Prep + n
                 /\ n >= WriteAble(b) => r.size = n
                 /\ \A i \in Prep .. r.write - 1 : r.cells[i] = i - Prep + 1
<1>1. /\ b.cells \in [0 .. b.size - 1 -> Nat]
      /\ b = [cells |-> b.cells, size |-> b.size, read |-> b.read, write |-> b.write]
      /\ b.read = Prep /\ b.write = Prep
  BY DEF EmptyInput, BufferType
<1>2. /\ Prep \in Nat /\ Word \in Nat /\ InputLimit \in Nat /\ 2 * InputLimit < Word
      /\ n \in Nat /\ n <= InputLimit /\ b.size \in Nat /\ b.size <= InputLimit /\ Prep <= b.size
  <2>1. b.size \in Nat /\ b.size <= InputLimit /\ Prep <= b.size
    BY SizesFit DEF Sizes, EmptyInput, BufferType
  <2>2. n \in Nat /\ n <= InputLimit
    BY SizesFit DEF Sizes, InputLimit
  <2> QED
    BY <2>1, <2>2, SizesFit DEF Sizes
<1>3. WriteAble(b) = b.size - Prep
  BY <1>1, <1>2, PlainSub DEF WriteAble
<1> DEFINE c == [i \in 0 .. b.size - 1 |-> IF i \in Prep .. Prep + n - 1 THEN i - Prep + 1 ELSE 0]
<1>4. Received(b, n) = [b EXCEPT !.cells = c]
  BY <1>1 DEF Received
<1>5. \A i \in 0 .. b.size - 1 : c[i] \in Nat
  BY <1>2
<1>6. \A i \in Prep .. Prep + n - 1 : i < b.size => i \in 0 .. b.size - 1 /\ c[i] = i - Prep + 1
  BY <1>2
<1>7. c = [i \in 0 .. b.size - 1 |-> c[i]]
  OBVIOUS
<1> HIDE DEF c
<1>8. Received(b, n) = [cells |-> c, size |-> b.size, read |-> Prep, write |-> Prep]
  BY <1>1, <1>4
<1>9. c \in [0 .. b.size - 1 -> Nat]
  BY <1>5, <1>7
<1>10. CASE n < WriteAble(b)
  <2>1. ReadResults(b, n) = {HasWritten(Received(b, n), n)}
    BY <1>10 DEF ReadResults, ShortRead
  <2>2. PICK r : r = HasWritten(Received(b, n), n)
    OBVIOUS
  <2>3. Add(Prep, n) = Prep + n
    <3>1. Prep + n < Word
      BY <1>2, <1>3, <1>10
    <3> QED
      BY <1>2, <3>1, PlainAdd
  <2>4. r = [cells |-> c, size |-> b.size, read |-> Prep, write |-> Prep + n]
    BY <1>8, <2>2, <2>3 DEF HasWritten
  <2>5. r.cells = c /\ r.size = b.size /\ r.read = Prep /\ r.write = Prep + n
        /\ r = [cells |-> r.cells, size |-> r.size, read |-> r.read, write |-> r.write]
    BY <2>4
  <2>6. Prep + n \in 0 .. b.size /\ b.size \in 0 .. Word - 1
    BY <1>2, <1>3, <1>10
  <2>7. BufferType(r)
    BY <1>2, <1>9, <2>5, <2>6 DEF BufferType
  <2>8. ~ (n >= WriteAble(b))
    BY <1>2, <1>3, <1>10
  <2>9. \A i \in Prep .. r.write - 1 : r.cells[i] = i - Prep + 1
    <3>1. \A i \in Prep .. Prep + n - 1 : i < b.size
      BY <1>2, <1>3, <1>10
    <3> QED
      <4>1. r.write - 1 = Prep + n - 1
        BY <1>2, <2>5
      <4> QED
        BY <1>6, <2>5, <3>1, <4>1
  <2> QED
    BY <1>2, <2>1, <2>2, <2>5, <2>7, <2>8, <2>9
<1>11. CASE n >= WriteAble(b)
  <2>0. ~ ShortRead(b, n)
    BY <1>2, <1>3, <1>11 DEF ShortRead
  <2>1. PICK f : f = [Received(b, n) EXCEPT !.write = b.size]
    OBVIOUS
  <2>2. f = [cells |-> c, size |-> b.size, read |-> Prep, write |-> b.size]
    BY <1>8, <2>1
  <2>3. /\ f = [cells |-> f.cells, size |-> f.size, read |-> f.read, write |-> f.write]
        /\ f.size = b.size /\ f.read = Prep /\ f.write = f.size /\ f.cells = c
    BY <2>2
  <2>4. PICK len : len = Sub(n, f.size)
    OBVIOUS
  <2>5. PICK e : e = EnsureWriteAble(f, len)
    OBVIOUS
  <2>6. /\ e = [cells |-> [i \in 0 .. n - 1 |-> IF i < b.size THEN c[i] ELSE 0],
                size |-> n, read |-> Prep, write |-> b.size]
        /\ Add(b.size, len) = n /\ WriteAble(e) >= len /\ len \in Nat
        /\ n >= b.size => len = n - b.size
    BY <1>2, <1>9, <2>3, <2>4, <2>5, Refitted
  <2>7. ReadResults(b, n) = IF n >= b.size THEN {AppendBytes(f, WriteAble(b), len)}
                            ELSE {HasWritten(e, len)}
    BY <2>0, <2>1, <2>3, <2>4, <2>5, <2>6 DEF ReadResults, AppendAssert
  <2> DEFINE d == [i \in 0 .. n - 1 |-> IF i < b.size THEN c[i] ELSE 0]
             g == [i \in 0 .. n - 1 |->
                     IF i \in b.size .. b.size + len - 1
                     THEN WriteAble(b) + (i - b.size) + 1 ELSE d[i]]
  <2>8. CASE n < b.size
    <3>1. PICK r : r = HasWritten(e, len)
      OBVIOUS
    <3>2. d \in [0 .. n - 1 -> Nat]
      BY <1>2, <1>9
    <3>3. \A i \in Prep .. n - 1 : d[i] = i - Prep + 1
      <4>1. \A i \in Prep .. n - 1 : i \in 0 .. n - 1 /\ i < b.size /\ i \in Prep .. Prep + n - 1
        BY <1>2, <2>8
      <4> QED
        BY <1>6, <4>1
    <3> HIDE DEF d
    <3>4. e = [cells |-> d, size |-> n, read |-> Prep, write |-> b.size]
      BY <2>6 DEF d
    <3>5. r = [cells |-> d, size |-> n, read |-> Prep, write |-> n]
      <4>1. e.write = b.size /\ Add(e.write, len) = n
        BY <2>6, <3>4
      <4>2. r = [e EXCEPT !.write = n]
        BY <3>1, <4>1 DEF HasWritten
      <4> QED
        BY <3>4, <4>2
    <3>6. r.cells = d /\ r.size = n /\ r.read = Prep /\ r.write = n
          /\ r = [cells |-> r.cells, size |-> r.size, read |-> r.read, write |-> r.write]
      BY <3>5
    <3>7. n \in 0 .. n /\ n \in 0 .. Word - 1 /\ Prep \in Nat /\ ~ (n >= b.size)
      BY <1>2, <2>8
    <3>8. BufferType(r)
      BY <3>2, <3>6, <3>7 DEF BufferType
    <3>9. \A i \in Prep .. r.write - 1 : r.cells[i] = i - Prep + 1
      BY <3>3, <3>6
    <3> QED
      BY <1>2, <1>11, <2>7, <3>1, <3>6, <3>7, <3>8, <3>9
  <2>9. CASE n >= b.size
    <3>1. PICK r : r = AppendBytes(f, WriteAble(b), len)
      OBVIOUS
    <3>2. d \in [0 .. n - 1 -> Nat]
      BY <1>2, <1>9
    <3>3. b.size + len = n /\ len \in Nat
      BY <1>2, <2>6, <2>9
    <3>4. \A i \in Prep .. n - 1 : i < b.size => d[i] = i - Prep + 1
      <4>1. \A i \in Prep .. n - 1 : i \in 0 .. n - 1 /\ i \in Prep .. Prep + n - 1
        BY <1>2
      <4> QED
        BY <1>6, <4>1
    <3> HIDE DEF d
    <3>5. \A i \in Prep .. n - 1 : g[i] = i - Prep + 1
      <4> SUFFICES ASSUME NEW i \in Prep .. n - 1
                   PROVE  g[i] = i - Prep + 1
        OBVIOUS
      <4>1. i \in 0 .. n - 1
        BY <1>2
      <4>2. CASE i < b.size
        <5>1. i \notin b.size .. b.size + len - 1
          BY <1>2, <3>3, <4>2
        <5> QED
          BY <3>4, <4>1, <4>2, <5>1
      <4>3. CASE ~ (i < b.size)
        <5>1. i \in b.size .. b.size + len - 1 /\ WriteAble(b) + (i - b.size) + 1 = i - Prep + 1
          BY <1>2, <1>3, <3>3, <4>1, <4>3
        <5> QED
          BY <4>1, <5>1
      <4> QED
        BY <4>2, <4>3
    <3>6. g \in [0 .. n - 1 -> Nat]
      <4>1. \A i \in b.size .. b.size + len - 1 : WriteAble(b) + (i - b.size) + 1 \in Nat
        BY <1>2, <1>3, <3>3
      <4> QED
        BY <3>2, <4>1
    <3>7. e = [cells |-> d, size |-> n, read |-> Prep, write |-> b.size]
      BY <2>6 DEF d
    <3>8. r = HasWritten(Copied(e, WriteAble(b), len), len)
      BY <2>5, <3>1 DEF AppendBytes
    <3>9. Copied(e, WriteAble(b), len) = [e EXCEPT !.cells = g]
      BY <3>7 DEF Copied
    <3> HIDE DEF g
    <3>10. Copied(e, WriteAble(b), len) = [cells |-> g, size |-> n, read |-> Prep, write |-> b.size]
      BY <3>7, <3>9
    <3>11. r = [cells |-> g, size |-> n, read |-> Prep, write |-> n]
      <4>1. PICK h : h = Copied(e, WriteAble(b), len)
        OBVIOUS
      <4>2. h.write = b.size /\ Add(h.write, len) = n
        BY <2>6, <3>10, <4>1
      <4>3. r = [h EXCEPT !.write = n]
        BY <3>8, <4>1, <4>2 DEF HasWritten
      <4> QED
        BY <3>10, <4>1, <4>3
    <3>12. r.cells = g /\ r.size = n /\ r.read = Prep /\ r.write = n
           /\ r = [cells |-> r.cells, size |-> r.size, read |-> r.read, write |-> r.write]
      BY <3>11
    <3>13. n \in 0 .. n /\ n \in 0 .. Word - 1 /\ Prep \in Nat
      BY <1>2, <2>9
    <3>14. BufferType(r)
      BY <3>6, <3>12, <3>13 DEF BufferType
    <3>15. \A i \in Prep .. r.write - 1 : r.cells[i] = i - Prep + 1
      BY <3>5, <3>12
    <3> QED
      BY <1>2, <1>11, <2>7, <2>9, <3>1, <3>12, <3>13, <3>14, <3>15
  <2> QED
    BY <1>2, <2>8, <2>9
<1> QED
  BY <1>2, <1>3, <1>10, <1>11

-----------------------------------------------------------------------------
(* The invariants. *)

OutputInv ==
    /\ OutputOK(output) /\ sent \in Nat /\ taken \in Nat /\ taken <= sent
    /\ Waits(output) = sent - taken
    /\ \A k \in 0 .. Waits(output) - 1 : output.cells[output.read + k] = taken + k + 1

InputInv ==
    /\ BufferType(input) /\ input.read = Prep /\ input.size <= InputLimit
    /\ got \in Nat /\ filled \in BOOLEAN
    /\ phase \in {"idle", "read", "reply", "closed", "dead"}
    /\ phase \in {"idle", "reply"} => input.write = Prep
    /\ phase = "read" =>
          /\ IF filled THEN input.write = got /\ input.size = got ELSE input.write = Prep + got
          /\ \A i \in Prep .. input.write - 1 : input.cells[i] = i - Prep + 1
    /\ phase = "dead" => filled /\ got <= input.size

LEMMA InputStays ==
    ASSUME InputInv, UNCHANGED inVars, phase \in {"idle", "reply"}, phase' \in {"idle", "reply"}
    PROVE  InputInv'
BY DEF InputInv, inVars

LEMMA ReadKeepsInput ==
    ASSUME InputInv, NEW n \in 0 .. MaxRead, ReadFd(n)
    PROVE  InputInv'
<1>1. PICK b : b = input
  OBVIOUS
<1>2. EmptyInput(b)
  BY <1>1 DEF InputInv, EmptyInput, ReadFd
<1>3. /\ ReadResults(b, n) # {}
      /\ \A r \in ReadResults(b, n) :
            /\ BufferType(r) /\ r.read = Prep /\ r.size <= InputLimit
            /\ r.write = IF n >= WriteAble(b) THEN n ELSE Prep + n
            /\ n >= WriteAble(b) => r.size = n
            /\ \A i \in Prep .. r.write - 1 : r.cells[i] = i - Prep + 1
  BY <1>2, ReadLeaves
<1>4. got' = n /\ n \in Nat /\ filled' = (n >= WriteAble(b))
  BY <1>1, SizesFit DEF ReadFd, Sizes
<1>5. filled' \in BOOLEAN /\ (filled' <=> n >= WriteAble(b))
  <2>1. (n >= WriteAble(b)) \in BOOLEAN
    OBVIOUS
  <2>2. filled' \in BOOLEAN
    BY <1>4, <2>1, Zenon
  <2>3. CASE n >= WriteAble(b)
    BY <1>4, <2>2, <2>3, Zenon
  <2>4. CASE ~ (n >= WriteAble(b))
    BY <1>4, <2>2, <2>4, Zenon
  <2> QED
    BY <2>3, <2>4
<1>6. CASE input' \in ReadResults(b, n) /\ phase' \in {"closed", "read"}
  <2>1. PICK r \in ReadResults(b, n) : r = input'
    BY <1>6
  <2>2. /\ BufferType(r) /\ r.read = Prep /\ r.size <= InputLimit
        /\ \A i \in Prep .. r.write - 1 : r.cells[i] = i - Prep + 1
    BY <1>3
  <2>3. IF filled' THEN r.write = n /\ r.size = n ELSE r.write = Prep + n
    BY <1>3, <1>5
  <2> QED
    BY <1>4, <1>5, <1>6, <2>1, <2>2, <2>3 DEF InputInv
<1>7. CASE CopyUndefined(b, n) /\ input' = input /\ phase' = "dead"
  <2>1. n >= WriteAble(b) /\ n < b.size
    BY <1>7, Zenon DEF CopyUndefined
  <2>2. b.size \in Nat
    BY <1>2, SizesFit DEF EmptyInput, BufferType, Sizes
  <2>3. n <= b.size
    BY <1>4, <2>1, <2>2
  <2> QED
    BY <1>1, <1>4, <1>5, <1>7, <2>1, <2>3 DEF InputInv
<1> QED
  BY <1>1, <1>3, <1>6, <1>7 DEF ReadFd

LEMMA RetrieveKeepsInput ==
    ASSUME InputInv, RetrieveAllString
    PROVE  InputInv'
<1>1. phase = "read" /\ got' = got /\ filled' = filled
  BY DEF RetrieveAllString
<1>2. CASE input.read <= input.write
  <2>1. phase' = "reply" /\ input' = RetrieveAll(input)
    BY <1>2 DEF RetrieveAllString
  <2>2. PICK b : b = input
    OBVIOUS
  <2>3. /\ b = [cells |-> b.cells, size |-> b.size, read |-> b.read, write |-> b.write]
        /\ b.size \in 0 .. Word - 1 /\ b.cells \in [0 .. b.size - 1 -> Nat] /\ b.size <= InputLimit
        /\ b.read = Prep /\ b.write \in 0 .. b.size
    BY <2>2 DEF InputInv, BufferType
  <2>4. PICK r : r = RetrieveAll(b)
    OBVIOUS
  <2>5. r = [cells |-> b.cells, size |-> b.size, read |-> Prep, write |-> Prep]
    BY <2>3, <2>4 DEF RetrieveAll
  <2>6. r.cells = b.cells /\ r.size = b.size /\ r.read = Prep /\ r.write = Prep
        /\ r = [cells |-> r.cells, size |-> r.size, read |-> r.read, write |-> r.write]
    BY <2>5
  <2>7. Prep \in Nat /\ Prep \in 0 .. b.size
    BY <1>2, <2>2, <2>3, SizesFit DEF Sizes
  <2>8. BufferType(r)
    BY <2>3, <2>6, <2>7 DEF BufferType
  <2> QED
    BY <1>1, <2>1, <2>2, <2>3, <2>4, <2>6, <2>8 DEF InputInv
<1>3. CASE ~ (input.read <= input.write)
  <2>1. phase' = "dead" /\ input' = input
    BY <1>3 DEF RetrieveAllString
  <2>2. filled /\ got <= input.size
    <3>1. CASE filled
      BY <1>1, <3>1 DEF InputInv
    <3>2. CASE ~ filled
      BY <1>1, <1>3, <3>2, SizesFit DEF InputInv, Sizes
    <3> QED
      BY <3>1, <3>2
  <2> QED
    BY <1>1, <2>1, <2>2 DEF InputInv
<1> QED
  BY <1>2, <1>3

LEMMA AppendKeepsOutput ==
    ASSUME OutputInv, NEW len \in 1 .. MaxAppend, AppendReply(len)
    PROVE  OutputInv' /\ phase' = phase
<1>1. PICK b : b = output
  OBVIOUS
<1>2. OutputOK(b) /\ sent \in Nat /\ taken \in Nat /\ taken <= sent /\ Waits(b) = sent - taken
  BY <1>1 DEF OutputInv
<1>3. Waits(b) <= MaxWaiting
  <2>1. ReadAble(b) = Waits(b)
    BY <1>2, SizesFit, PlainSub, SMTT(30) DEF ReadAble, Waits, OutputOK, BufferType, Sizes
  <2> QED
    BY <1>1, <2>1 DEF AppendReply
<1>4. PICK f \in Nat : f = sent
  BY <1>2
<1>5. PICK a : a = AppendBytes(b, f, len)
  OBVIOUS
<1>6. /\ AppendAssert(b, len) /\ OutputOK(a) /\ Waits(a) = Waits(b) + len
      /\ \A k \in 0 .. Waits(b) - 1 : a.cells[a.read + k] = b.cells[b.read + k]
      /\ \A k \in Waits(b) .. Waits(b) + len - 1 : a.cells[a.read + k] = f + (k - Waits(b)) + 1
  <2>1. /\ AppendAssert(b, len) /\ OutputOK(AppendBytes(b, f, len))
        /\ Waits(AppendBytes(b, f, len)) = Waits(b) + len
        /\ \A k \in 0 .. Waits(b) - 1 :
              AppendBytes(b, f, len).cells[AppendBytes(b, f, len).read + k] = b.cells[b.read + k]
        /\ \A k \in Waits(b) .. Waits(b) + len - 1 :
              AppendBytes(b, f, len).cells[AppendBytes(b, f, len).read + k] = f + (k - Waits(b)) + 1
    BY <1>2, <1>3, AppendedBytes, ZenonT(30)
  <2> QED
    BY <1>5, <2>1, Zenon
<1>7. output' = a /\ sent' = sent + len /\ taken' = taken /\ phase' = phase
  BY <1>1, <1>4, <1>5, <1>6 DEF AppendReply
<1>8. len \in Nat /\ len >= 1
  BY SizesFit DEF Sizes
<1>9. \A k \in 0 .. Waits(a) - 1 : a.cells[a.read + k] = taken + k + 1
  <2> SUFFICES ASSUME NEW k \in 0 .. Waits(a) - 1
               PROVE  a.cells[a.read + k] = taken + k + 1
    OBVIOUS
  <2>1. CASE k < Waits(b)
    <3>1. k \in 0 .. Waits(b) - 1
      BY <1>2, <1>6, <1>8, <2>1
    <3>2. b.cells[b.read + k] = taken + k + 1
      BY <1>1, <3>1 DEF OutputInv
    <3> QED
      BY <1>6, <3>1, <3>2
  <2>2. CASE k >= Waits(b)
    <3>1. k \in Waits(b) .. Waits(b) + len - 1
      BY <1>2, <1>6, <1>8, <2>2
    <3>2. f + (k - Waits(b)) + 1 = taken + k + 1
      BY <1>2, <1>4, <3>1, <1>8
    <3> QED
      BY <1>6, <3>1, <3>2
  <2> QED
    BY <1>2, <1>6, <1>8, <2>1, <2>2
<1>10. sent' \in Nat /\ taken <= sent' /\ Waits(a) = sent' - taken
  BY <1>2, <1>6, <1>7, <1>8
<1> QED
  BY <1>2, <1>6, <1>7, <1>9, <1>10 DEF OutputInv

LEMMA WriteKeepsOutput ==
    ASSUME OutputInv, NEW n \in 1 .. ReadAble(output), Write(n)
    PROVE  OutputInv'
<1>1. PICK b : b = output
  OBVIOUS
<1>2. OutputOK(b) /\ sent \in Nat /\ taken \in Nat /\ taken <= sent /\ Waits(b) = sent - taken
  BY <1>1 DEF OutputInv
<1>3. ReadAble(b) = Waits(b)
  BY <1>2, SizesFit, PlainSub, SMTT(30) DEF ReadAble, Waits, OutputOK, BufferType, Sizes
<1>4. n \in Nat /\ n <= Waits(b)
  BY <1>1, <1>2, <1>3
<1>5. PICK r : r = Retrieve(b, n)
  OBVIOUS
<1>6. /\ OutputOK(r) /\ Waits(r) = Waits(b) - n
      /\ \A k \in 0 .. Waits(b) - n - 1 : r.cells[r.read + k] = b.cells[b.read + n + k]
  BY <1>2, <1>4, <1>5, Retrieved
<1>7. output' = r /\ taken' = taken + n /\ sent' = sent
  BY <1>1, <1>5 DEF Write
<1>8. taken + n \in Nat /\ taken + n <= sent /\ Waits(r) = sent - (taken + n)
  BY <1>2, <1>4, <1>6
<1>9. \A k \in 0 .. Waits(r) - 1 : r.cells[r.read + k] = taken + n + k + 1
  <2> SUFFICES ASSUME NEW k \in 0 .. Waits(r) - 1
               PROVE  r.cells[r.read + k] = taken + n + k + 1
    OBVIOUS
  <2>1. k \in 0 .. Waits(b) - n - 1 /\ n + k \in 0 .. Waits(b) - 1 /\ b.read + (n + k) = b.read + n + k
    <3>1. b.read \in Nat
      BY <1>2 DEF OutputOK, BufferType
    <3>2. k \in Nat /\ k < sent - taken - n /\ Waits(b) - n - 1 = sent - taken - n - 1
      BY <1>2, <1>4, <1>6
    <3> QED
      BY <1>2, <1>4, <3>1, <3>2
  <2>2. b.cells[b.read + (n + k)] = taken + (n + k) + 1
    BY <1>1, <2>1 DEF OutputInv
  <2>3. taken + (n + k) + 1 = taken + n + k + 1
    BY <1>2, <1>4, <2>1
  <2> QED
    BY <1>6, <2>1, <2>2, <2>3
<1> QED
  BY <1>2, <1>6, <1>7, <1>8, <1>9 DEF OutputInv

LEMMA BuffersKept == Spec => [](InputInv /\ OutputInv)
<1>1. Init => InputInv /\ OutputInv
  <2> SUFFICES ASSUME Init
               PROVE  InputInv /\ OutputInv
    OBVIOUS
  <2>1. InputInv
    <3>1. BufferType(Fresh) /\ Fresh.read = Prep /\ Fresh.write = Prep /\ Fresh.size = Prep + InitRoom
      BY FreshOK DEF OutputOK
    <3>2. Prep + InitRoom <= InputLimit
      BY SizesFit DEF InputLimit, Sizes
    <3> QED
      BY <3>1, <3>2 DEF Init, InputInv
  <2>2. Waits(Fresh) = 0
    BY FreshOK, SizesFit DEF Waits, Sizes
  <2>3. OutputInv
    BY FreshOK, <2>2 DEF Init, OutputInv
  <2> QED
    BY <2>1, <2>3
<1>2. InputInv /\ OutputInv /\ [Next]_vars => (InputInv /\ OutputInv)'
  <2> SUFFICES ASSUME InputInv, OutputInv, [Next]_vars
               PROVE  InputInv' /\ OutputInv'
    OBVIOUS
  <2>1. ASSUME UNCHANGED outVars
        PROVE  OutputInv'
    BY <2>1 DEF OutputInv, outVars
  <2>2. ASSUME NEW n \in 0 .. MaxRead, ReadFd(n)
        PROVE  InputInv' /\ OutputInv'
    BY <2>1, <2>2, ReadKeepsInput DEF ReadFd
  <2>3. CASE RetrieveAllString
    BY <2>1, <2>3, RetrieveKeepsInput DEF RetrieveAllString
  <2>4. ASSUME NEW len \in 1 .. MaxAppend, AppendReply(len)
        PROVE  InputInv' /\ OutputInv'
    <3>1. OutputInv' /\ phase' = phase
      BY <2>4, AppendKeepsOutput
    <3> QED
      BY <2>4, <3>1, InputStays DEF AppendReply
  <2>5. CASE EndReply
    BY <2>1, <2>5, InputStays DEF EndReply
  <2>6. ASSUME NEW n \in 1 .. ReadAble(output), Write(n)
        PROVE  InputInv' /\ OutputInv'
    <3>1. OutputInv'
      BY <2>6, WriteKeepsOutput
    <3> QED
      BY <2>6, <3>1, InputStays DEF Write
  <2>7. CASE UNCHANGED vars
    <3>1. OutputInv'
      BY <2>1, <2>7 DEF vars, outVars
    <3>2. InputInv'
      BY <2>7 DEF vars, inVars, InputInv
    <3> QED
      BY <3>1, <3>2
  <2> QED
    BY <2>2, <2>3, <2>4, <2>5, <2>6, <2>7 DEF Next
<1> QED
  BY <1>1, <1>2, PTL DEF Spec

(* Every variable keeps its kind, the indices of outputBuffer_ their order. *)
THEOREM TypeCorrect == Spec => []TypeOK
<1>1. InputInv /\ OutputInv => TypeOK
  BY DEF InputInv, OutputInv, OutputOK, TypeOK
<1> QED
  BY <1>1, BuffersKept, PTL

(* What waits for the client is what was appended and not taken, in that order. *)
THEOREM RepliesInOrder == Spec => []InOrder
<1>1. OutputInv => InOrder
  <2> SUFFICES ASSUME OutputInv
               PROVE  InOrder
    OBVIOUS
  <2>1. /\ taken <= sent /\ output.write - output.read = sent - taken /\ taken \in Nat
        /\ output.read \in Nat /\ output.write \in Nat
        /\ \A k \in 0 .. (output.write - output.read) - 1 : output.cells[output.read + k] = taken + k + 1
    BY SizesFit DEF OutputInv, Waits, OutputOK, BufferType, Sizes
  <2>2. ASSUME NEW i \in output.read .. output.write - 1
        PROVE  output.cells[i] = taken + (i - output.read) + 1
    <3>1. i - output.read \in 0 .. (output.write - output.read) - 1 /\ output.read + (i - output.read) = i
      BY <2>1
    <3> QED
      BY <2>1, <3>1
  <2> QED
    BY <2>1, <2>2 DEF InOrder
<1> QED
  BY <1>1, BuffersKept, PTL

(* The vector never grows with what has passed through it. *)
THEOREM RoomIsBounded == Spec => []RoomBounded
<1>1. OutputInv => RoomBounded
  BY DEF OutputInv, OutputOK, OutputLimit, RoomBounded
<1> QED
  BY <1>1, BuffersKept, PTL

(* A request is handed on from its first byte; at most its last Prep bytes are missing. *)
THEOREM BeginningIsDelivered == Spec => []BeginningDelivered
<1>1. InputInv => BeginningDelivered
  <2> SUFFICES ASSUME InputInv, phase = "read", Prep <= input.write
               PROVE  /\ ReadAble(input) + (IF filled THEN Prep ELSE 0) = got
                      /\ \A i \in input.read .. input.write - 1 : input.cells[i] = i - input.read + 1
    BY DEF BeginningDelivered
  <2>1. input.read = Prep /\ Prep \in Nat /\ input.write \in Nat /\ got \in Nat /\ filled \in BOOLEAN
    BY SizesFit DEF InputInv, BufferType, Sizes
  <2>2. ReadAble(input) = input.write - Prep
    BY <2>1, PlainSub DEF ReadAble
  <2>3. ReadAble(input) + (IF filled THEN Prep ELSE 0) = got
    <3>1. CASE filled
      <4>1. input.write = got
        BY <3>1 DEF InputInv
      <4> QED
        BY <2>1, <2>2, <3>1, <4>1
    <3>2. CASE ~ filled
      <4>1. input.write = Prep + got
        BY <3>2 DEF InputInv
      <4> QED
        BY <2>1, <2>2, <3>2, <4>1
    <3> QED
      BY <2>1, <3>1, <3>2
  <2>4. \A i \in input.read .. input.write - 1 : input.cells[i] = i - input.read + 1
    BY <2>1 DEF InputInv
  <2> QED
    BY <2>3, <2>4
<1> QED
  BY <1>1, BuffersKept, PTL

(* Nothing but a read that fills the room, and no more than the vector, ends the
   process: every assert of outputBuffer_ holds. *)
THEOREM ShortReadsAreHarmless == Spec => []OnlyFullReadsHurt
<1>1. InputInv => OnlyFullReadsHurt
  BY DEF InputInv, OnlyFullReadsHurt
<1> QED
  BY <1>1, BuffersKept, PTL

-----------------------------------------------------------------------------
(* outputBuffer_ as a queue of bytes. *)

(* The n bytes that come after the first a. *)
Bytes(a, n) == [i \in 1 .. n |-> a + i]

LEMMA BytesSequence ==
    ASSUME NEW a \in Nat, NEW m \in Nat
    PROVE  /\ Bytes(a, m) \in Seq(Nat) /\ Len(Bytes(a, m)) = m
           /\ \A i \in 1 .. m : Bytes(a, m)[i] = a + i
  BY DEF Bytes

LEMMA BytesJoined ==
    ASSUME NEW a \in Nat, NEW m \in Nat, NEW n \in Nat
    PROVE  Bytes(a, m) \o Bytes(a + m, n) = Bytes(a, m + n)
<1>1. PICK s \in Seq(Nat) : s = Bytes(a, m) /\ Len(s) = m /\ \A i \in 1 .. m : s[i] = a + i
  BY BytesSequence
<1>2. PICK t \in Seq(Nat) : t = Bytes(a + m, n) /\ Len(t) = n /\ \A i \in 1 .. n : t[i] = a + m + i
  <2>1. PICK b \in Nat : b = a + m
    OBVIOUS
  <2>2. /\ Bytes(b, n) \in Seq(Nat) /\ Len(Bytes(b, n)) = n
        /\ \A i \in 1 .. n : Bytes(b, n)[i] = b + i
    BY BytesSequence
  <2> QED
    BY <2>1, <2>2
<1>3. s \o t = [i \in 1 .. m + n |-> IF i <= m THEN s[i] ELSE t[i - m]]
  <2>1. /\ s \o t \in Seq(Nat) /\ Len(s \o t) = Len(s) + Len(t)
        /\ \A i \in 1 .. Len(s) + Len(t) : (s \o t)[i] = IF i <= Len(s) THEN s[i] ELSE t[i - Len(s)]
    OBVIOUS
  <2>2. PICK j \in Seq(Nat) : j = s \o t
    BY <2>1
  <2>3. Len(j) = m + n /\ \A i \in 1 .. m + n : j[i] = IF i <= m THEN s[i] ELSE t[i - m]
    BY <1>1, <1>2, <2>1, <2>2
  <2>4. j = [i \in 1 .. m + n |-> j[i]]
    BY <2>3
  <2> QED
    BY <2>2, <2>3, <2>4, Zenon
<1>4. \A i \in 1 .. m + n : (IF i <= m THEN s[i] ELSE t[i - m]) = a + i
  <2> SUFFICES ASSUME NEW i \in 1 .. m + n
               PROVE  (IF i <= m THEN s[i] ELSE t[i - m]) = a + i
    OBVIOUS
  <2>1. CASE i <= m
    BY <1>1, <2>1
  <2>2. CASE ~ (i <= m)
    <3>1. i - m \in 1 .. n /\ a + m + (i - m) = a + i
      BY <2>2
    <3> QED
      BY <1>2, <2>2, <3>1
  <2> QED
    BY <2>1, <2>2
<1>5. s \o t = [i \in 1 .. m + n |-> a + i]
  BY <1>3, <1>4
<1> QED
  BY <1>1, <1>2, <1>5 DEF Bytes

LEMMA BytesCut ==
    ASSUME NEW a \in Nat, NEW m \in Nat, NEW n \in 0 .. m
    PROVE  SubSeq(Bytes(a, m), n + 1, m) = Bytes(a + n, m - n)
<1>1. Bytes(a, m) \in Seq(Nat) /\ Len(Bytes(a, m)) = m /\ \A i \in 1 .. m : Bytes(a, m)[i] = a + i
  BY DEF Bytes
<1>2. SubSeq(Bytes(a, m), n + 1, m) = [i \in 1 .. m - n |-> Bytes(a, m)[n + i]]
  BY <1>1
<1>3. \A i \in 1 .. m - n : Bytes(a, m)[n + i] = a + n + i
  BY <1>1
<1> QED
  BY <1>2, <1>3 DEF Bytes

(* What waits is known from the two counters. *)
LEMMA WaitingBytes ==
    ASSUME NEW b, NEW s \in Nat, NEW t \in Nat, OutputOK(b), t <= s, Waits(b) = s - t,
           \A k \in 0 .. Waits(b) - 1 : b.cells[b.read + k] = t + k + 1
    PROVE  /\ ReadAble(b) = s - t
           /\ [i \in 1 .. ReadAble(b) |-> b.cells[b.read + i - 1]] = Bytes(t, s - t)
<1>1. /\ b.read \in Nat /\ b.write = b.read + (s - t) /\ b.write \in Nat
      /\ \A k \in 0 .. (s - t) - 1 : b.cells[b.read + k] = t + k + 1
  BY DEF OutputOK, BufferType, Waits
<1>2. ReadAble(b) = s - t
  BY <1>1, PlainSub DEF ReadAble
<1>3. \A i \in 1 .. s - t : b.cells[b.read + i - 1] = t + i
  <2> SUFFICES ASSUME NEW i \in 1 .. s - t
               PROVE  b.cells[b.read + i - 1] = t + i
    OBVIOUS
  <2>1. i - 1 \in 0 .. (s - t) - 1 /\ b.read + (i - 1) = b.read + i - 1 /\ t + (i - 1) + 1 = t + i
    BY <1>1
  <2> QED
    BY <1>1, <2>1
<1> QED
  BY <1>2, <1>3 DEF Bytes

(* What each operation does to the queue. *)
LEMMA StreamStep ==
    ASSUME OutputInv, OutputInv', [Next]_vars
    PROVE  [Reply!Next]_(Reply!vars)
<1>1. /\ taken \in Nat /\ sent \in Nat /\ taken <= sent /\ sent - taken \in Nat
      /\ Waiting = Bytes(taken, sent - taken) /\ ReadAble(output) = sent - taken
  <2>1. /\ OutputOK(output) /\ sent \in Nat /\ taken \in Nat /\ taken <= sent
        /\ Waits(output) = sent - taken
        /\ \A k \in 0 .. Waits(output) - 1 : output.cells[output.read + k] = taken + k + 1
    BY DEF OutputInv
  <2>2. Waiting = Bytes(taken, sent - taken) /\ ReadAble(output) = sent - taken
    BY <2>1, WaitingBytes DEF Waiting
  <2> QED
    BY <2>1, <2>2
<1>2. Waiting' = Bytes(taken', sent' - taken')
  <2>1. /\ OutputOK(output') /\ sent' \in Nat /\ taken' \in Nat /\ taken' <= sent'
        /\ Waits(output') = sent' - taken'
        /\ \A k \in 0 .. Waits(output') - 1 : output'.cells[output'.read + k] = taken' + k + 1
    BY DEF OutputInv
  <2> QED
    BY <2>1, WaitingBytes DEF Waiting
<1>3. ASSUME UNCHANGED outVars
      PROVE  UNCHANGED Reply!vars
  BY <1>3 DEF outVars, Reply!vars, Waiting, ReadAble
<1>4. ASSUME NEW len \in 1 .. MaxAppend, AppendReply(len)
      PROVE  [Reply!Next]_(Reply!vars)
  <2>1. sent' = sent + len /\ taken' = taken /\ len \in Nat /\ len > 0
    <3>1. phase' = phase /\ phase = "reply"
      BY <1>4, AppendKeepsOutput DEF AppendReply
    <3> QED
      BY <1>4, <3>1, SizesFit DEF AppendReply, Sizes
  <2>2. Waiting' = Waiting \o Bytes(sent, len)
    <3>1. taken + (sent - taken) = sent /\ sent' - taken' = (sent - taken) + len
      BY <1>1, <2>1
    <3>2. Bytes(taken, sent - taken) \o Bytes(taken + (sent - taken), len) = Bytes(taken, (sent - taken) + len)
      BY <1>1, <2>1, BytesJoined
    <3> QED
      BY <1>1, <1>2, <2>1, <3>1, <3>2
  <2>3. sent' > sent /\ sent' - sent = len
    BY <1>1, <2>1
  <2> QED
    BY <2>2, <2>3 DEF Reply!Next, Reply!Put, Bytes
<1>5. ASSUME NEW n \in 1 .. ReadAble(output), Write(n)
      PROVE  [Reply!Next]_(Reply!vars)
  <2>1. sent' = sent /\ taken' = taken + n /\ n \in 1 .. sent - taken /\ n \in 0 .. sent - taken
    BY <1>1, <1>5 DEF Write
  <2>2. Waiting' = SubSeq(Waiting, n + 1, sent - taken)
    <3>1. sent' - taken' = (sent - taken) - n
      BY <1>1, <2>1
    <3> QED
      BY <1>1, <1>2, <2>1, <3>1, BytesCut
  <2>3. Len(Waiting) = sent - taken
    BY <1>1 DEF Bytes
  <2> QED
    BY <2>1, <2>2, <2>3 DEF Reply!Next, Reply!Take
<1> QED
  BY <1>3, <1>4, <1>5 DEF Next, ReadFd, RetrieveAllString, EndReply, vars, outVars

(* Through every shift and growth of the vector outputBuffer_ is a queue of bytes: what is
   put at its end leaves it at its front, in order and once. *)
THEOREM OutputImplementsStream == Spec => StreamSpec
<1>1. Init => Reply!Init
  <2>1. ReadAble(Fresh) = 0
    BY FreshOK, SizesFit, PlainSub DEF ReadAble, Sizes
  <2>2. [i \in 1 .. 0 |-> output.cells[output.read + i - 1]] = << >>
    OBVIOUS
  <2> QED
    BY <2>1, <2>2 DEF Init, Reply!Init, Waiting
<1>2. OutputInv /\ OutputInv' /\ [Next]_vars => [Reply!Next]_(Reply!vars)
  BY StreamStep
<1> QED
  BY <1>1, <1>2, BuffersKept, PTL DEF Spec, StreamSpec, Reply!Spec
===============================================================================
