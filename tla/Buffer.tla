------------------------------- MODULE Buffer -------------------------------
(***************************************************************************)
(* TcpConnection/Buffer: a vector of bytes and two indices.  Bytes wait    *)
(* between readIndex_ and writeIndex_; the first kprepIndex ones are never *)
(* used.  ConnectionBuffers uses it in the two ways TcpConn does.          *)
(*                                                                         *)
(* Indices and lengths are size_t: Add and Sub are modulo Word.            *)
(***************************************************************************)
EXTENDS Naturals

CONSTANTS Prep,       \* kprepIndex
          InitRoom,   \* kinitRoom
          Word        \* 2^64, the number of values of a size_t

ASSUME BufferAssumption ==
    /\ {Prep, InitRoom, Word} \subseteq Nat \ {0}
    /\ Prep + InitRoom < Word

Add(a, b) == IF a + b < Word THEN a + b ELSE a + b - Word
Sub(a, b) == IF a >= b THEN a - b ELSE Word - (b - a)

\* The vector is cells, of length size, indexed from 0; unset bytes are 0.
Fresh == [cells |-> [i \in 0 .. Prep + InitRoom - 1 |-> 0],
          size |-> Prep + InitRoom, read |-> Prep, write |-> Prep]

ReadAble(b) == Sub(b.write, b.read)
WriteAble(b) == Sub(b.size, b.write)

\* vector::resize
Resize(b, n) ==
    [b EXCEPT !.cells = [i \in 0 .. n - 1 |-> IF i < b.size THEN b.cells[i] ELSE 0],
              !.size = n]

RetrieveAll(b) == [b EXCEPT !.read = Prep, !.write = Prep]

\* The bytes that wait are moved to the front.
Shift(b) ==
    [b EXCEPT !.cells = [i \in 0 .. b.size - 1 |->
                            IF i \in Prep .. Prep + ReadAble(b) - 1
                            THEN b.cells[b.read + (i - Prep)] ELSE b.cells[i]],
              !.read = Prep,
              !.write = Prep + ReadAble(b)]

\* (a free byte too few makes the vector grow by nothing)
MutEnlargeShort(b, len) ==
    IF Add(Sub(b.read, Prep), WriteAble(b)) + 1 >= len
    THEN Shift(b)
    ELSE Resize(b, Add(b.write, len))

EnlargeSpace(b, len) ==
    IF Add(Sub(b.read, Prep), WriteAble(b)) >= len
    THEN Shift(b)
    ELSE Resize(b, Add(b.write, len))

EnsureWriteAble(b, len) == IF len > WriteAble(b) THEN EnlargeSpace(b, len) ELSE b

HasWritten(b, len) == [b EXCEPT !.write = Add(@, len)]

\* The asserts of ensureWriteAble and of hasWritten ask for the same.
AppendAssert(b, len) == WriteAble(EnsureWriteAble(b, len)) >= len

\* The bytes first + 1 .. first + len are put at the write index.
Copied(b, first, len) ==
    [b EXCEPT !.cells = [i \in 0 .. b.size - 1 |->
                            IF i \in b.write .. b.write + len - 1
                            THEN first + (i - b.write) + 1 ELSE b.cells[i]]]

\* append, of len bytes that are numbered from first + 1
AppendBytes(b, first, len) ==
    HasWritten(Copied(EnsureWriteAble(b, len), first, len), len)

\* (what was taken stays in front when the rest is kept)
MutRetrieve(b, len) ==
    IF len < ReadAble(b) THEN [b EXCEPT !.write = Sub(@, len)] ELSE RetrieveAll(b)

Retrieve(b, len) ==
    IF len < ReadAble(b) THEN [b EXCEPT !.read = Add(@, len)] ELSE RetrieveAll(b)
=============================================================================
