-------------------------- MODULE ConnectionBuffers --------------------------
(***************************************************************************)
(* The two buffers of a TcpConn.  handleRead reads into inputBuffer_       *)
(* (readFd), loadDataFromBuf takes everything out of it again, process_    *)
(* write appends the pieces of the reply to outputBuffer_, and handleWrite *)
(* takes from its front what write(2) has accepted.  The loop handles one  *)
(* event after the other.                                                  *)
(*                                                                         *)
(* The code never looks at a byte here, so in outputBuffer_ a byte is its  *)
(* position in the stream of all that was appended; in inputBuffer_ it is  *)
(* its position in the last read, and 0 if an older read left it.          *)
(*                                                                         *)
(* readFd reads into the room of the vector and a second array on the      *)
(* stack.  When the room is filled it appends n - writeIndex_ bytes of the *)
(* array, where n - writeAble are in it.  If n is less than writeIndex_,   *)
(* the length wraps, resize makes the vector smaller, every assert holds,  *)
(* and what std::copy does with the reversed range is undefined: compilers *)
(* make it a memmove of a huge length, or nothing.                         *)
(***************************************************************************)
EXTENDS Buffer

CONSTANTS ExtraBuf,     \* size of the array on the stack
          MaxAppend,    \* the longest piece of a reply
          MaxRead,      \* bound: the longest read
          MaxWaiting,   \* bound: nothing is appended while more bytes wait
          MaxSent       \* bound: bytes appended in all

\* No vector gets so large that an index wraps.
ASSUME SizesAssumption ==
    /\ {ExtraBuf, MaxAppend, MaxRead, MaxWaiting, MaxSent} \subseteq Nat
    /\ 2 * (Prep + InitRoom + MaxRead) < Word
    /\ Prep + InitRoom + MaxWaiting + 3 * MaxAppend < Word

VARIABLES
    input,    \* inputBuffer_
    got,      \* what the last read returned
    filled,   \* the last read filled the room
    output,   \* outputBuffer_
    sent,     \* bytes appended to it so far
    taken,    \* bytes of it the kernel has taken so far
    phase     \* "idle"; "read" or "reply" in messageCallback_; "closed"; "dead"

inVars == <<input, got, filled>>
outVars == <<output, sent, taken>>
vars == <<input, got, filled, output, sent, taken, phase>>

Init ==
    /\ input = Fresh /\ got = 0 /\ filled = FALSE
    /\ output = Fresh /\ sent = 0 /\ taken = 0
    /\ phase = "idle"

-----------------------------------------------------------------------------
(* Reading. *)

\* The first bytes of the read, in the room of the vector.
Received(b, n) ==
    [b EXCEPT !.cells = [i \in 0 .. b.size - 1 |->
                            IF i \in b.write .. b.write + n - 1
                            THEN i - b.write + 1 ELSE 0]]

\* (a read that leaves one byte free is not taken for a short one)
MutShortRead(b, n) == n + 1 < WriteAble(b)

\* The room has not been filled.
ShortRead(b, n) == n < WriteAble(b)

\* The buffers a read of n bytes may leave; none if an assert fails.
ReadResults(b, n) ==
    LET room == WriteAble(b)
        into == Received(b, n)
        full == [into EXCEPT !.write = b.size]
        len == Sub(n, full.write)
    IN  IF ShortRead(b, n) THEN {HasWritten(into, n)}
        ELSE IF ~AppendAssert(full, len) THEN {}
        ELSE IF n >= full.write THEN {AppendBytes(full, room, len)}
        ELSE {HasWritten(EnsureWriteAble(full, len), len)}

\* The copy is of a reversed range.
CopyUndefined(b, n) == n >= WriteAble(b) /\ n < b.size

\* TcpConn::handleRead; n is what readv returns.  A failing readv changes
\* nothing; the end of the stream stops the reading.
ReadFd(n) ==
    /\ phase = "idle"
    /\ n <= WriteAble(input) + ExtraBuf
    /\ got' = n /\ filled' = (n >= WriteAble(input))
    /\ \/ /\ input' \in ReadResults(input, n)
          /\ phase' = IF n = 0 THEN "closed" ELSE "read"
       \/ /\ CopyUndefined(input, n) \/ ReadResults(input, n) = {}
          /\ input' = input /\ phase' = "dead"
    /\ UNCHANGED outVars

\* loadDataFromBuf takes everything.  A string of a length that has wrapped
\* cannot be made: std::length_error, which nobody catches.
RetrieveAllString ==
    /\ phase = "read"
    /\ IF input.read <= input.write
       THEN phase' = "reply" /\ input' = RetrieveAll(input)
       ELSE phase' = "dead" /\ input' = input
    /\ UNCHANGED <<got, filled, outVars>>

-----------------------------------------------------------------------------
(* Writing. *)

\* process_write puts a piece of the reply into the buffer.
AppendReply(len) ==
    /\ phase = "reply"
    /\ ReadAble(output) <= MaxWaiting /\ sent + len <= MaxSent
    /\ IF AppendAssert(output, len)
       THEN output' = AppendBytes(output, sent, len) /\ sent' = sent + len /\ phase' = phase
       ELSE phase' = "dead" /\ UNCHANGED <<output, sent>>
    /\ UNCHANGED <<inVars, taken>>

\* The reply is complete (or there is none), the callback returns.
EndReply ==
    /\ phase = "reply"
    /\ phase' = "idle"
    /\ UNCHANGED <<inVars, outVars>>

\* TcpConn::handleWrite: the kernel accepts n bytes.
Write(n) ==
    /\ phase = "idle"
    /\ n <= ReadAble(output)
    /\ output' = Retrieve(output, n)
    /\ taken' = taken + n
    /\ UNCHANGED <<inVars, sent, phase>>

Next ==
    \/ \E n \in 0 .. MaxRead : ReadFd(n)
    \/ RetrieveAllString
    \/ \E len \in 1 .. MaxAppend : AppendReply(len)
    \/ EndReply
    \/ \E n \in 1 .. ReadAble(output) : Write(n)

Spec == Init /\ [][Next]_vars

-----------------------------------------------------------------------------
(* Properties. *)

\* A buffer whose vector is as long as its size says.
BufferType(b) ==
    /\ b = [cells |-> b.cells, size |-> b.size, read |-> b.read, write |-> b.write]
    /\ b.size \in 0 .. Word - 1
    /\ b.cells \in [0 .. b.size - 1 -> Nat]
    /\ b.read \in Nat /\ b.write \in 0 .. b.size

\* Every variable holds a value of its kind, and the indices of outputBuffer_
\* are in order and inside its vector.
TypeOK ==
    /\ BufferType(input) /\ input.read = Prep
    /\ got \in Nat /\ filled \in BOOLEAN
    /\ BufferType(output) /\ Prep <= output.read /\ output.read <= output.write
    /\ sent \in Nat /\ taken \in Nat
    /\ phase \in {"idle", "read", "reply", "closed", "dead"}

\* What waits in outputBuffer_ is exactly what was appended and not taken, in that
\* order, however appending, shifting, growing and partial writes follow each other.
InOrder ==
    /\ taken <= sent /\ output.write - output.read = sent - taken
    /\ \A i \in output.read .. output.write - 1 :
          output.cells[i] = taken + (i - output.read) + 1

\* Seen from outside the buffer is a queue of bytes: replies are put at its end, what the
\* kernel accepts is taken from its front, and nothing else ever changes what waits.
Waiting == [i \in 1 .. ReadAble(output) |-> output.cells[output.read + i - 1]]
Reply == INSTANCE Stream WITH waiting <- Waiting, given <- sent
StreamSpec == Reply!Spec

\* The vector of outputBuffer_ grows with what waits, never with what has passed
\* through it: the room in front is used again before more is asked for.
RoomBounded == output.size <= Prep + InitRoom + MaxWaiting + 2 * MaxAppend

\* What is handed on is the beginning of what was read, never a byte left by an
\* older request: the whole of it, or, if the read filled the room, all but its
\* last kprepIndex bytes.
BeginningDelivered ==
    phase = "read" /\ Prep <= input.write =>
        /\ ReadAble(input) + (IF filled THEN Prep ELSE 0) = got
        /\ \A i \in input.read .. input.write - 1 : input.cells[i] = i - input.read + 1

\* No assert of outputBuffer_ fails, and a read does no harm, after whatever reads
\* before it, if it leaves a byte of the room free or is longer than the vector:
\* only one in between may end the process.
OnlyFullReadsHurt == phase = "dead" => filled /\ got <= input.size

=============================================================================
