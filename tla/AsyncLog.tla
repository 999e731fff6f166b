------------------------------- MODULE AsyncLog -------------------------------
(***************************************************************************)
(* AsyncLogging: the threads of the server append messages to a buffer, a  *)
(* thread of its own collects the buffers and writes them to the file.     *)
(* Four buffers are enough as long as it keeps up; more are allocated when *)
(* it does not, and when too many have come together all but two of them   *)
(* are thrown away, with a note in the file.                               *)
(*                                                                         *)
(* What happens under mutex_ is one step.  running_ is a plain bool, read  *)
(* outside the mutex; the calls in between make every build read it again. *)
(***************************************************************************)
EXTENDS Naturals, Sequences, SequencesExt

CONSTANTS Heap,         \* the addresses new Buffer may return
          BufferSize,   \* kLargeBuffer, in messages of one size
          MaxBuffers,   \* more of them are not written (25)
          MaxMessages   \* bound: messages appended

Null == 0
Kept == 2   \* buffers that are written all the same

ASSUME LogAssumption ==
    /\ Null \notin Heap
    /\ BufferSize \in Nat /\ BufferSize > 1
    /\ MaxBuffers \in Nat /\ MaxBuffers >= Kept
    /\ MaxMessages \in Nat

VARIABLES current, next, buffers,    \* currentBuffer_, nextBuffer_, buffers_
          new1, new2, toWrite,       \* newBuffer1, newBuffer2, buffersToWrite
          data,      \* what is in each buffer; a message is its number
          written,   \* buffers of toWrite written so far (i of the loop)
          pc,        \* the logging thread
          running,
          life,      \* the thread that starts and stops it
          file,      \* what was given to LogFile::append, in order
          flushed,   \* how much of it has left the process
          appended, dropped, owed    \* history: messages, those thrown away,
                                     \* the last one stop() is sure to save
front == <<current, next, buffers>>
back == <<new1, new2, toWrite, written>>
output == <<file, flushed>>
history == <<appended, dropped, owed>>
vars == <<front, back, data, pc, running, life, output, history>>

Announcement == 0    \* "throw out surplus messeges at ..."

Pointers == <<current, next, new1, new2>> \o buffers \o toWrite

\* new Buffer: memory nobody holds.
Unused(b) == b \in Heap /\ b \notin ToSet(Pointers)
NewBuffer == CHOOSE b \in Heap : Unused(b)

Init ==
    /\ current = CHOOSE b \in Heap : TRUE
    /\ next = CHOOSE b \in Heap : b # current
    /\ buffers = << >>
    /\ new1 = Null /\ new2 = Null /\ toWrite = << >> /\ written = 0
    /\ data = [b \in Heap |-> << >>]
    /\ pc = "none" /\ running = FALSE /\ life = "new"
    /\ file = << >> /\ flushed = 0
    /\ appended = 0 /\ dropped = {} /\ owed = 0

-----------------------------------------------------------------------------
(* The other threads.                                                      *)

\* start, by the first message of the process (pthread_once): running_ before
\* the thread, or its first assert fails.
Start ==
    /\ life = "new"
    /\ running' = TRUE /\ pc' = "begin" /\ life' = "starting"
    /\ UNCHANGED <<front, back, data, output, history>>

\* latch_.wait returns.
Started ==
    /\ life = "starting" /\ pc # "begin"
    /\ life' = "up"
    /\ UNCHANGED <<front, back, data, pc, running, output, history>>

Fits(b) == BufferSize - Len(data[b]) > 1

\* (the buffer that is full is replaced, but not kept for the logging thread)
MutAppend ==
    /\ life \in {"up", "stopping"} /\ appended < MaxMessages
    /\ appended' = appended + 1
    /\ data' = [data EXCEPT ![current] = IF Fits(current) THEN Append(@, appended + 1)
                                                          ELSE <<appended + 1>>]
    /\ UNCHANGED <<front, back, pc, running, life, output, dropped, owed>>

\* append.  Threads of the server may still log while the process is ending.
AppendMessage ==
    /\ life \in {"up", "stopping"} /\ appended < MaxMessages
    /\ appended' = appended + 1
    /\ IF Fits(current)
       THEN UNCHANGED front
       ELSE /\ buffers' = Append(buffers, current)
            /\ current' = IF next # Null THEN next ELSE NewBuffer
            /\ next' = Null
    /\ data' = [data EXCEPT ![current'] = Append(IF Unused(current') THEN << >> ELSE @, appended + 1)]
    /\ UNCHANGED <<back, pc, running, life, output, dropped, owed>>

\* stop, called when the process exits: the notification is not waited for.
\* Whoever has to go round the loop once more saves all that is there.
Stop ==
    /\ life = "up"
    /\ running' = FALSE /\ life' = "stopping"
    /\ owed' = IF pc \in {"lock", "wait"} THEN appended ELSE owed
    /\ UNCHANGED <<front, back, data, pc, output, appended, dropped>>

\* thread_.join returns.
Join ==
    /\ life = "stopping" /\ pc = "end"
    /\ life' = "stopped"
    /\ UNCHANGED <<front, back, data, pc, running, output, history>>

-----------------------------------------------------------------------------
(* The logging thread: threadFunc.                                         *)

\* The latch is counted down before the buffers are there.
ThreadStart ==
    /\ pc = "begin"
    /\ pc' = "allocate"
    /\ UNCHANGED <<front, back, data, running, life, output, history>>

Allocate ==
    /\ pc = "allocate"
    /\ new1' = NewBuffer
    /\ new2' = CHOOSE b \in Heap : Unused(b) /\ b # new1'
    /\ data' = [data EXCEPT ![new1'] = << >>, ![new2'] = << >>]
    /\ pc' = "top"
    /\ UNCHANGED <<front, toWrite, written, running, life, output, history>>

\* while(running_)
Top ==
    /\ pc = "top"
    /\ pc' = IF running THEN "lock" ELSE "finish"
    /\ UNCHANGED <<front, back, data, running, life, output, history>>

\* (running_ is looked at once more)
MutWait ==
    /\ pc = "lock" /\ buffers = << >>
    /\ pc' = IF running THEN "wait" ELSE "top"
    /\ UNCHANGED <<front, back, data, running, life, output, history>>

\* Nothing to collect: waitForSeconds, which gives mutex_ back.
Wait ==
    /\ pc = "lock" /\ buffers = << >>
    /\ pc' = "wait"
    /\ UNCHANGED <<front, back, data, running, life, output, history>>

\* (nextBuffer_ is replaced although it is there)
MutSwap ==
    /\ pc = "wait" \/ (pc = "lock" /\ buffers # << >>)
    /\ toWrite' = Append(buffers, current) /\ written' = 0
    /\ buffers' = << >>
    /\ current' = new1 /\ new1' = Null
    /\ next' = new2 /\ new2' = Null
    /\ owed' = appended
    /\ pc' = "cut"
    /\ UNCHANGED <<data, running, life, output, appended, dropped>>

\* (the wait is repeated until a buffer is full)
MutSwapFull ==
    /\ pc \in {"lock", "wait"} /\ buffers # << >>
    /\ toWrite' = Append(buffers, current) /\ written' = 0
    /\ buffers' = << >>
    /\ current' = new1 /\ new1' = Null
    /\ IF next = Null THEN next' = new2 /\ new2' = Null ELSE UNCHANGED <<next, new2>>
    /\ owed' = appended
    /\ pc' = "cut"
    /\ UNCHANGED <<data, running, life, output, appended, dropped>>

\* All buffers are collected: at once if one is full, else when the wait is
\* over, by a notification or by itself.
Swap ==
    /\ pc = "wait" \/ (pc = "lock" /\ buffers # << >>)
    /\ toWrite' = Append(buffers, current) /\ written' = 0
    /\ buffers' = << >>
    /\ current' = new1 /\ new1' = Null
    /\ IF next = Null THEN next' = new2 /\ new2' = Null ELSE UNCHANGED <<next, new2>>
    /\ owed' = appended
    /\ pc' = "cut"
    /\ UNCHANGED <<data, running, life, output, appended, dropped>>

\* What was written may leave the process by itself (stdio's buffer is full, or
\* flushEveryN buffers are together).
MayFlush == flushed' \in {flushed, Len(file')}

MessagesIn(bs) == UNION {ToSet(data[b]) : b \in ToSet(bs)}

\* (nothing is said about it)
MutCut ==
    /\ pc = "cut"
    /\ IF Len(toWrite) > MaxBuffers
       THEN /\ dropped' = dropped \cup MessagesIn(SubSeq(toWrite, Kept + 1, Len(toWrite)))
            /\ toWrite' = SubSeq(toWrite, 1, Kept)
       ELSE UNCHANGED <<toWrite, dropped>>
    /\ pc' = "write"
    /\ UNCHANGED <<front, new1, new2, written, data, running, life, output, appended, owed>>

\* Too many: all but two are thrown away.
Cut ==
    /\ pc = "cut"
    /\ IF Len(toWrite) > MaxBuffers
       THEN /\ file' = Append(file, Announcement) /\ MayFlush
            /\ dropped' = dropped \cup MessagesIn(SubSeq(toWrite, Kept + 1, Len(toWrite)))
            /\ toWrite' = SubSeq(toWrite, 1, Kept)
       ELSE UNCHANGED <<output, toWrite, dropped>>
    /\ pc' = "write"
    /\ UNCHANGED <<front, new1, new2, written, data, running, life, appended, owed>>

\* LogFile::append of one buffer.
WriteBuffer ==
    /\ pc = "write" /\ written < Len(toWrite)
    /\ file' = file \o data[toWrite[written + 1]] /\ MayFlush
    /\ written' = written + 1
    /\ UNCHANGED <<front, new1, new2, toWrite, data, pc, running, life, history>>

\* How many of the spare buffers have to be replaced.
Missing == (IF new1 = Null THEN 1 ELSE 0) + (IF new2 = Null THEN 1 ELSE 0)

\* (back without pop_back)
MutRefill ==
    /\ pc = "write" /\ written = Len(toWrite)
    /\ LET spare == SubSeq(toWrite, 1, IF Len(toWrite) > Kept THEN Kept ELSE Len(toWrite))
       IN  /\ new1' = IF new1 = Null THEN Last(spare) ELSE new1
           /\ new2' = IF new2 = Null THEN Last(spare) ELSE new2
           /\ data' = [b \in Heap |-> IF b \in {new1', new2'} THEN << >> ELSE data[b]]
    /\ flushed' = Len(file)
    /\ toWrite' = << >> /\ written' = 0
    /\ pc' = "top"
    /\ UNCHANGED <<front, running, life, file, history>>

\* The buffers that have gone to the front are replaced by written ones, from the
\* back; the others are freed, the file is flushed.
Refill ==
    /\ pc = "write" /\ written = Len(toWrite)
    /\ LET spare == SubSeq(toWrite, 1, IF Len(toWrite) > Kept THEN Kept ELSE Len(toWrite))
           n == Len(spare)
       IN  /\ new1' = IF new1 = Null THEN spare[n] ELSE new1
           /\ new2' = IF new2 = Null THEN spare[IF new1 = Null THEN n - 1 ELSE n] ELSE new2
           /\ data' = [b \in Heap |-> IF b \in {new1', new2'} THEN << >> ELSE data[b]]
    /\ flushed' = Len(file)
    /\ toWrite' = << >> /\ written' = 0
    /\ pc' = "top"
    /\ UNCHANGED <<front, running, life, file, history>>

\* The last flush; the buffers of the thread are freed.
Finish ==
    /\ pc = "finish"
    /\ flushed' = Len(file)
    /\ new1' = Null /\ new2' = Null
    /\ pc' = "end"
    /\ UNCHANGED <<front, toWrite, written, data, running, life, file, history>>

Logging ==
    \/ ThreadStart \/ Allocate \/ Top \/ Wait \/ Swap \/ Cut \/ WriteBuffer
    \/ Refill \/ Finish

Next == Start \/ Started \/ AppendMessage \/ Stop \/ Join \/ Logging

Spec == Init /\ [][Next]_vars

\* The thread is scheduled, the timed wait ends; who waits for it goes on.
FairSpec == Spec /\ WF_vars(Logging) /\ WF_vars(Started) /\ WF_vars(Join)

-----------------------------------------------------------------------------
(* Properties.                                                             *)

Buffer == Heap \cup {Null}

\* Every variable holds a value of its kind, and no buffer is ever filled to its
\* end (FixedBuffer::append would abort).
TypeOK ==
    /\ {current, next, new1, new2} \subseteq Buffer
    /\ buffers \in Seq(Heap) /\ toWrite \in Seq(Heap)
    /\ data \in [Heap -> Seq(Nat)] /\ \A b \in Heap : Len(data[b]) < BufferSize
    /\ written \in 0 .. Len(toWrite)
    /\ pc \in {"none", "begin", "allocate", "top", "lock", "wait", "cut", "write", "finish", "end"}
    /\ running \in BOOLEAN /\ life \in {"new", "starting", "up", "stopping", "stopped"}
    /\ file \in Seq(Nat) /\ flushed \in 0 .. Len(file)
    /\ appended \in Nat /\ dropped \subseteq Nat /\ owed \in 0 .. appended

\* The asserts of threadFunc, which a build with NDEBUG would turn into writes
\* through null: it starts only with running_ set, has two empty buffers whenever it
\* comes round, and has written enough of them to replace those the front has taken.
SparesReady ==
    /\ pc = "begin" => running \/ life # "starting"
    /\ pc \in {"top", "lock", "wait"} =>
          new1 # Null /\ new2 # Null /\ data[new1] = << >> /\ data[new2] = << >> /\ toWrite = << >>
    /\ pc \in {"cut", "write"} => Len(toWrite) >= Missing

\* No buffer is in two places: what the threads of the server fill is never what
\* is being written, emptied or kept as a spare.
NoSharing ==
    \A i, j \in DOMAIN Pointers :
        i # j /\ Pointers[i] = Pointers[j] => Pointers[i] = Null

\* The buffers not yet written, and the messages in them.
Queued == {toWrite[i] : i \in written + 1 .. Len(toWrite)} \cup ToSet(buffers) \cup {current}
Waiting == UNION {ToSet(data[b]) : b \in Queued}

\* The messages get to the file in the order they were appended in, each once, but for
\* those thrown away, of which the file tells (Journal).
Log == INSTANCE Journal WITH waiting <- Waiting, accepted <- appended
JournalSpec == Log!Spec

\* Where messages are missing the file says so before the gap; it never says so
\* when all are there.
DropsAnnounced ==
    /\ \A x \in dropped : \E j \in DOMAIN file :
          file[j] = Announcement /\ \A i \in 1 .. j - 1 : file[i] < x
    /\ \A j \in DOMAIN file : file[j] = Announcement =>
          \E x \in dropped : \A i \in 1 .. j - 1 : file[i] < x

\* No message is lost on the way and none is written twice: each is in the file, at its
\* place, or in a buffer not yet written, or was thrown away, and only one of these.
AllAccountedFor ==
    /\ 1 .. appended = Waiting \cup dropped \cup (ToSet(file) \ {Announcement})
    /\ Waiting \cap dropped = {} /\ (Waiting \cup dropped) \cap ToSet(file) = {}
    /\ \A i, j \in DOMAIN file : i < j /\ file[j] # Announcement => file[i] < file[j]

\* After stop, all messages that were collected before it, or that the thread had yet
\* to go and collect, are in the file or announced as missing.
StopKeepsItsDebt ==
    life = "stopped" => \A x \in 1 .. owed : x \in dropped \cup ToSet(file)

\* Every message gets to the file, or is thrown away, or the process ends first.
EveryMessageWritten ==
    \A x \in 1 .. MaxMessages :
        appended >= x ~> x \in dropped \cup ToSet(SubSeq(file, 1, flushed)) \/ life # "up"

=============================================================================
