---------------------------- MODULE ChannelEvents ----------------------------
(***************************************************************************)
(* The event masks of one connection, and the replies they get written:    *)
(* Channel::events_ and revents_, the interest epoll holds, and TcpConn's  *)
(* outputBuffer_.  All of it runs in the thread of one loop; the client    *)
(* and the kernel act in between.                                          *)
(*                                                                         *)
(* Epoll::epoll_mod skips the system call when revents_ equals events_, but *)
(* revents_ has two writers: what epoll reports, and the copy of events_   *)
(* that epoll_mod itself leaves there.  handleEvent goes on with that copy. *)
(*                                                                         *)
(* A reply is ReplySize units long, whatever it says; a read that brings   *)
(* data gets one reply (HttpRequest).                                      *)
(***************************************************************************)
EXTENDS Naturals, FiniteSets

CONSTANTS ReplySize,   \* units of a reply
          SendSpace,   \* units the kernel's send buffer holds
          MaxOutput    \* bound: the client sends nothing more while
                       \* outputBuffer_ holds this much

ASSUME SizesAssumption == {ReplySize, SendSpace, MaxOutput} \subseteq Nat \ {0}

ReadEvents == {"in", "pri"}
WriteEvents == {"out"}
Masks == SUBSET (ReadEvents \cup WriteEvents)
Unregistered == {"unregistered"}

VARIABLES
    (* the kernel and the client *)
    interest,    \* what epoll watches the descriptor for, or Unregistered
    peer,        \* "open", "fin" or "rst"
    unread,      \* data not read yet
    sockError,   \* a reset no call has reported yet
    inFlight,    \* units in the send buffer
    (* the server *)
    events, revents, addToLoop,      \* of the Channel
    output,      \* readable units of outputBuffer_
    handling     \* "no", or the part of handleEvent to come: "in", "out", "hup"

kernelVars == <<peer, unread, sockError, inFlight>>
channelVars == <<interest, events, revents, addToLoop>>
vars == <<interest, peer, unread, sockError, inFlight, events, revents,
          addToLoop, output, handling>>

Init ==
    /\ interest = Unregistered
    /\ peer = "open" /\ unread = FALSE /\ sockError = FALSE /\ inFlight = 0
    /\ events = {} /\ revents = {} /\ addToLoop = FALSE
    /\ output = 0
    /\ handling = "no"

-----------------------------------------------------------------------------
(* Channel::update, with epoll_add and epoll_mod.  An operator named Mut...  *)
(* is a plausible bug: the definition after it, gone wrong.                  *)

\* (a channel that was told to be quiet is not told to epoll)
MutUpdate(mask) ==
    /\ events' = mask
    /\ IF addToLoop
       THEN interest' = IF mask \subseteq interest THEN interest ELSE mask
       ELSE interest' = mask
    /\ revents' = mask

\* The mask is changed; epoll_add if the channel is new, else epoll_mod, which
\* skips the call when the mask is the one in revents_.
Update(mask) ==
    /\ events' = mask
    /\ IF addToLoop
       THEN interest' = IF revents = mask THEN interest ELSE mask
       ELSE interest' = mask
    /\ revents' = mask

EnableReading == Update(events \cup ReadEvents) /\ addToLoop' = TRUE
EnableWriting == Update(events \cup WriteEvents) /\ UNCHANGED addToLoop
DisableWriting == Update(events \ WriteEvents) /\ UNCHANGED addToLoop
DisableAll == Update({}) /\ UNCHANGED addToLoop

IsWriting == events \cap WriteEvents # {}
Registered == interest # Unregistered

-----------------------------------------------------------------------------
(* The client and the kernel. *)

Send ==
    /\ peer = "open" /\ ~unread
    /\ output < MaxOutput
    /\ unread' = TRUE
    /\ UNCHANGED <<channelVars, peer, sockError, inFlight, output, handling>>

HalfClose ==
    /\ peer = "open"
    /\ peer' = "fin"
    /\ UNCHANGED <<channelVars, unread, sockError, inFlight, output, handling>>

Reset ==
    /\ peer # "rst"
    /\ peer' = "rst"
    /\ sockError' = TRUE
    /\ UNCHANGED <<channelVars, unread, inFlight, output, handling>>

\* The client takes what was sent.
Drain ==
    /\ peer # "rst"
    /\ inFlight > 0
    /\ inFlight' = inFlight - 1
    /\ UNCHANGED <<channelVars, peer, unread, sockError, output, handling>>

-----------------------------------------------------------------------------
(* The loop. *)

\* TcpConn::connectEstablished
ConnectEstablished ==
    /\ handling = "no" /\ ~addToLoop
    /\ EnableReading
    /\ UNCHANGED <<kernelVars, output, handling>>

\* What epoll_wait reports: the state of the socket, urgent data if the client
\* sent some, as far as the mask asks for it; an error and a hang-up always.
Reported(urgent) ==
    LET readable == unread \/ peer # "open"
        socket == (IF readable THEN {"in"} ELSE {})
                  \cup (IF readable /\ urgent THEN {"pri"} ELSE {})
                  \cup (IF inFlight < SendSpace \/ peer = "rst" THEN {"out"} ELSE {})
    IN  (socket \cap interest) \cup (IF peer = "rst" THEN {"err", "hup"} ELSE {})

\* Epoll::poll and getRequestChan
Poll(urgent) ==
    /\ handling = "no" /\ Registered
    /\ Reported(urgent) # {}
    /\ revents' = Reported(urgent)
    /\ handling' = "in"
    /\ UNCHANGED <<kernelVars, interest, events, addToLoop, output>>

\* (the reply waits until the client sends again)
MutReply ==
    /\ unread
    /\ unread' = FALSE
    /\ output' = output + ReplySize
    /\ UNCHANGED <<channelVars, sockError>>

\* TcpConn::handleRead, data: the reply is put into outputBuffer_
\* (analyseDataFromConn), then writeEstablished.
Reply ==
    /\ unread
    /\ unread' = FALSE
    /\ output' = output + ReplySize
    /\ EnableWriting
    /\ UNCHANGED sockError

\* The first test of Channel::handleEvent, and TcpConn::handleRead: data, an
\* error (ignored), or the end of the stream.
HandleRead ==
    /\ handling = "in" /\ revents \cap ReadEvents # {}
    /\ handling' = "out"
    /\ \/ Reply
       \/ /\ ~unread /\ sockError
          /\ sockError' = FALSE
          /\ UNCHANGED <<channelVars, unread, output>>
       \/ /\ ~unread /\ ~sockError /\ peer # "open"
          /\ DisableAll
          /\ UNCHANGED <<unread, sockError, output>>
       \/ /\ ~unread /\ ~sockError /\ peer = "open"      \* nothing to read
          /\ UNCHANGED <<channelVars, unread, sockError, output>>
    /\ UNCHANGED <<peer, inFlight>>

\* (the channel is not told when everything is written)
MutWritten(n) ==
    /\ inFlight' = inFlight + n
    /\ output' = output - n
    /\ UNCHANGED channelVars

\* The write takes n units out of outputBuffer_.
Written(n) ==
    /\ inFlight' = inFlight + n
    /\ output' = output - n
    /\ \/ output' = 0 /\ DisableWriting
       \/ output' > 0 /\ UNCHANGED channelVars

\* The second test, and TcpConn::handleWrite; revents may be what an
\* enableWriting in handleRead has left.  A write that fails changes nothing.
HandleWrite ==
    /\ handling = "out" /\ revents \cap WriteEvents # {}
    /\ handling' = "hup"
    /\ \/ /\ IsWriting /\ peer # "rst"
          /\ \E n \in 1 .. output :
                /\ n = output \/ n = SendSpace - inFlight
                /\ inFlight + n <= SendSpace
                /\ Written(n)
          /\ UNCHANGED sockError
       \/ /\ IsWriting /\ peer # "rst" /\ (output = 0 \/ inFlight = SendSpace)
          /\ UNCHANGED <<channelVars, sockError, inFlight, output>>
       \/ /\ IsWriting /\ peer = "rst"
          /\ sockError' = FALSE
          /\ UNCHANGED <<channelVars, inFlight, output>>
       \/ /\ ~IsWriting
          /\ UNCHANGED <<channelVars, sockError, inFlight, output>>
    /\ UNCHANGED <<peer, unread>>

\* A test that fails.
Skip ==
    /\ \/ handling = "in" /\ revents \cap ReadEvents = {} /\ handling' = "out"
       \/ handling = "out" /\ revents \cap WriteEvents = {} /\ handling' = "hup"
    /\ UNCHANGED <<channelVars, kernelVars, output>>

\* The third test; a hang-up asks for the connection to be removed, which
\* Remove does whenever the loop gets the task (ConnectionLifecycle).
HandleHangUp ==
    /\ handling = "hup"
    /\ handling' = "no"
    /\ UNCHANGED <<channelVars, kernelVars, output>>

\* TcpConn::connectDestroyed and epoll_del, after a hang-up or the timer.
Remove ==
    /\ handling = "no" /\ Registered
    /\ interest' = Unregistered
    /\ UNCHANGED <<kernelVars, events, revents, addToLoop, output, handling>>

LoopStep ==
    \/ ConnectEstablished
    \/ \E urgent \in BOOLEAN : Poll(urgent)
    \/ HandleRead
    \/ HandleWrite
    \/ Skip
    \/ HandleHangUp

Next == LoopStep \/ Send \/ HalfClose \/ Reset \/ Drain \/ Remove

Spec == Init /\ [][Next]_vars

\* The loop runs, and a client reads what it is sent; it need not send, close
\* or reset, and nothing makes the timer expire.
FairSpec == Spec /\ WF_vars(LoopStep) /\ WF_vars(Drain)

-----------------------------------------------------------------------------
(* Properties. *)

\* Every variable holds a value of its kind, and the kernel's buffer no more
\* than it can.
TypeOK ==
    /\ interest \in Masks \cup {Unregistered}
    /\ peer \in {"open", "fin", "rst"}
    /\ unread \in BOOLEAN /\ sockError \in BOOLEAN
    /\ inFlight \in 0 .. SendSpace
    /\ events \in Masks
    /\ revents \subseteq ReadEvents \cup WriteEvents \cup {"err", "hup"}
    /\ addToLoop \in BOOLEAN
    /\ output \in Nat
    /\ handling \in {"no", "in", "out", "hup"}

\* epoll watches the descriptor for exactly what the Channel asks for, although
\* epoll_mod leaves out calls it takes for superfluous.
InterestInSync == Registered => interest = events

\* The loop is woken for writing exactly while there is something to write, so
\* that no reply is forgotten and no loop spins on an empty buffer; after the
\* end of the client's stream nothing is watched any more.
OutputWatched ==
    Registered /\ handling = "no" /\ events # {} => (IsWriting <=> output > 0)

\* While a reply waits to be written, and the client keeps its side open and the
\* connection lasts, units of it are written again and again, however slowly the
\* client reads and whatever epoll_mod has left out.
RepliesWritten ==
    <>[](output > 0 /\ peer = "open" /\ Registered)
        => []<><<output' < output>>_output

\* epoll_wait returns for this connection exactly when there is something to do: data
\* or the end of the stream to read, or a reply to write and room for it. A loop is
\* never deaf to a client that keeps its side open, and never spins on one that has
\* nothing to say; only a reset is reported until the connection is removed, and who
\* has half-closed is heard no more.
WokenForWork ==
    Registered /\ handling = "no" =>
        /\ peer = "open" => events # {}
        /\ \A urgent \in BOOLEAN :
              Reported(urgent) # {} <=>
                  \/ peer = "rst"
                  \/ /\ events # {}
                     /\ unread \/ peer = "fin" \/ (output > 0 /\ inFlight < SendSpace)
===============================================================================
