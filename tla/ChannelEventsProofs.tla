------------------------- MODULE ChannelEventsProofs -------------------------
(***************************************************************************)
(* The interest epoll holds is always events_, and the loop is woken for   *)
(* writing exactly while something waits, for replies and kernel buffers   *)
(* of every size.                                                          *)
(***************************************************************************)
EXTENDS ChannelEvents, TLAPS

(* A channel epoll does not know yet asks for nothing and has nothing to    *)
(* write; one whose events are being handled is known to epoll.             *)
KnownInv ==
    /\ ~addToLoop => ~Registered /\ events = {} /\ output = 0 /\ handling = "no"
    /\ handling # "no" => Registered

(* While events are handled, revents_ has no bit for reading or writing that *)
(* was not asked for: it is a report, or a copy of events_.                  *)
ReportInv ==
    handling # "no" => revents \cap (ReadEvents \cup WriteEvents) \subseteq events

(* OutputWatched, in the middle of an iteration too. *)
WatchInv == Registered /\ events # {} => (IsWriting <=> output > 0)

(* A channel that asks for anything asks for what can be read; it is silenced *)
(* only when the client has ended its stream.                                *)
HearInv ==
    /\ events # {} => ReadEvents \subseteq events
    /\ addToLoop /\ peer = "open" => events # {}

ChannelInv == TypeOK /\ KnownInv /\ InterestInSync /\ ReportInv /\ WatchInv

-----------------------------------------------------------------------------
(* A new mask, whether it reaches epoll or not. *)

(* Once the channel is known, an update leaves the interest in step with the *)
(* mask, if the mask is not the one in revents_ or is the old one.           *)
LEMMA UpdateInSync ==
    ASSUME NEW mask \in Masks, addToLoop, Registered, InterestInSync,
           mask # revents \/ mask = events, Update(mask)
    PROVE  events' = mask /\ revents' = mask /\ interest' = mask
BY DEF Update, InterestInSync

(* No mask is the mark of a channel that is not registered. *)
LEMMA MaskRegistered == \A mask \in Masks : mask # Unregistered
BY DEF Masks, ReadEvents, WriteEvents, Unregistered

LEMMA InitInv == Init => ChannelInv
<1> SUFFICES ASSUME Init
             PROVE  ChannelInv
  OBVIOUS
<1>1. unread \in BOOLEAN /\ sockError \in BOOLEAN /\ addToLoop \in BOOLEAN
  BY DEF Init
<1>2. TypeOK
  BY <1>1, SizesAssumption DEF Init, TypeOK, Masks
<1>3. ~Registered
  BY DEF Init, Registered
<1> QED
  BY <1>2, <1>3
     DEF Init, ChannelInv, KnownInv, InterestInSync, ReportInv, WatchInv

(* The steps of the client, and of the loop where it changes no mask. *)
LEMMA OutsideSteps ==
    ASSUME ChannelInv, Send \/ HalfClose \/ Reset \/ Drain
    PROVE  ChannelInv'
<1>1. CASE Send
  BY <1>1 DEF Send, ChannelInv, TypeOK, KnownInv, InterestInSync, ReportInv,
              WatchInv, Registered, IsWriting, channelVars
<1>2. CASE HalfClose
  BY <1>2 DEF HalfClose, ChannelInv, TypeOK, KnownInv, InterestInSync, ReportInv,
              WatchInv, Registered, IsWriting, channelVars
<1>3. CASE Reset
  BY <1>3 DEF Reset, ChannelInv, TypeOK, KnownInv, InterestInSync, ReportInv,
              WatchInv, Registered, IsWriting, channelVars
<1>4. CASE Drain
  BY <1>4, SizesAssumption
     DEF Drain, ChannelInv, TypeOK, KnownInv, InterestInSync, ReportInv,
         WatchInv, Registered, IsWriting, channelVars
<1> QED BY <1>1, <1>2, <1>3, <1>4

LEMMA QuietSteps ==
    ASSUME ChannelInv, Skip \/ HandleHangUp \/ Remove
    PROVE  ChannelInv'
<1>1. CASE Skip
  BY <1>1 DEF Skip, ChannelInv, TypeOK, KnownInv, InterestInSync, ReportInv,
              WatchInv, Registered, IsWriting, channelVars, kernelVars
<1>2. CASE HandleHangUp
  BY <1>2 DEF HandleHangUp, ChannelInv, TypeOK, KnownInv, InterestInSync,
              ReportInv, WatchInv, Registered, IsWriting, channelVars, kernelVars
<1>3. CASE Remove
  BY <1>3 DEF Remove, ChannelInv, TypeOK, KnownInv, InterestInSync,
              ReportInv, WatchInv, Registered, IsWriting, kernelVars
<1> QED BY <1>1, <1>2, <1>3

(* The channel becomes known with nothing to write. *)
LEMMA EstablishStep ==
    ASSUME ChannelInv, ConnectEstablished
    PROVE  ChannelInv'
<1>1. /\ events' = ReadEvents /\ revents' = ReadEvents /\ interest' = ReadEvents
      /\ addToLoop' = TRUE /\ output' = 0 /\ handling' = "no"
      /\ UNCHANGED kernelVars
  BY DEF ConnectEstablished, EnableReading, Update, ChannelInv, KnownInv, ReadEvents
<1>2. ReadEvents \in Masks /\ ReadEvents \cap WriteEvents = {}
  BY DEF Masks, ReadEvents, WriteEvents
<1> QED
  BY <1>1, <1>2 DEF ChannelInv, TypeOK, KnownInv, InterestInSync, ReportInv,
                    WatchInv, Registered, IsWriting, kernelVars, Unregistered

(* What epoll reports was asked for. *)
LEMMA PollStep ==
    ASSUME ChannelInv, NEW urgent \in BOOLEAN, Poll(urgent)
    PROVE  ChannelInv'
<1>1. /\ Registered /\ revents' = Reported(urgent) /\ handling' = "in"
      /\ UNCHANGED <<kernelVars, interest, events, addToLoop, output>>
  BY DEF Poll
<1>2. interest = events /\ interest \in Masks
  BY <1>1 DEF ChannelInv, TypeOK, InterestInSync, Registered
<1>3. /\ Reported(urgent) \subseteq interest \cup {"err", "hup"}
      /\ Reported(urgent) \cap (ReadEvents \cup WriteEvents) \subseteq interest
  BY DEF Reported, ReadEvents, WriteEvents
<1>4. revents' \subseteq ReadEvents \cup WriteEvents \cup {"err", "hup"}
  BY <1>1, <1>2, <1>3 DEF Masks
<1>5. addToLoop
  BY <1>1 DEF ChannelInv, KnownInv
<1> QED
  BY <1>1, <1>2, <1>3, <1>4, <1>5
     DEF ChannelInv, TypeOK, KnownInv, InterestInSync, ReportInv, WatchInv,
         Registered, IsWriting, kernelVars

-----------------------------------------------------------------------------
(* Handling: reading. *)

LEMMA ReadStep ==
    ASSUME ChannelInv, HandleRead
    PROVE  ChannelInv'
<1>1. /\ handling = "in" /\ handling' = "out" /\ revents \cap ReadEvents # {}
      /\ UNCHANGED <<peer, inFlight>>
  BY DEF HandleRead
<1>2. /\ addToLoop /\ Registered /\ interest = events /\ events \in Masks
      /\ revents \cap (ReadEvents \cup WriteEvents) \subseteq events
  BY <1>1 DEF ChannelInv, TypeOK, KnownInv, InterestInSync, ReportInv
<1>3. CASE Reply
  <2> DEFINE mask == events \cup WriteEvents
  <2>1. Update(mask) /\ UNCHANGED <<addToLoop, sockError>> /\ unread' = FALSE
        /\ output' = output + ReplySize
    BY <1>3 DEF Reply, EnableWriting
  <2>2. mask \in Masks /\ mask # {} /\ mask \cap WriteEvents # {}
    BY <1>2 DEF Masks, WriteEvents
  <2>3. mask # revents \/ mask = events
    BY <1>2 DEF Masks, WriteEvents
  <2>4. events' = mask /\ revents' = mask /\ interest' = mask
    BY <1>2, <2>1, <2>2, <2>3, UpdateInSync DEF ChannelInv
  <2>5. output' \in Nat /\ output' > 0
    BY <2>1, SizesAssumption DEF ChannelInv, TypeOK
  <2>6. unread' \in BOOLEAN /\ sockError' \in BOOLEAN /\ addToLoop' \in BOOLEAN
        /\ addToLoop'
    BY <1>2, <2>1 DEF ChannelInv, TypeOK
  <2>7. Registered'
    BY <2>2, <2>4, MaskRegistered DEF Registered
  <2> QED
    BY <1>1, <2>2, <2>4, <2>5, <2>6, <2>7
       DEF ChannelInv, TypeOK, KnownInv, InterestInSync, ReportInv, WatchInv,
           IsWriting, Masks
<1>4. CASE DisableAll /\ UNCHANGED <<unread, sockError, output>>
  <2>1. Update({}) /\ UNCHANGED addToLoop
    BY <1>4 DEF DisableAll
  <2>2. {} \in Masks /\ {} # revents
    BY <1>1 DEF Masks
  <2>3. events' = {} /\ revents' = {} /\ interest' = {}
    BY <1>2, <2>1, <2>2, UpdateInSync DEF ChannelInv
  <2>4. Registered'
    BY <2>2, <2>3, MaskRegistered DEF Registered
  <2> QED
    BY <1>1, <1>2, <1>4, <2>1, <2>2, <2>3, <2>4
       DEF ChannelInv, TypeOK, KnownInv, InterestInSync, ReportInv, WatchInv
<1>5. CASE /\ UNCHANGED <<channelVars, unread, output>>
           /\ sockError' \in BOOLEAN
  BY <1>1, <1>2, <1>5
     DEF ChannelInv, TypeOK, KnownInv, InterestInSync, ReportInv, WatchInv,
         Registered, IsWriting, channelVars
<1>6. \/ Reply
      \/ DisableAll /\ UNCHANGED <<unread, sockError, output>>
      \/ sockError' = FALSE /\ UNCHANGED <<channelVars, unread, output>>
      \/ UNCHANGED <<channelVars, unread, sockError, output>>
  BY DEF HandleRead
<1>7. sockError' = FALSE \/ sockError' = sockError => sockError' \in BOOLEAN
  BY DEF ChannelInv, TypeOK
<1> QED
  BY <1>3, <1>4, <1>5, <1>6, <1>7

-----------------------------------------------------------------------------
(* Handling: writing. *)

LEMMA WriteStep ==
    ASSUME ChannelInv, HandleWrite
    PROVE  ChannelInv'
<1>1. /\ handling = "out" /\ handling' = "hup" /\ revents \cap WriteEvents # {}
      /\ UNCHANGED <<peer, unread>>
  BY DEF HandleWrite
<1>2. /\ addToLoop /\ Registered /\ interest = events /\ events \in Masks
      /\ revents \cap (ReadEvents \cup WriteEvents) \subseteq events
  BY <1>1 DEF ChannelInv, TypeOK, KnownInv, InterestInSync, ReportInv
<1>3. ASSUME NEW n \in 1 .. output, inFlight + n <= SendSpace, Written(n),
             IsWriting, UNCHANGED sockError
      PROVE  ChannelInv'
  <2>1. /\ output' = output - n /\ output' \in Nat
        /\ inFlight' \in 0 .. SendSpace
    BY <1>3, SizesAssumption DEF Written, ChannelInv, TypeOK
  <2>2. CASE output' = 0 /\ DisableWriting
    <3> DEFINE mask == events \ WriteEvents
    <3>1. Update(mask) /\ UNCHANGED addToLoop
      BY <2>2 DEF DisableWriting
    <3>2. mask \in Masks /\ mask \cap WriteEvents = {} /\ mask # revents
      BY <1>1, <1>2 DEF Masks
    <3>3. events' = mask /\ revents' = mask /\ interest' = mask
      BY <1>2, <3>1, <3>2, UpdateInSync DEF ChannelInv
    <3>4. Registered'
      BY <3>2, <3>3, MaskRegistered DEF Registered
    <3>5. TypeOK'
      BY <1>1, <1>3, <2>1, <3>1, <3>2, <3>3 DEF ChannelInv, TypeOK, Masks
    <3> QED
      BY <1>1, <1>2, <2>2, <3>1, <3>2, <3>3, <3>4, <3>5
         DEF ChannelInv, KnownInv, InterestInSync, ReportInv, WatchInv, IsWriting
  <2>3. CASE output' > 0 /\ UNCHANGED channelVars
    BY <1>1, <1>2, <1>3, <2>1, <2>3
       DEF ChannelInv, TypeOK, KnownInv, InterestInSync, ReportInv, WatchInv,
           Registered, IsWriting, channelVars
  <2> QED
    BY <1>3, <2>2, <2>3 DEF Written
<1>4. CASE UNCHANGED <<channelVars, inFlight, output>> /\ sockError' \in BOOLEAN
  BY <1>1, <1>2, <1>4
     DEF ChannelInv, TypeOK, KnownInv, InterestInSync, ReportInv, WatchInv,
         Registered, IsWriting, channelVars
<1>5. \/ \E n \in 1 .. output : /\ inFlight + n <= SendSpace /\ Written(n)
                                /\ IsWriting /\ UNCHANGED sockError
      \/ sockError' = FALSE /\ UNCHANGED <<channelVars, inFlight, output>>
      \/ UNCHANGED <<channelVars, sockError, inFlight, output>>
  BY DEF HandleWrite
<1>6. sockError' = FALSE \/ sockError' = sockError => sockError' \in BOOLEAN
  BY DEF ChannelInv, TypeOK
<1> QED
  BY <1>3, <1>4, <1>5, <1>6

-----------------------------------------------------------------------------

\* Every step keeps the invariant.
LEMMA StepInv == ChannelInv /\ [Next]_vars => ChannelInv'
<1> SUFFICES ASSUME ChannelInv, [Next]_vars
             PROVE  ChannelInv'
  OBVIOUS
<1>1. CASE UNCHANGED vars
  BY <1>1 DEF vars, ChannelInv, TypeOK, KnownInv, InterestInSync, ReportInv,
              WatchInv, Registered, IsWriting
<1>2. CASE LoopStep
  BY <1>2, EstablishStep, PollStep, ReadStep, WriteStep, QuietSteps DEF LoopStep
<1>3. CASE Send \/ HalfClose \/ Reset \/ Drain \/ Remove
  BY <1>3, OutsideSteps, QuietSteps
<1> QED BY <1>1, <1>2, <1>3 DEF Next

LEMMA InvAlways == Spec => []ChannelInv
BY InitInv, StepInv, PTL DEF Spec

\* Type correctness: nothing more is retrieved than waits, and the kernel is
\* given no more than it has room for.
THEOREM TypeCorrect == Spec => []TypeOK
<1>1. ChannelInv => TypeOK
  BY DEF ChannelInv
<1> QED BY <1>1, InvAlways, PTL

\* Leaving out calls of epoll_mod never leaves epoll behind: the interest of a
\* registered channel is always its events_.
THEOREM InterestAlwaysInSync == Spec => []InterestInSync
<1>1. ChannelInv => InterestInSync
  BY DEF ChannelInv
<1> QED BY <1>1, InvAlways, PTL

\* Between iterations the loop waits for room in the kernel's buffer exactly
\* while something waits to be written.
THEOREM OutputAlwaysWatched == Spec => []OutputWatched
<1>1. ChannelInv => OutputWatched
  BY DEF ChannelInv, WatchInv, OutputWatched
<1> QED BY <1>1, InvAlways, PTL

-----------------------------------------------------------------------------
(* What the loop is woken for.                                               *)

LEMMA HearStep ==
    ASSUME ChannelInv, HearInv, [Next]_vars
    PROVE  HearInv'
<1>1. CASE ConnectEstablished
  BY <1>1 DEF ConnectEstablished, EnableReading, Update, kernelVars, HearInv, ReadEvents
<1>2. CASE HandleRead
  <2>1. /\ handling = "in" /\ revents \cap ReadEvents # {} /\ UNCHANGED peer
        /\ revents \cap (ReadEvents \cup WriteEvents) \subseteq events
    BY <1>2 DEF HandleRead, ChannelInv, ReportInv
  <2>2. addToLoop /\ events # {}
    BY <2>1 DEF ChannelInv, KnownInv
  <2>3. CASE Reply
    BY <2>1, <2>2, <2>3 DEF Reply, EnableWriting, Update, HearInv
  <2>4. CASE DisableAll /\ peer # "open"
    BY <2>1, <2>4 DEF DisableAll, Update, HearInv
  <2>5. CASE UNCHANGED channelVars
    BY <2>1, <2>5 DEF channelVars, HearInv
  <2> QED
    BY <1>2, <2>3, <2>4, <2>5 DEF HandleRead
<1>3. CASE HandleWrite
  <2>1. UNCHANGED peer
    BY <1>3 DEF HandleWrite
  <2>2. CASE DisableWriting
    <3>1. events' = events \ WriteEvents /\ UNCHANGED addToLoop
      BY <2>2 DEF DisableWriting, Update
    <3>2. ReadEvents \cap WriteEvents = {} /\ ReadEvents # {}
      BY DEF ReadEvents, WriteEvents
    <3> QED
      BY <2>1, <3>1, <3>2 DEF HearInv
  <2>3. CASE UNCHANGED channelVars
    BY <2>1, <2>3 DEF channelVars, HearInv
  <2> QED
    BY <1>3, <2>2, <2>3 DEF HandleWrite, Written
<1>4. CASE UNCHANGED <<events, addToLoop>> /\ (peer' = peer \/ peer' # "open")
  BY <1>4 DEF HearInv
<1> QED
  BY <1>1, <1>2, <1>3, <1>4
     DEF Next, LoopStep, vars, channelVars, kernelVars, Poll, Skip, HandleHangUp, Send, HalfClose,
         Reset, Drain, Remove

\* WokenForWork: epoll_wait returns for a connection exactly when there is something to
\* read, or to write and room for it. No loop goes deaf to an open connection and none
\* spins on an idle one, for replies and kernel buffers of every size.
THEOREM AlwaysWokenForWork == Spec => []WokenForWork
<1>1. Init => HearInv
  BY DEF Init, HearInv
<1>2. ChannelInv /\ HearInv => WokenForWork
  <2> SUFFICES ASSUME ChannelInv, HearInv, Registered, handling = "no",
                      NEW urgent \in BOOLEAN
               PROVE  /\ peer = "open" => events # {}
                      /\ Reported(urgent) # {} <=>
                            \/ peer = "rst"
                            \/ /\ events # {}
                               /\ \/ unread \/ peer = "fin"
                                  \/ output > 0 /\ inFlight < SendSpace
    BY DEF WokenForWork
  <2>1. /\ addToLoop /\ interest = events /\ events \in Masks
        /\ peer \in {"open", "fin", "rst"}
    BY DEF ChannelInv, TypeOK, KnownInv, InterestInSync
  <2>2. peer = "open" => events # {}
    BY <2>1 DEF HearInv
  <2>3. CASE peer = "rst"
    BY <2>3 DEF Reported
  <2>4. CASE peer # "rst" /\ events = {}
    BY <2>1, <2>2, <2>4 DEF Reported
  <2>5. CASE peer # "rst" /\ events # {}
    <3>1. "in" \in events /\ ("out" \in events <=> output > 0)
      BY <2>5 DEF ChannelInv, HearInv, WatchInv, IsWriting, ReadEvents, WriteEvents
    <3>2. "in" \in Reported(urgent) <=> unread \/ peer = "fin"
      BY <2>1, <2>5, <3>1 DEF Reported
    <3>3. "out" \in Reported(urgent) <=> output > 0 /\ inFlight < SendSpace
      BY <2>1, <2>5, <3>1 DEF Reported
    <3>4. Reported(urgent) \subseteq {"in", "pri", "out"}
          /\ ("pri" \in Reported(urgent) => "in" \in Reported(urgent))
      BY <2>1, <2>5, <3>1 DEF Reported
    <3> QED
      BY <2>2, <2>5, <3>2, <3>3, <3>4
  <2> QED
    BY <2>2, <2>3, <2>4, <2>5
<1> QED
  BY <1>1, <1>2, HearStep, InvAlways, PTL DEF Spec
===============================================================================
