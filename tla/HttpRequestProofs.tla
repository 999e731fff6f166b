-------------------------- MODULE HttpRequestProofs --------------------------
(***************************************************************************)
(* What a read is answered, and which vote it counts, for reads of every   *)
(* length and any sequence of them on a connection.                        *)
(***************************************************************************)
EXTENDS HttpRequest, FiniteSetTheorems, WellFoundedInduction, TLAPS

(* Where the parser is, and what it has found so far. *)
TextInv == text \in Seq(Lines \cup Bodies)

PlaceInv ==
    /\ endLabel <=> state = "End"
    /\ state # "End" => text # << >> /\ reply = "none"
    /\ state = "Requese" => checkIdx = 1
    /\ state \in {"Headers", "Contexts", "DoRequese"} =>
          text[1] \in RequestLines /\ url = text[1][2]

(* At the end the label is the one of the reply to come, or just given. *)
LabelInv ==
    /\ state = "End" /\ text # << >> =>
          requeseLabel = IF text[1] \in RequestLines THEN LabelOf(file)
                         ELSE "BAD_REQUESE"
    /\ reply # "none" => reply = requeseLabel

(* A whole vote leads from the headers to its body. *)
WholeVote(row, option) == VoteRequest(row, option) /\ LengthLast

OnTheWay(row, option) ==
    /\ state = "Headers" => checkIdx \in 2 .. (Len(text) - 2)
    /\ state = "Contexts" => checkIdx = Len(text) - 1
    /\ state = "DoRequese" => contextData = Len(text) - 1
    /\ state # "Dead"
    /\ state = "End" /\ reply = "none" => voteOption = <<row, option>>
    /\ reply = "FILE_REQUESE" => counted = <<row, option>>

VoteInv ==
    \A row \in Rows, option \in Options :
        WholeVote(row, option) => OnTheWay(row, option)

ParserInv == TextInv /\ PlaceInv /\ LabelInv /\ VoteSpent

-----------------------------------------------------------------------------
(* Lines. *)

LEMMA NoBody ==
    /\ <<"header">> \notin Bodies /\ <<"length">> \notin Bodies
    /\ \A line \in RequestLines : line \notin Bodies
    /\ Junk \notin RequestLines /\ NoLine \notin RequestLines
BY DEF Bodies, RequestLines, Junk, NoLine

(* getSentence returns the line that starts where it is called. *)
LEMMA SentenceOfLine ==
    ASSUME TextInv, NEW p \in 1 .. Len(text), text[p] \notin Bodies
    PROVE  Sentence(p) = text[p] /\ After(p) = p + 1
<1>1. p \in LineEnds(p) /\ \A j \in LineEnds(p) : p <= j
  BY DEF LineEnds, TextInv
<1>2. /\ LineEnd(p) \in LineEnds(p)
      /\ \A j \in LineEnds(p) : LineEnd(p) <= j
  BY <1>1 DEF LineEnd
<1>3. LineEnd(p) = p
  <2>1. LineEnd(p) <= p /\ p <= LineEnd(p)
    BY <1>1, <1>2
  <2>2. LineEnd(p) \in Nat
    BY <1>2 DEF LineEnds, TextInv
  <2> QED BY <2>1, <2>2
<1> QED BY <1>1, <1>3 DEF Sentence, After

(* The first sentence is a request line just if the first token is one. *)
LEMMA FirstSentence ==
    ASSUME TextInv, text # << >>
    PROVE  /\ Sentence(1) \in RequestLines <=> text[1] \in RequestLines
           /\ text[1] \in RequestLines => Sentence(1) = text[1] /\ After(1) = 2
<1>1. 1 \in 1 .. Len(text)
  BY DEF TextInv
<1>2. text[1] \in RequestLines => Sentence(1) = text[1] /\ After(1) = 2
  BY <1>1, NoBody, SentenceOfLine
<1>3. Sentence(1) \in {text[1], Junk, NoLine}
  BY DEF Sentence
<1> QED BY <1>2, <1>3, NoBody

-----------------------------------------------------------------------------
LEMMA InitInv == Init => ParserInv /\ VoteInv
<1> SUFFICES ASSUME Init
             PROVE  ParserInv /\ VoteInv
  OBVIOUS
<1>1. ParserInv
  BY DEF Init, ParserInv, TextInv, PlaceInv, LabelInv, VoteSpent
<1>2. \A row \in Rows, option \in Options : ~WholeVote(row, option)
  BY DEF Init, WholeVote, VoteRequest
<1> QED BY <1>1, <1>2 DEF VoteInv

LEMMA ParserStep ==
    ASSUME ParserInv, [Next]_vars
    PROVE  ParserInv'
<1> USE DEF ParserInv
<1>1. ASSUME NEW tokens \in Reads, Read(tokens)
      PROVE  ParserInv'
  BY <1>1, ReadsAssumption DEF Read, TextInv, PlaceInv, LabelInv, VoteSpent
<1>2. CASE StateRequese
  <2>1. /\ state = "Requese" /\ checkIdx = 1 /\ text # << >> /\ reply = "none"
        /\ UNCHANGED <<text, contextData, voteOption, file, reply, counted>>
    BY <1>2 DEF StateRequese, Handling, PlaceInv
  <2>2. CASE /\ Sentence(1) \in RequestLines /\ url' = Sentence(1)[2]
             /\ state' = "Headers" /\ UNCHANGED <<endLabel, requeseLabel>>
    BY <2>1, <2>2, FirstSentence DEF TextInv, PlaceInv, LabelInv, VoteSpent
  <2>3. CASE Sentence(1) \notin RequestLines /\ End("BAD_REQUESE") /\ UNCHANGED url
    BY <2>1, <2>3, FirstSentence DEF End, TextInv, PlaceInv, LabelInv, VoteSpent
  <2> QED BY <1>2, <2>1, <2>2, <2>3 DEF StateRequese
<1>3. CASE StateHeaders
  <2>1. state' \in {"Headers", "Contexts", "DoRequese"}
    BY <1>3 DEF StateHeaders
  <2> QED
    BY <1>3, <2>1 DEF StateHeaders, Handling, TextInv, PlaceInv, LabelInv, VoteSpent
<1>4. CASE StateContexts
  BY <1>4 DEF StateContexts, Handling, TextInv, PlaceInv, LabelInv, VoteSpent
<1>5. ASSUME NEW status \in FileStates, StateDoRequese(status)
      PROVE  ParserInv'
  <2>1. /\ state = "DoRequese" /\ reply = "none" /\ text # << >>
        /\ text[1] \in RequestLines
        /\ state' = "End" /\ endLabel' = TRUE /\ file' = status
        /\ requeseLabel' = LabelOf(status)
        /\ UNCHANGED <<text, checkIdx, url, reply, counted>>
    BY <1>5 DEF StateDoRequese, Handling, End, PlaceInv
  <2>2. LabelOf(file)' = LabelOf(status)
    BY <2>1 DEF LabelOf
  <2> QED BY <2>1, <2>2 DEF TextInv, PlaceInv, LabelInv, VoteSpent
<1>8. CASE Segfault
  BY <1>8 DEF Segfault, Handling, TextInv, PlaceInv, LabelInv, VoteSpent
<1>6. CASE ProcessWrite
  <2>1. /\ state = "End" /\ endLabel /\ reply' = requeseLabel
        /\ UNCHANGED <<text, checkIdx, state, endLabel, url, requeseLabel, file>>
    BY <1>6 DEF ProcessWrite, contextVars, PlaceInv
  <2>2. LabelOf(file)' = LabelOf(file)
    BY <2>1 DEF LabelOf
  <2>3. TextInv' /\ PlaceInv' /\ LabelInv'
    BY <2>1, <2>2 DEF TextInv, PlaceInv, LabelInv
  <2>4. VoteSpent'
    BY <1>6 DEF ProcessWrite, VoteSpent
  <2> QED BY <2>3, <2>4
<1>7. CASE UNCHANGED vars
  <2>1. LabelOf(file)' = LabelOf(file)
    BY <1>7 DEF vars, LabelOf
  <2> QED BY <1>7, <2>1 DEF vars, TextInv, PlaceInv, LabelInv, VoteSpent
<1> QED
  BY <1>1, <1>2, <1>3, <1>4, <1>5, <1>6, <1>7, <1>8 DEF Next, Step

-----------------------------------------------------------------------------
(* The way of a whole vote: its tokens from the second on are no bodies, the *)
(* headers keep the parser among the headers, and Content-length, which is   *)
(* the last of them, puts contextData on the empty line.                     *)

LEMMA WholeVoteTokens ==
    ASSUME TextInv, NEW row \in Rows, NEW option \in Options,
           WholeVote(row, option)
    PROVE  /\ Len(text) \in Nat /\ Len(text) >= 4 /\ Len(text) - 1 # 0
           /\ text[1] = <<"request", row>> /\ text[1] \in RequestLines
           /\ text[Len(text) - 2] = <<"length">>
           /\ \A j \in 2 .. (Len(text) - 3) : text[j] = <<"header">>
           /\ OptionsAt(Len(text) - 1) = {option}
<1>1. Len(text) \in Nat /\ Len(text) >= 4 /\ Len(text) - 1 # 0
  BY DEF TextInv, WholeVote, VoteRequest
<1>2. text[1] = <<"request", row>> /\ text[1] \in RequestLines
  BY DEF WholeVote, VoteRequest, RequestLines, Targets
<1>3. text[Len(text) - 2] = <<"length">>
  BY DEF WholeVote, LengthLast
<1>4. \A j \in 2 .. (Len(text) - 3) : text[j] = <<"header">>
  <2>1. PICK i \in 2 .. (Len(text) - 2) :
           /\ text[i] = <<"length">>
           /\ \A j \in (2 .. (Len(text) - 2)) \ {i} : text[j] = <<"header">>
    BY DEF WholeVote, VoteRequest
  <2>2. Len(text) - 2 \in 2 .. (Len(text) - 2)
    BY <1>1
  <2>3. i = Len(text) - 2
    BY <1>3, <2>1, <2>2
  <2> QED BY <1>1, <2>1, <2>3
<1>5. OptionsAt(Len(text) - 1) = {option}
  <2>1. /\ text[Len(text) - 1] = <<"blank">>
        /\ text[Len(text)] = <<"body", option>>
        /\ text[Len(text)] \in Bodies /\ text[Len(text)][2] = option
    BY DEF WholeVote, VoteRequest, Bodies
  <2>2. Len(text) - 1 > 0 /\ Len(text) - 1 < Len(text)
        /\ (Len(text) - 1) + 1 = Len(text)
    BY <1>1
  <2> QED BY <2>1, <2>2 DEF OptionsAt
<1> QED BY <1>1, <1>2, <1>3, <1>4, <1>5

LEMMA WayStep ==
    ASSUME ParserInv, Step, NEW row \in Rows, NEW option \in Options,
           WholeVote(row, option), OnTheWay(row, option)
    PROVE  OnTheWay(row, option)'
<1> USE DEF OnTheWay
<1>0. TextInv
  BY DEF ParserInv
<1>1. CASE StateRequese
  <2>1. state = "Requese" /\ checkIdx = 1 /\ text # << >> /\ reply = "none"
    BY <1>1 DEF StateRequese, Handling, ParserInv, PlaceInv
  <2>2. Sentence(1) \in RequestLines /\ After(1) = 2
    BY <1>0, <2>1, FirstSentence, WholeVoteTokens
  <2>3. state' = "Headers" /\ checkIdx' = 2 /\ UNCHANGED <<text, reply>>
    BY <1>1, <2>1, <2>2 DEF StateRequese
  <2> QED BY <1>0, <2>1, <2>3, WholeVoteTokens
<1>2. CASE StateHeaders
  <2>1. state = "Headers" /\ checkIdx \in 2 .. (Len(text) - 2) /\ reply = "none"
    BY <1>2 DEF StateHeaders, Handling, ParserInv, PlaceInv
  <2>2. text[checkIdx] = <<"header">> \/ text[checkIdx] = <<"length">>
    <3>1. checkIdx = Len(text) - 2 \/ checkIdx \in 2 .. (Len(text) - 3)
      BY <1>0, <2>1, WholeVoteTokens
    <3> QED BY <1>0, <3>1, WholeVoteTokens
  <2>3. Sentence(checkIdx) = text[checkIdx] /\ After(checkIdx) = checkIdx + 1
    <3>1. checkIdx \in 1 .. Len(text)
      BY <1>0, <2>1, WholeVoteTokens
    <3>2. text[checkIdx] \notin Bodies
      BY <2>2, NoBody
    <3> QED BY <1>0, <3>1, <3>2, SentenceOfLine
  <2>4. CASE checkIdx = Len(text) - 2
    <3>1. Sentence(checkIdx) = <<"length">>
      BY <1>0, <2>3, <2>4, WholeVoteTokens
    <3>2. state' = "Contexts" /\ checkIdx' = Len(text) - 1
          /\ UNCHANGED <<text, reply>>
      BY <1>0, <1>2, <2>3, <2>4, <3>1, WholeVoteTokens DEF StateHeaders, NoLine
    <3> QED BY <2>1, <3>2
  <2>5. CASE checkIdx # Len(text) - 2
    <3>1. Sentence(checkIdx) = <<"header">>
      BY <1>0, <2>1, <2>3, <2>5, WholeVoteTokens
    <3>2. state' = "Headers" /\ checkIdx' = checkIdx + 1
          /\ UNCHANGED <<text, reply>>
      BY <1>2, <2>3, <3>1 DEF StateHeaders, NoLine
    <3> QED BY <1>0, <2>1, <2>5, <3>2, WholeVoteTokens
  <2> QED BY <2>4, <2>5
<1>3. CASE StateContexts
  BY <1>3 DEF StateContexts, Handling, ParserInv, PlaceInv
<1>4. ASSUME NEW status \in FileStates, StateDoRequese(status)
      PROVE  OnTheWay(row, option)'
  <2>1. /\ state = "DoRequese" /\ reply = "none" /\ contextData = Len(text) - 1
        /\ url = text[1][2] /\ state' = "End" /\ UNCHANGED <<text, reply>>
    BY <1>4 DEF StateDoRequese, Handling, End, ParserInv, PlaceInv
  <2>2. url = row
    BY <1>0, <2>1, WholeVoteTokens
  <2>3. voteOption' = <<row, option>>
    BY <1>0, <1>4, <2>1, <2>2, WholeVoteTokens DEF StateDoRequese
  <2> QED BY <2>1, <2>3
<1>5. CASE ProcessWrite
  <2>1. /\ state = "End" /\ state' = "End" /\ reply = "none"
        /\ reply' = requeseLabel /\ voteOption = <<row, option>>
    BY <1>5 DEF ProcessWrite, contextVars, ParserInv, PlaceInv
  <2>2. IF reply' = "FILE_REQUESE" THEN counted' = voteOption
                                   ELSE voteOption' = voteOption
    BY <1>5 DEF ProcessWrite
  <2> QED BY <2>1, <2>2
<1>6. CASE Segfault
  <2>1. contextData = 0 /\ contextData = Len(text) - 1
    BY <1>6 DEF Segfault, Handling
  <2>2. Len(text) - 1 # 0
    BY <1>0, WholeVoteTokens
  <2> QED BY <2>1, <2>2
<1> QED BY <1>1, <1>2, <1>3, <1>4, <1>5, <1>6 DEF Step

LEMMA VoteStep ==
    ASSUME ParserInv, VoteInv, [Next]_vars
    PROVE  VoteInv'
<1>1. CASE Step
  <2>1. text' = text
    BY <1>1 DEF Step, StateRequese, StateHeaders, StateContexts, StateDoRequese, Segfault,
                ProcessWrite, contextVars
  <2>2. \A row \in Rows, option \in Options :
           WholeVote(row, option)' <=> WholeVote(row, option)
    BY <2>1 DEF WholeVote, VoteRequest, LengthLast
  <2>3. ASSUME NEW row \in Rows, NEW option \in Options, WholeVote(row, option)'
        PROVE  OnTheWay(row, option)'
    BY <1>1, <2>2, <2>3, WayStep DEF VoteInv
  <2> QED BY <2>3 DEF VoteInv
<1>2. ASSUME NEW tokens \in Reads, Read(tokens)
      PROVE  VoteInv'
  BY <1>2 DEF Read, VoteInv, OnTheWay
<1>3. CASE UNCHANGED vars
  BY <1>3 DEF vars, VoteInv, OnTheWay, WholeVote, VoteRequest, LengthLast
<1> QED BY <1>1, <1>2, <1>3 DEF Next

LEMMA InvAlways == Spec => [](ParserInv /\ VoteInv)
BY InitInv, ParserStep, VoteStep, PTL DEF Spec

-----------------------------------------------------------------------------

\* The reply depends on the first line of a read and on the file alone, not on
\* what earlier reads of the connection left behind.
THEOREM RepliesAgree == Spec => []ReplyAgrees
<1>1. ParserInv => ReplyAgrees
  BY DEF ParserInv, PlaceInv, LabelInv, ReplyAgrees
<1> QED BY <1>1, InvAlways, PTL

\* A vote is counted once, and none with an error reply.
THEOREM VotesSpent == Spec => []VoteSpent
<1>1. ParserInv => VoteSpent
  BY DEF ParserInv
<1> QED BY <1>1, InvAlways, PTL

\* A vote that comes in one read, with any number of headers before Content-length,
\* is counted for its own row and option, and never ends the process.
THEOREM WholeVotesCounted == Spec => []WholeVoteCounted
<1>1. VoteInv => WholeVoteCounted
  BY DEF VoteInv, OnTheWay, WholeVote, WholeVoteCounted
<1> QED BY <1>1, InvAlways, PTL

-----------------------------------------------------------------------------
(* Kinds of values. *)

(* A set of numbers has a least one: of the intervals from 1 to each of them one has no
   other inside. *)
LEMMA Least ==
    ASSUME NEW T, T \subseteq Nat, T # {}
    PROVE  \E x \in T : \A y \in T : x <= y
<1> DEFINE R == StrictSubsetOrdering(Nat)
           U == {1 .. i : i \in T}
<1>1. IsWellFoundedOn(R, FiniteSubsetsOf(Nat))
  BY FS_StrictSubsetOrderingWellFounded
<1>2. U \subseteq FiniteSubsetsOf(Nat)
  <2> SUFFICES ASSUME NEW i \in T
               PROVE  1 .. i \in FiniteSubsetsOf(Nat)
    OBVIOUS
  <2>1. IsFiniteSet(1 .. i)
    BY FS_Interval
  <2> QED
    BY <2>1 DEF FiniteSubsetsOf
<1>3. U # {}
  OBVIOUS
<1>4. \E u \in U : \A v \in U : <<v, u>> \notin R
  <2> HIDE DEF R, U
  <2> QED
    BY <1>1, <1>2, <1>3, WFMin
<1>5. PICK x \in T : \A v \in U : <<v, 1 .. x>> \notin R
  BY <1>4
<1>6. ASSUME NEW y \in T, y < x
      PROVE  FALSE
  <2>1. 1 .. y \subseteq 1 .. x /\ x \in 1 .. x /\ x \notin 1 .. y
    BY <1>6
  <2>2. <<1 .. y, 1 .. x>> \in R
    BY <2>1 DEF StrictSubsetOrdering
  <2> QED
    BY <1>5, <2>2
<1>7. \A y \in T : x <= y
  BY <1>6
<1> QED
  BY <1>7

(* The end of a line is in the text, so the next one starts at most behind it. *)
LEMMA AfterInText ==
    ASSUME TextInv, NEW p \in 1 .. (Len(text) + 1)
    PROVE  After(p) \in 1 .. (Len(text) + 1)
<1>1. CASE LineEnds(p) = {}
  BY <1>1 DEF After, TextInv
<1>2. CASE LineEnds(p) # {}
  <2>1. LineEnds(p) \subseteq Nat
    BY DEF LineEnds, TextInv
  <2>2. \E i \in LineEnds(p) : \A j \in LineEnds(p) : i <= j
    <3>1. PICK T : T = LineEnds(p)
      OBVIOUS
    <3>2. \E i \in T : \A j \in T : i <= j
      BY <1>2, <2>1, <3>1, Least
    <3> QED
      BY <3>1, <3>2
  <2>3. LineEnd(p) \in LineEnds(p)
    BY <2>2 DEF LineEnd
  <2>4. LineEnd(p) \in p .. Len(text)
    BY <2>3 DEF LineEnds
  <2> QED
    BY <1>2, <2>4 DEF After, TextInv
<1> QED
  BY <1>1, <1>2

LEMMA OptionsKnown ==
    ASSUME TextInv, NEW p \in Nat
    PROVE  OptionsAt(p) \subseteq Options \cup {Wild}
<1>1. \A b \in Bodies : b[2] \in Options
  BY DEF Bodies
<1> QED
  BY <1>1 DEF OptionsAt

LEMMA TypeStep ==
    ASSUME TypeOK, [Next]_vars
    PROVE  TypeOK'
<1>0. TextInv /\ Len(text) \in Nat
  BY DEF TypeOK, TextInv
<1>1. ASSUME NEW tokens \in Reads, Read(tokens)
      PROVE  TypeOK'
  <2>1. tokens \in Seq(Lines \cup Bodies) /\ 1 \in 1 .. (Len(tokens) + 1) /\ 0 \in 0 .. (Len(tokens) + 1)
    BY ReadsAssumption
  <2>2. /\ text' = tokens /\ checkIdx' = 1 /\ state' = "Requese" /\ endLabel' = FALSE
        /\ contextData' = 0 /\ reply' = "none"
        /\ UNCHANGED <<url, requeseLabel, voteOption, file, counted>>
    BY <1>1 DEF Read
  <2> QED
    BY <2>1, <2>2 DEF TypeOK
<1>2. CASE StateRequese
  <2>1. After(checkIdx) \in 1 .. (Len(text) + 1)
    BY <1>0, AfterInText DEF TypeOK
  <2>2. \A line \in RequestLines : line[2] \in Targets
    BY DEF RequestLines
  <2>3. CASE Sentence(checkIdx) \in RequestLines /\ url' = Sentence(checkIdx)[2]
             /\ state' = "Headers" /\ UNCHANGED <<endLabel, requeseLabel>>
    BY <1>2, <2>1, <2>2, <2>3 DEF StateRequese, Handling, TypeOK
  <2>4. CASE End("BAD_REQUESE") /\ UNCHANGED url
    BY <1>2, <2>1, <2>4 DEF StateRequese, End, TypeOK, Labels
  <2> QED
    BY <1>2, <2>3, <2>4 DEF StateRequese
<1>3. CASE StateHeaders
  <2>1. After(checkIdx) \in 1 .. (Len(text) + 1)
    BY <1>0, AfterInText DEF TypeOK
  <2>2. state' \in {"Headers", "Contexts", "DoRequese"} /\ ~ endLabel
    BY <1>3 DEF StateHeaders, Handling
  <2> QED
    BY <1>3, <2>1, <2>2 DEF StateHeaders, TypeOK
<1>4. CASE StateContexts
  BY <1>0, <1>4 DEF StateContexts, Handling, TypeOK
<1>5. ASSUME NEW status \in FileStates, StateDoRequese(status)
      PROVE  TypeOK'
  <2>1. LabelOf(status) \in Labels
    BY DEF LabelOf, FileStates, Labels
  <2>2. voteOption' \in Votes \cup {NoVote}
    <3>1. CASE url \in Rows
      <4>1. PICK option \in OptionsAt(contextData) : voteOption' = <<url, option>>
        BY <1>5, <3>1 DEF StateDoRequese
      <4>2. contextData \in Nat
        BY <1>0 DEF TypeOK
      <4>3. option \in Options \cup {Wild}
        BY <1>0, <4>1, <4>2, OptionsKnown
      <4> QED
        BY <3>1, <4>1, <4>3 DEF Votes
    <3>2. CASE url \notin Rows
      BY <1>5, <3>2 DEF StateDoRequese, TypeOK
    <3> QED
      BY <3>1, <3>2
  <2> QED
    BY <1>5, <2>1, <2>2 DEF StateDoRequese, End, TypeOK
<1>6. CASE ProcessWrite
  BY <1>6 DEF ProcessWrite, contextVars, TypeOK
<1>7. CASE UNCHANGED vars
  BY <1>7 DEF vars, TypeOK
<1>8. CASE Segfault
  BY <1>8 DEF Segfault, Handling, TypeOK
<1> QED
  BY <1>1, <1>2, <1>3, <1>4, <1>5, <1>6, <1>7, <1>8 DEF Next, Step

\* Every variable keeps its kind: the parser never leaves its text, and a vote that is
\* noted is for a row of the site.
THEOREM TypeCorrect == Spec => []TypeOK
<1>1. Init => TypeOK
  BY DEF Init, TypeOK, Targets, Labels, FileStates
<1> QED
  BY <1>1, TypeStep, PTL DEF Spec

-----------------------------------------------------------------------------
(* The ballot. *)

(* What is asked depends on the text, and on whether the parser is at its end. *)
LEMMA AskedUntilEnd ==
    ASSUME UNCHANGED text, state # "End", state' # "End"
    PROVE  Asked' = Asked
<1>1. Whole' = Whole
  BY DEF Whole, VoteRequest, LengthLast
<1> QED
  BY <1>1 DEF Asked

(* The parser notes a vote that is asked for: contextData leads to the body of a whole
   one, and the request line names the row of the others. *)
LEMMA NotedIsAsked ==
    ASSUME TypeOK, ParserInv, VoteInv, state = "DoRequese", url \in Rows,
           NEW option \in OptionsAt(contextData)
    PROVE  <<url, option>> \in Asked
<1>1. text # << >> /\ text[1] \in RequestLines /\ url = text[1][2] /\ TextInv
  BY DEF ParserInv, PlaceInv
<1>2. text[1] \in {"request"} \X Rows
  BY <1>1 DEF RequestLines
<1>3. CASE Whole # {}
  <2>1. PICK vote \in Rows \X Options : WholeVote(vote[1], vote[2])
    BY <1>3 DEF Whole, WholeVote
  <2>2. vote[1] \in Rows /\ vote[2] \in Options /\ vote = <<vote[1], vote[2]>>
    OBVIOUS
  <2>3. contextData = Len(text) - 1
    BY <2>1, <2>2 DEF VoteInv, OnTheWay
  <2>4. OptionsAt(Len(text) - 1) = {vote[2]} /\ text[1] = <<"request", vote[1]>>
    BY <1>1, <2>1, <2>2, WholeVoteTokens
  <2>5. option = vote[2] /\ url = vote[1]
    BY <1>1, <2>3, <2>4
  <2>6. vote \in Whole
    BY <2>1 DEF Whole, WholeVote
  <2> QED
    BY <1>1, <1>2, <2>2, <2>5, <2>6 DEF Asked
<1>4. CASE Whole = {}
  <2>1. contextData \in Nat
    BY DEF TypeOK, TextInv
  <2>2. option \in Options \cup {Wild}
    BY <1>1, <2>1, OptionsKnown
  <2> QED
    BY <1>1, <1>2, <1>4, <2>2 DEF Asked
<1> QED
  BY <1>3, <1>4

LEMMA BallotStep ==
    ASSUME TypeOK, ParserInv, VoteInv, [Next]_vars
    PROVE  [Voting!Next]_Voting!vars
<1> USE DEF Voting!Next, Voting!vars
<1>1. ASSUME NEW tokens \in Reads, Read(tokens)
      PROVE  Voting!Receive
  <2>1. text' # << >> /\ reply' = "none" /\ UNCHANGED <<voteOption, counted>>
    BY <1>1, ReadsAssumption DEF Read
  <2>2. Asked' \subseteq Votes
    <3>1. Whole' \subseteq Votes
      BY DEF Whole, Votes
    <3>2. (text[1])' \in {"request"} \X Rows =>
              {(text[1])'[2]} \X (Options \cup {Wild}) \subseteq Votes
      BY DEF Votes
    <3> QED
      BY <3>1, <3>2 DEF Asked
  <2>3. Verdict # "none" /\ Verdict' = "none"
    BY <1>1, <2>1 DEF Read, Verdict
  <2> QED
    BY <2>1, <2>2, <2>3 DEF Voting!Receive
<1>2. CASE StateRequese
  <2>1. /\ state = "Requese" /\ checkIdx = 1 /\ text # << >> /\ reply = "none"
        /\ UNCHANGED <<text, voteOption, reply, counted>>
    BY <1>2 DEF StateRequese, Handling, ParserInv, PlaceInv
  <2>2. Asked' = Asked
    <3>1. CASE state' = "Headers"
      BY <2>1, <3>1, AskedUntilEnd
    <3>2. CASE Sentence(1) \notin RequestLines /\ End("BAD_REQUESE")
      <4>1. text[1] \notin RequestLines /\ state' = "End"
        BY <2>1, <3>2, FirstSentence DEF End, ParserInv
      <4>2. text[1] \notin {"request"} \X Rows
        BY <4>1 DEF RequestLines, Targets
      <4> QED
        BY <4>1, <4>2 DEF Asked
    <3> QED
      BY <1>2, <2>1, <3>1, <3>2 DEF StateRequese
  <2> QED
    BY <2>1, <2>2 DEF Verdict
<1>3. CASE StateHeaders \/ StateContexts
  <2>1. /\ state # "End" /\ state' # "End"
        /\ UNCHANGED <<text, voteOption, reply, counted>>
    BY <1>3 DEF StateHeaders, StateContexts, Handling
  <2>2. Asked' = Asked
    BY <2>1, AskedUntilEnd
  <2> QED
    BY <2>1, <2>2 DEF Verdict
<1>4. ASSUME NEW status \in FileStates, StateDoRequese(status)
      PROVE  [Voting!Next]_Voting!vars
  <2>1. /\ state = "DoRequese" /\ reply = "none" /\ text # << >>
        /\ text[1] \in RequestLines /\ url = text[1][2]
        /\ state' = "End" /\ UNCHANGED <<text, reply, counted>>
    BY <1>4 DEF StateDoRequese, Handling, End, ParserInv, PlaceInv
  <2>2. Asked' = {} /\ Verdict' = Verdict /\ Verdict = "none"
    BY <2>1 DEF Asked, Verdict
  <2>3. CASE url \in Rows
    <3>1. PICK option \in OptionsAt(contextData) : voteOption' = <<url, option>>
      BY <1>4, <2>3 DEF StateDoRequese
    <3>2. voteOption' \in Asked
      BY <2>1, <2>3, <3>1, NotedIsAsked
    <3> QED
      BY <2>1, <2>2, <3>2 DEF Voting!Note
  <2>4. CASE url \notin Rows
    <3>1. UNCHANGED voteOption
      BY <1>4, <2>4 DEF StateDoRequese
    <3>2. Asked = {}
      BY <2>1, <2>4 DEF Asked
    <3> QED
      BY <2>1, <2>2, <3>1, <3>2
  <2> QED
    BY <2>3, <2>4
<1>5. CASE ProcessWrite
  <2>1. /\ text # << >> /\ state = "End" /\ reply = "none" /\ reply' = requeseLabel
        /\ UNCHANGED <<text, state>>
    BY <1>5 DEF ProcessWrite, contextVars, ParserInv, PlaceInv
  <2>2. Asked = {} /\ Asked' = {} /\ Verdict = "none"
    BY <2>1 DEF Asked, Verdict
  <2>3. reply' # "none"
    BY <2>1 DEF TypeOK, Labels
  <2>4. Verdict' = IF reply' = "FILE_REQUESE" THEN "ok" ELSE "error"
    BY <2>1, <2>3 DEF Verdict
  <2>5. \/ reply' = "FILE_REQUESE" /\ counted' = voteOption /\ voteOption' = NoVote
        \/ reply' # "FILE_REQUESE" /\ counted' = NoVote /\ UNCHANGED voteOption
    BY <1>5, <2>1 DEF ProcessWrite
  <2> QED
    BY <2>2, <2>4, <2>5 DEF Voting!Answer
<1>6. CASE UNCHANGED vars
  <2>1. Asked' = Asked /\ Verdict' = Verdict
    BY <1>6 DEF vars, Asked, Whole, VoteRequest, LengthLast, Verdict
  <2> QED
    BY <1>6, <2>1 DEF vars
<1>7. CASE Segfault
  <2>1. UNCHANGED <<text, reply, voteOption, counted>> /\ state # "End" /\ state' # "End"
    BY <1>7 DEF Segfault, Handling
  <2>2. Verdict' = Verdict
    BY <2>1 DEF Verdict
  <2>3. Whole' = Whole
    BY <2>1 DEF Whole, VoteRequest, LengthLast
  <2>4. Asked' = Asked
    BY <2>1, <2>3 DEF Asked
  <2> QED
    BY <2>1, <2>2, <2>4
<1> QED
  BY <1>1, <1>2, <1>3, <1>4, <1>5, <1>6, <1>7 DEF Next, Step

\* BallotSpec: the connection keeps the promise of Ballot. Only a request that asks for
\* a vote has one noted, and a whole one has the very vote it carries; the next good
\* reply counts it, an error leaves it, and no reply counts it a second time.
THEOREM RequestsImplementBallot == Spec => BallotSpec
<1>1. Init => Voting!Init
  BY DEF Init, Voting!Init, Asked, Verdict
<1>2. TypeOK /\ (ParserInv /\ VoteInv) /\ [Next]_vars => [Voting!Next]_Voting!vars
  BY BallotStep
<1> QED
  BY <1>1, <1>2, InvAlways, TypeCorrect, PTL DEF Spec, BallotSpec, Voting!Spec
===============================================================================
