---------------------------- MODULE HttpRequest ----------------------------
(***************************************************************************)
(* How one connection turns what it reads into a reply and a vote:         *)
(* stateAnalyse::analyseDataFromConn, the states of State.cpp and          *)
(* stateAnalyse::process_write.                                            *)
(*                                                                         *)
(* Every read is parsed by a Context of its own, as if it were one whole   *)
(* request; only the AnalyseData of the connection outlives it.  A read is *)
(* a sequence of tokens: lines, and bodies, which have no line end, so     *)
(* that a body followed by a line is one line nobody understands.  Texts   *)
(* are longer than 8 and shorter than 1024 bytes (the size of              *)
(* Context::data_), and what follows the last slash of a URL fits          *)
(* file_path, 200 bytes with the working directory: the code overflows     *)
(* with longer ones, and what it does then nobody can say.                 *)
(***************************************************************************)
EXTENDS Naturals, Sequences

CONSTANTS Options,   \* the options of a form: the digit in "button=..."
          Wild,      \* an option that is no digit of a form
          Reads      \* what one read may bring

Rows == {"sport", "fruit"}
Targets == Rows \cup {"page"}      \* the URL: /2..., /3..., anything else
RequestLines == {"request"} \X Targets
Bodies == {"body"} \X Options
Lines == RequestLines \cup {<<"bad">>,      \* not a request line of HTTP/1.1
                            <<"length">>,   \* Content-length: n with n # 0
                            <<"empty">>,    \* Content-length: 0
                            <<"header">>,   \* any other header
                            <<"blank">>}
Junk == <<"junk">>
NoLine == <<"none">>

ASSUME WildAssumption == Wild \notin Options
ASSUME ReadsAssumption == Reads \subseteq Seq(Lines \cup Bodies) /\ << >> \notin Reads

NoVote == <<"none", Wild>>
Votes == Rows \X (Options \cup {Wild})
Labels == {"BAD_REQUESE", "NO_RESOURSE", "FORBIDDEN_REQUESE", "FILE_REQUESE"}
FileStates == {"file", "missing", "forbidden", "directory"}

VARIABLES
    (* the Context of the read being parsed *)
    text,          \* data_; "<< >>" before the first read
    checkIdx,      \* m_checkIdx_: the next token
    state,         \* state_
    endLabel,
    (* the AnalyseData of the connection *)
    url,
    contextData,   \* a position in text, 0 if it points into an older Context
    requeseLabel,
    voteOption,
    (* what the last read led to *)
    file,          \* what stat said (history)
    reply,         \* the label of the reply, "none" while the read is parsed
    counted        \* the vote AddVote was called for, or NoVote

contextVars == <<text, checkIdx, state, endLabel>>
vars == <<text, checkIdx, state, endLabel, url, contextData, requeseLabel,
          voteOption, file, reply, counted>>

Init ==
    /\ text = << >> /\ checkIdx = 1 /\ state = "End" /\ endLabel = TRUE
    /\ url = "page" /\ contextData = 0
    /\ requeseLabel = "BAD_REQUESE" /\ voteOption = NoVote
    /\ file = "file" /\ reply = "none" /\ counted = NoVote

-----------------------------------------------------------------------------
(* Context::getSentence: the line from token p on, and where it ends.  An    *)
(* operator named Mut... is a plausible bug: the definition after it, gone   *)
(* wrong.                                                                    *)

LineEnds(p) == {i \in p .. Len(text) : text[i] \notin Bodies}
LineEnd(p) == CHOOSE i \in LineEnds(p) : \A j \in LineEnds(p) : i <= j

\* (a body before a line is skipped)
MutSentence(p) == IF LineEnds(p) = {} THEN NoLine ELSE text[LineEnd(p)]

Sentence(p) ==
    IF LineEnds(p) = {} THEN NoLine
    ELSE IF LineEnd(p) = p THEN text[p] ELSE Junk

After(p) == IF LineEnds(p) = {} THEN Len(text) + 1 ELSE LineEnd(p) + 1

\* (the body is expected right there, without the empty line)
MutOptionsAt(p) == IF p > 0 /\ p <= Len(text) /\ text[p] \in Bodies
                   THEN {text[p][2]} ELSE Options \cup {Wild}

\* contextData[9] - '0': the digit, if contextData points to the empty line
\* before a body; otherwise whatever is in that place.
OptionsAt(p) ==
    IF p > 0 /\ p < Len(text) /\ text[p] = <<"blank">> /\ text[p + 1] \in Bodies
    THEN {text[p + 1][2]}
    ELSE Options \cup {Wild}

-----------------------------------------------------------------------------
\* Context::setEndLabel, with the label of the reply.
End(label) ==
    /\ requeseLabel' = label
    /\ endLabel' = TRUE
    /\ state' = "End"

\* TcpConn::handleRead and stateAnalyse::loadDataFromBuf: a new Context, which
\* contextData does not point into yet.
Read(tokens) ==
    /\ text = << >> \/ reply # "none"
    /\ text' = tokens
    /\ checkIdx' = 1
    /\ state' = "Requese"
    /\ endLabel' = FALSE
    /\ contextData' = 0
    /\ reply' = "none"
    /\ UNCHANGED <<url, requeseLabel, voteOption, file, counted>>

\* The loop of analyseDataFromConn calls the handler of state s.
Handling(s) == ~endLabel /\ state = s

\* StateRequese::handle
StateRequese ==
    /\ Handling("Requese")
    /\ checkIdx' = After(checkIdx)
    /\ \/ /\ Sentence(checkIdx) \in RequestLines
          /\ url' = Sentence(checkIdx)[2]
          /\ state' = "Headers"
          /\ UNCHANGED <<endLabel, requeseLabel>>
       \/ /\ Sentence(checkIdx) \notin RequestLines
          /\ End("BAD_REQUESE")
          /\ UNCHANGED url
    /\ UNCHANGED <<text, contextData, voteOption, file, reply, counted>>

\* StateHeaders::handle: one header.  The empty line is an unknown header like
\* any other; a Content-length ends the headers.
StateHeaders ==
    /\ Handling("Headers")
    /\ checkIdx' = After(checkIdx)
    /\ state' = CASE Sentence(checkIdx) \in {NoLine, <<"empty">>} -> "DoRequese"
                  [] Sentence(checkIdx) = <<"length">>            -> "Contexts"
                  [] OTHER                                        -> "Headers"
    /\ UNCHANGED <<text, endLabel, url, contextData, requeseLabel, voteOption,
                   file, reply, counted>>

\* StateContexts::handle
StateContexts ==
    /\ Handling("Contexts")
    /\ contextData' = checkIdx
    /\ state' = "DoRequese"
    /\ UNCHANGED <<text, checkIdx, endLabel, url, requeseLabel, voteOption, file,
                   reply, counted>>

\* The label for what stat says of the file.
LabelOf(status) ==
    CASE status = "missing"   -> "NO_RESOURSE"
      [] status = "forbidden" -> "FORBIDDEN_REQUESE"
      [] status = "directory" -> "BAD_REQUESE"
      [] status = "file"      -> "FILE_REQUESE"

\* StateDoRequese::handle: a vote is noted before the file (thank.html for a
\* vote) is looked for.
StateDoRequese(status) ==
    /\ Handling("DoRequese")
    /\ IF url \in Rows
       THEN \E option \in OptionsAt(contextData) : voteOption' = <<url, option>>
       ELSE UNCHANGED voteOption
    /\ file' = status
    /\ End(LabelOf(status))
    /\ UNCHANGED <<text, checkIdx, url, contextData, reply, counted>>

\* A request for a vote without a Content-length is read through a pointer nobody
\* has set, or into the Context of an earlier read: that may end the process.
Segfault ==
    /\ Handling("DoRequese") /\ url \in Rows /\ contextData = 0
    /\ state' = "Dead"
    /\ UNCHANGED <<text, checkIdx, endLabel, url, contextData, requeseLabel,
                   voteOption, file, reply, counted>>

\* (the vote stays noted after AddVote)
MutProcessWrite ==
    /\ text # << >> /\ endLabel /\ reply = "none"
    /\ reply' = requeseLabel
    /\ counted' = IF requeseLabel = "FILE_REQUESE" THEN voteOption ELSE NoVote
    /\ UNCHANGED <<contextVars, url, contextData, requeseLabel, voteOption, file>>

\* stateAnalyse::process_write: AddVote, if a vote is noted and the reply is 200.
ProcessWrite ==
    /\ text # << >> /\ endLabel /\ reply = "none"
    /\ reply' = requeseLabel
    /\ \/ /\ requeseLabel = "FILE_REQUESE"
          /\ counted' = voteOption
          /\ voteOption' = NoVote
       \/ /\ requeseLabel # "FILE_REQUESE"
          /\ counted' = NoVote
          /\ UNCHANGED voteOption
    /\ UNCHANGED <<contextVars, url, contextData, requeseLabel, file>>

Step ==
    \/ StateRequese
    \/ StateHeaders
    \/ StateContexts
    \/ \E status \in FileStates : StateDoRequese(status)
    \/ Segfault
    \/ ProcessWrite

Next == Step \/ \E tokens \in Reads : Read(tokens)

Spec == Init /\ [][Next]_vars

-----------------------------------------------------------------------------
(* Properties. *)

\* Every variable holds a value of its kind; the parser is at its end exactly
\* when endLabel says so, and has read no further than the text.
TypeOK ==
    /\ text \in Seq(Lines \cup Bodies)
    /\ checkIdx \in 1 .. (Len(text) + 1)
    /\ state \in {"Requese", "Headers", "Contexts", "DoRequese", "End", "Dead"}
    /\ endLabel \in BOOLEAN /\ (endLabel <=> state = "End")
    /\ url \in Targets
    /\ contextData \in 0 .. (Len(text) + 1)
    /\ requeseLabel \in Labels
    /\ voteOption \in Votes \cup {NoVote}
    /\ file \in FileStates
    /\ reply \in Labels \cup {"none"}
    /\ counted \in Votes \cup {NoVote}

\* Whatever a read consists of, and whatever state an earlier one left behind,
\* its first line and the file decide the reply.
ReplyAgrees ==
    text # << >> /\ reply # "none" =>
        reply = IF text[1] \in RequestLines THEN LabelOf(file) ELSE "BAD_REQUESE"

\* The text is one whole POST of a form: a request line, headers of which one
\* is Content-length, the empty line, the body.
VoteRequest(row, option) ==
    LET n == Len(text)
    IN  /\ n >= 4
        /\ text[1] = <<"request", row>>
        /\ text[n - 1] = <<"blank">> /\ text[n] = <<"body", option>>
        /\ \E i \in 2 .. (n - 2) :
              /\ text[i] = <<"length">>
              /\ \A j \in (2 .. (n - 2)) \ {i} : text[j] = <<"header">>
LengthLast == text[Len(text) - 2] = <<"length">>

\* A vote that arrives in one read and has Content-length as its last header is
\* counted, for its own row and option, if thank.html can be sent; it never ends
\* the process, whatever earlier reads left behind.
WholeVoteCounted ==
    \A row \in Rows, option \in Options :
        VoteRequest(row, option) /\ LengthLast =>
            /\ state # "Dead"
            /\ reply = "FILE_REQUESE" => counted = <<row, option>>

\* A vote counts once: a 200 leaves no vote noted, so that no later request of
\* the connection counts it again, and an error reply counts none.
VoteSpent ==
    /\ reply = "FILE_REQUESE" => voteOption = NoVote
    /\ reply # "none" /\ reply # "FILE_REQUESE" => counted = NoVote

\* README (line 10): GET and POST are parsed.  Refuted: the order of the headers
\* matters, since whatever follows Content-length is taken for the body.
PostUnderstood ==
    \A row \in Rows, option \in Options :
        reply = "FILE_REQUESE" /\ VoteRequest(row, option) =>
            counted = <<row, option>>

\* No vote comes from nowhere and none is dropped on the way (Ballot): a request for
\* a row is one for a vote, for the option of its body if it is whole and
\* Content-length comes last, and for any option otherwise.
Whole == {vote \in Rows \X Options : VoteRequest(vote[1], vote[2]) /\ LengthLast}
Asked ==
    IF text = << >> \/ state = "End" \/ text[1] \notin {"request"} \X Rows THEN {}
    ELSE IF Whole # {} THEN Whole
    ELSE {text[1][2]} \X (Options \cup {Wild})
Verdict ==
    CASE text = << >>                             -> "idle"
      [] text # << >> /\ reply = "none"           -> "none"
      [] text # << >> /\ reply = "FILE_REQUESE"   -> "ok"
      [] text # << >> /\ reply \notin {"none", "FILE_REQUESE"} -> "error"
Voting == INSTANCE Ballot WITH asked <- Asked, noted <- voteOption, reply <- Verdict
BallotSpec == Voting!Spec
===============================================================================
