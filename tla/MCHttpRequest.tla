---------------------------- MODULE MCHttpRequest ----------------------------
(***************************************************************************)
(* An instance of HttpRequest for TLC.  A read is anything made of a first *)
(* token, up to MaxHeaders tokens that may be headers, and a tail; this    *)
(* has whole requests, parts of them (a request that comes in two reads),  *)
(* bodies alone and two requests in one read.                              *)
(***************************************************************************)
EXTENDS HttpRequest, SequencesExt

CONSTANT MaxHeaders   \* bound: tokens between the first one and the tail

ABody == CHOOSE b \in Bodies : TRUE
Heads == RequestLines \cup {<<"bad">>, ABody}
Middles == SeqOf({<<"length">>, <<"empty">>, <<"header">>}, MaxHeaders)
Tails == {<< >>, <<<<"blank">>>>, <<<<"request", "page">>>>}
         \cup {<<<<"blank">>, b>> : b \in Bodies}
         \cup {<<<<"blank">>, ABody, <<"request", "page">>>>}

MCReads == {<<h>> \o m \o t : h \in Heads, m \in Middles, t \in Tails}
=============================================================================
