-------------------------------- MODULE Journal --------------------------------
(***************************************************************************)
(* What AsyncLogging promises those who log: the messages go to the file   *)
(* in the order in which they were given, each once.  Some that wait may   *)
(* be thrown away together, and then the file says so before the gap.      *)
(***************************************************************************)
EXTENDS Naturals, Sequences, SequencesExt

VARIABLES file,      \* messages and announcements written
          waiting,   \* messages given, and neither written nor thrown away
          accepted   \* how many were given; a message is its number

vars == <<file, waiting, accepted>>

Announcement == 0    \* messages are missing from here on

Init == file = << >> /\ waiting = {} /\ accepted = 0

Increasing(s) == \A i, j \in DOMAIN s : i < j => s[i] < s[j]

\* A message is given.
Accept ==
    /\ accepted' = accepted + 1
    /\ waiting' = waiting \cup {accepted'}
    /\ UNCHANGED file

\* The oldest ones that wait are written, any number of them.
Write ==
    LET oldest == SubSeq(file', Len(file) + 1, Len(file'))
    IN  /\ file' = file \o oldest
        /\ Increasing(oldest)
        /\ ToSet(oldest) \subseteq waiting
        /\ waiting' = waiting \ ToSet(oldest)
        /\ \A x \in ToSet(oldest), y \in waiting' : x < y
        /\ UNCHANGED accepted

\* Some, one after the other, are thrown away: announced, if not yet at its place.
Discard ==
    LET gone == waiting \ waiting'
    IN  /\ gone # {} /\ waiting' \subseteq waiting
        /\ \A x, y \in gone, z \in waiting' : ~ (x < z /\ z < y)
        /\ file' = Append(file, Announcement)
        /\ UNCHANGED accepted

Next == Accept \/ Write \/ Discard

Spec == Init /\ [][Next]_vars
=============================================================================
