------------------------------- MODULE Webbench -------------------------------
(***************************************************************************)
(* The load generator the server is measured with: bench forks the clients *)
(* and adds up what they write to a pipe; each client repeats requests in  *)
(* benchcore until its alarm has gone off.                                 *)
(*                                                                         *)
(* The handler only sets timerexpired, so the alarm works by interrupting  *)
(* a system call (EINTR), which looks like a failed request and is taken   *)
(* back, or by the tests of the flag in between.  What is read is not      *)
(* looked at; bytes, a sum like the others, is left out.                   *)
(***************************************************************************)
EXTENDS Naturals, Sequences, FiniteSets, Folds

CONSTANTS NumClients,    \* clients
          MaxRequests    \* bound: requests of a client before its alarm

ASSUME BenchAssumption == NumClients \in Nat \ {0} /\ MaxRequests \in Nat \ {0}

Children == 1 .. NumClients

VARIABLES
    keepAlive, force, http09,   \* options -k, -f, -9
    parent,       \* "check", "fork", "open", "collect", "printed" or "gave up"
    forked,       \* children made so far
    pipe,         \* reports in it, in order
    missing,      \* clients, counted down
    total,        \* speed and failed of the parent
    pc,           \* place of each child; "dead": ended without a report
    timer,        \* its alarm: "off", "armed" or "expired"
    speed, failed,
    failures      \* requests that failed, the alarm apart (history)

options == <<keepAlive, force, http09>>
parentVars == <<parent, forked, missing, total>>
counts == <<speed, failed, failures>>
vars == <<options, parentVars, pipe, pc, timer, counts>>

Init ==
    /\ keepAlive \in BOOLEAN /\ force \in BOOLEAN /\ http09 \in BOOLEAN
    /\ parent = "check" /\ forked = 0 /\ pipe = << >>
    /\ missing = NumClients /\ total = [speed |-> 0, failed |-> 0]
    /\ pc = [c \in Children |-> "none"] /\ timer = [c \in Children |-> "off"]
    /\ speed = [c \in Children |-> 0] /\ failed = [c \in Children |-> 0]
    /\ failures = [c \in Children |-> 0]

-----------------------------------------------------------------------------
(* The parent: bench.                                                      *)

\* The server must answer, and the pipe be made.
CheckServer ==
    /\ parent = "check"
    /\ parent' \in {"fork", "gave up"}
    /\ UNCHANGED <<options, forked, missing, total, pipe, pc, timer, counts>>

\* A fork that fails ends the parent, not the children there are.
Fork ==
    /\ parent = "fork"
    /\ \/ /\ forked' = forked + 1
          /\ pc' = [pc EXCEPT ![forked + 1] = "start"]
          /\ parent' = IF forked + 1 = NumClients THEN "open" ELSE "fork"
       \/ parent' = "gave up" /\ UNCHANGED <<forked, pc>>
    /\ UNCHANGED <<options, missing, total, pipe, timer, counts>>

\* fdopen of the reading end.
OpenPipe ==
    /\ parent = "open"
    /\ parent' \in {"collect", "gave up"}
    /\ UNCHANGED <<options, forked, missing, total, pipe, pc, timer, counts>>

\* (the report that ends the loop is not added)
MutCollect ==
    /\ parent = "collect" /\ pipe # << >>
    /\ pipe' = Tail(pipe)
    /\ missing' = missing - 1
    /\ IF missing' = 0 THEN parent' = "printed" /\ total' = total
       ELSE /\ parent' = parent
            /\ total' = [speed |-> total.speed + Head(pipe).speed,
                         failed |-> total.failed + Head(pipe).failed]
    /\ UNCHANGED <<options, forked, pc, timer, counts>>

\* (clients-- for --clients)
MutCollectMore ==
    /\ parent = "collect" /\ pipe # << >>
    /\ pipe' = Tail(pipe)
    /\ total' = [speed |-> total.speed + Head(pipe).speed,
                 failed |-> total.failed + Head(pipe).failed]
    /\ missing' = missing - 1
    /\ parent' = IF missing = 0 THEN "printed" ELSE parent
    /\ UNCHANGED <<options, forked, pc, timer, counts>>

\* One report is read and added.  The parent has the pipe open for writing itself,
\* so fscanf never sees its end, whoever has died.
Collect ==
    /\ parent = "collect" /\ pipe # << >>
    /\ pipe' = Tail(pipe)
    /\ total' = [speed |-> total.speed + Head(pipe).speed,
                 failed |-> total.failed + Head(pipe).failed]
    /\ missing' = missing - 1
    /\ parent' = IF missing' = 0 THEN "printed" ELSE parent
    /\ UNCHANGED <<options, forked, pc, timer, counts>>

-----------------------------------------------------------------------------
(* A child: benchcore.                                                     *)

Goto(c, place) == pc' = [pc EXCEPT ![c] = place]

\* The request has failed; it is the next one's turn.
Failed(c, place) ==
    /\ failed' = [failed EXCEPT ![c] = @ + 1]
    /\ failures' = [failures EXCEPT ![c] = @ + 1]
    /\ Goto(c, place)
    /\ UNCHANGED speed

\* The alarm is set; exit(3) if the handler cannot be installed.
StartCore(c) ==
    /\ pc[c] = "start"
    /\ \/ /\ timer' = [timer EXCEPT ![c] = "armed"]
          /\ Goto(c, IF keepAlive THEN "reconnect" ELSE "top")
       \/ Goto(c, "dead") /\ UNCHANGED timer
    /\ UNCHANGED <<options, parentVars, pipe, counts>>

\* (the alarm's own failure is not taken back)
MutTop(c) ==
    /\ pc[c] = "top"
    /\ IF timer[c] = "expired"
       THEN Goto(c, "report")
       ELSE /\ speed[c] + failed[c] < MaxRequests
            /\ Goto(c, IF keepAlive THEN "write" ELSE "connect")
    /\ UNCHANGED <<options, parentVars, pipe, timer, counts>>

\* The outer loop: "Correcting failed by signal".
Top(c) ==
    /\ pc[c] = "top"
    /\ IF timer[c] = "expired"
       THEN /\ Goto(c, "report")
            /\ failed' = [failed EXCEPT ![c] = IF @ > 0 THEN @ - 1 ELSE @]
       ELSE /\ speed[c] + failed[c] < MaxRequests
            /\ Goto(c, IF keepAlive THEN "write" ELSE "connect")
            /\ UNCHANGED failed
    /\ UNCHANGED <<options, parentVars, pipe, timer, speed, failures>>

\* while((s=Socket(host,port))==-1): the flag is not looked at.
Reconnect(c) ==
    /\ pc[c] = "reconnect"
    /\ Goto(c, "top") \/ Goto(c, "reconnect")
    /\ UNCHANGED <<options, parentVars, pipe, timer, counts>>

\* Socket, once for each request.
Connect(c) ==
    /\ pc[c] = "connect"
    /\ \/ Goto(c, "write") /\ UNCHANGED counts
       \/ Failed(c, "top")
    /\ UNCHANGED <<options, parentVars, pipe, timer>>

\* write fails or is short, or the peer has closed and SIGPIPE kills the child.
Write(c) ==
    /\ pc[c] = "write"
    /\ \/ /\ Goto(c, IF ~keepAlive /\ http09 THEN "shutdown" ELSE IF force THEN "close" ELSE "test")
          /\ UNCHANGED counts
       \/ Failed(c, IF keepAlive THEN "reconnect" ELSE "top")
       \/ Goto(c, "dead") /\ UNCHANGED counts
    /\ UNCHANGED <<options, parentVars, pipe, timer>>

\* HTTP/0.9: the request ends with the sending side.
Shutdown(c) ==
    /\ pc[c] = "shutdown"
    /\ \/ Goto(c, IF force THEN "close" ELSE "test") /\ UNCHANGED counts
       \/ Failed(c, "top")
    /\ UNCHANGED <<options, parentVars, pipe, timer>>

\* if(timerexpired) break; the request counts.
Test(c) ==
    /\ pc[c] = "test"
    /\ IF timer[c] = "expired"
       THEN Goto(c, "close")
       ELSE Goto(c, "read")
    /\ UNCHANGED <<options, parentVars, pipe, timer, counts>>

\* read returns data, the end of the reply, or an error, or it waits for a server
\* that has nothing to say.  With -k it is called once, and the socket of a failed
\* read is not opened again here.
Read(c) ==
    /\ pc[c] = "read"
    /\ \/ Goto(c, IF keepAlive THEN "close" ELSE "test") /\ UNCHANGED counts
       \/ Goto(c, "close") /\ UNCHANGED counts
       \/ Failed(c, "top")
    /\ UNCHANGED <<options, parentVars, pipe, timer>>

\* close, if the connection is not kept; the request has succeeded.
Close(c) ==
    /\ pc[c] = "close"
    /\ \/ /\ speed' = [speed EXCEPT ![c] = @ + 1]
          /\ Goto(c, "top")
          /\ UNCHANGED <<failed, failures>>
       \/ ~keepAlive /\ Failed(c, "top")
    /\ UNCHANGED <<options, parentVars, pipe, timer>>

\* alarm_handler, between two statements or inside a call that blocks: there the
\* call fails, and the request with it.
Alarm(c) ==
    /\ timer[c] = "armed" /\ pc[c] # "dead"
    /\ timer' = [timer EXCEPT ![c] = "expired"]
    /\ \/ UNCHANGED <<pc, counts>>
       \/ /\ pc[c] \in {"connect", "write", "read"}
          /\ failed' = [failed EXCEPT ![c] = @ + 1]
          /\ Goto(c, IF keepAlive /\ pc[c] = "write" THEN "reconnect" ELSE "top")
          /\ UNCHANGED <<speed, failures>>
    /\ UNCHANGED <<options, parentVars, pipe>>

\* The report, if fdopen works.  The child has the reading end open too, so it can
\* be written even when the parent is gone.
Report(c) ==
    /\ pc[c] = "report"
    /\ \/ Goto(c, "dead") /\ UNCHANGED pipe
       \/ Goto(c, "done") /\ pipe' = Append(pipe, [speed |-> speed[c], failed |-> failed[c]])
    /\ UNCHANGED <<options, parentVars, timer, counts>>

ChildStep(c) ==
    \/ StartCore(c) \/ Top(c) \/ Reconnect(c) \/ Connect(c) \/ Write(c) \/ Shutdown(c)
    \/ Test(c) \/ Close(c) \/ Report(c)

ParentStep == CheckServer \/ Fork \/ OpenPipe \/ Collect

Next == ParentStep \/ \E c \in Children : ChildStep(c) \/ Read(c) \/ Alarm(c)

Spec == Init /\ [][Next]_vars

\* Processes are scheduled, alarms go off, and a server that is asked again and again
\* is reached.  Calls return, but for read: nobody says that the server answers, or
\* that it closes, and an alarm that came before the call will not end it.
FairSpec ==
    /\ Spec /\ WF_vars(ParentStep)
    /\ \A c \in Children :
          /\ WF_vars(ChildStep(c)) /\ WF_vars(Alarm(c))
          /\ SF_vars(Reconnect(c) /\ pc'[c] = "top")

-----------------------------------------------------------------------------
(* Properties.                                                             *)

\* A child reports the requests that failed, at most one less: what the alarm's
\* own EINTR adds is taken back, and something real only when it added nothing.
FailuresReported ==
    \A c \in Children : pc[c] = "report" =>
        failed[c] <= failures[c] /\ failures[c] <= failed[c] + 1

Sum(f) == MapThenFoldSet(LAMBDA a, b : a + b, 0, LAMBDA c : f[c], LAMBDA S : CHOOSE c \in S : TRUE, Children)

\* What is printed is the sum over all clients, not over those that came first; if
\* a child has died, nothing is printed.
AllAreCounted ==
    parent = "printed" =>
        /\ \A c \in Children : pc[c] = "done"
        /\ total = [speed |-> Sum(speed), failed |-> Sum(failed)]

\* bench comes to an end, unless a child dies, or its alarm goes off between the test
\* of timerexpired and a read that the server leaves waiting: then bench waits for ever
\* too, and "Some of our childrens died." is never printed.
BenchReturns ==
    \/ <>(parent \in {"printed", "gave up"} \/ \E c \in Children : pc[c] = "dead")
    \/ \E c \in Children : <>[](pc[c] = "read" /\ timer[c] = "expired")
=============================================================================
