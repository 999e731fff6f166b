--------------------------- MODULE MCEventLoopQueue ---------------------------
(***************************************************************************)
(* The instance of EventLoopQueue for TLC: two producers race with each    *)
(* other and with the loop; with four tasks a producer that queues again,  *)
(* a task queued by a handler and one queued by a task meet in one run.    *)
(***************************************************************************)
EXTENDS EventLoopQueue

CONSTANTS p1, p2, t1, t2, t3, t4

MCProducers == {p1, p2}
MCTasks == {t1, t2, t3, t4}
=============================================================================
