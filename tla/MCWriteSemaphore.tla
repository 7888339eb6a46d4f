-------------------------- MODULE MCWriteSemaphore --------------------------
(***************************************************************************)
(* Three threads, two message ids, ints from -3 up: a bind can hold the    *)
(* semaphore under its id while a second thread writes under the same id   *)
(* and a third waits, and the ephemeral ids wrap around after three calls. *)
(***************************************************************************)
EXTENDS WriteSemaphore

CONSTANTS t1, t2, t3

MCThreads == {t1, t2, t3}
=============================================================================
