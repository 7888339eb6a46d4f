--------------------------- MODULE ReentrantLock ---------------------------
(***************************************************************************)
(* What Connection's write semaphore promises: at any time calls of one    *)
(* identity only are between acquireWriteSemaphore and freeWriteSemaphore. *)
(* The identity is a message id, not a thread: a bind's semaphore is       *)
(* acquired by the application and freed by the thread that reads the      *)
(* answer.                                                                 *)
(***************************************************************************)
EXTENDS Naturals

CONSTANT Ids         \* the identities

VARIABLE grants      \* for each identity, acquires that returned, not yet freed

Init == grants = [i \in Ids |-> 0]

Acquire(i) ==
  /\ \A j \in Ids \ {i} : grants[j] = 0
  /\ grants' = [grants EXCEPT ![i] = @ + 1]

Free(i) ==
  /\ grants[i] > 0
  /\ grants' = [grants EXCEPT ![i] = @ - 1]

Next == \E i \in Ids : Acquire(i) \/ Free(i)

Spec == Init /\ [][Next]_grants

\* The point of the lock: no two identities hold it together.
Exclusive == \A i, j \in Ids : grants[i] > 0 /\ grants[j] > 0 => i = j
=============================================================================
