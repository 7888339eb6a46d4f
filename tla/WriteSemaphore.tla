--------------------------- MODULE WriteSemaphore ---------------------------
(***************************************************************************)
(* The counting semaphore of Novell.Directory.Ldap/Connection.cs that      *)
(* keeps writes away from a bind in progress (acquireWriteSemaphore,       *)
(* freeWriteSemaphore).  Its owner is a message id; callers without one    *)
(* (connect, Dispose, stopTLS pass 0) get a negative ephemeral id.         *)
(*                                                                         *)
(* A monitor protects it: what happens between entering lock(...) and      *)
(* Monitor.Wait or leaving is one step.  Wait gives the monitor up and     *)
(* puts the thread among the waiting; Pulse makes one of them a thread     *)
(* that competes for the monitor again and then tests the owner again.     *)
(***************************************************************************)
EXTENDS Integers, FiniteSets

CONSTANTS Threads,   \* the threads that use the connection
          MsgIds,    \* the message ids of the requests they send
          IntSize,   \* the smallest int is -IntSize (2^31 in the code)
          MaxCalls   \* bound: calls of acquireWriteSemaphore in a behaviour

ASSUME ConstantsAssumption ==
  /\ MsgIds \subseteq Nat \ {0}
  /\ IntSize \in Nat \ {0, 1}
  /\ MaxCalls \in Nat

Ephemerals == (-IntSize) .. (-1)

Ids == MsgIds \cup Ephemerals

VARIABLES
  owner,        \* writeSemaphoreOwner: 0, or the id that holds the semaphore
  count,        \* writeSemaphoreCount
  ephemeralId,  \* the last ephemeral id made
  state,        \* of each thread: "out" of acquire, "waiting" or "woken" in it
  id,           \* local `id` of acquireWriteSemaphore
  calls,        \* calls of acquireWriteSemaphore so far
  grants        \* history: for each id, acquires that returned, not yet freed

vars == <<owner, count, ephemeralId, state, id, calls, grants>>

In(s) == {t \in Threads : state[t] = s}

Init ==
  /\ owner = 0
  /\ count = 0
  /\ ephemeralId = -1
  /\ state = [t \in Threads |-> "out"]
  /\ id = [t \in Threads |-> 0]
  /\ calls = 0
  /\ grants = [i \in Ids |-> 0]

-----------------------------------------------------------------------------
\* MUTANT: one identity for all callers that have no message.
SharedEphemeral == -1

NextEphemeral == IF ephemeralId = -IntSize THEN -1 ELSE ephemeralId - 1

\* MUTANT: a nested acquire is not counted.
TakeWithoutCounting(t, i) ==
  /\ owner \in {0, i}
  /\ owner' = i
  /\ count' = 1
  /\ grants' = [grants EXCEPT ![i] = @ + 1]
  /\ state' = [state EXCEPT ![t] = "out"]

\* The test at the head of the loop for thread t with identity i: the thread
\* gets the semaphore and leaves acquire, or waits.
Take(t, i) ==
  /\ owner \in {0, i}
  /\ owner' = i
  /\ count' = count + 1
  /\ grants' = [grants EXCEPT ![i] = @ + 1]
  /\ state' = [state EXCEPT ![t] = "out"]

Wait(t, i) ==
  /\ owner \notin {0, i}
  /\ state' = [state EXCEPT ![t] = "waiting"]
  /\ UNCHANGED <<owner, count, grants>>

\* acquireWriteSemaphore(m) enters the monitor; 0 asks for an ephemeral id.
Acquire(t, m) ==
  /\ state[t] = "out"
  /\ calls < MaxCalls
  /\ calls' = calls + 1
  /\ ephemeralId' = IF m = 0 THEN NextEphemeral ELSE ephemeralId
  /\ LET i == IF m = 0 THEN NextEphemeral ELSE m
     IN  /\ id' = [id EXCEPT ![t] = i]
         /\ Take(t, i) \/ Wait(t, i)

\* A thread that was pulsed is back in the monitor and tests the owner again.
Retest(t) ==
  /\ state[t] = "woken"
  /\ Take(t, id[t]) \/ Wait(t, id[t])
  /\ UNCHANGED <<ephemeralId, id, calls>>

\* MUTANT: nobody is told that the semaphore is free.
NoPulse == UNCHANGED state

\* Monitor.Pulse: one waiting thread, if there is any, is woken.
Pulse ==
  IF In("waiting") = {} THEN UNCHANGED state
  ELSE \E t \in In("waiting") : state' = [state EXCEPT ![t] = "woken"]

\* freeWriteSemaphore(i), by any thread.  Freeing what one does not own throws
\* and changes nothing; who does that is the business of LdapMessage.
FreeLast(i) ==
  /\ owner = i
  /\ count = 1
  /\ count' = 0
  /\ owner' = 0
  /\ grants' = [grants EXCEPT ![i] = @ - 1]
  /\ Pulse
  /\ UNCHANGED <<ephemeralId, id, calls>>

FreeNested(i) ==
  /\ owner = i
  /\ count > 1
  /\ count' = count - 1
  /\ grants' = [grants EXCEPT ![i] = @ - 1]
  /\ UNCHANGED <<owner, ephemeralId, state, id, calls>>

Next ==
  \/ \E t \in Threads : Retest(t) \/ \E m \in MsgIds \cup {0} : Acquire(t, m)
  \/ \E i \in Ids : FreeLast(i) \/ FreeNested(i)

Spec == Init /\ [][Next]_vars

\* Threads inside acquire are scheduled, and whoever owns the semaphore frees
\* it: every caller frees in a finally block or when the bind is answered.
FairSpec ==
  /\ Spec
  /\ \A t \in Threads : WF_vars(Retest(t))
  /\ \A i \in Ids : WF_vars(FreeLast(i) \/ FreeNested(i))

-----------------------------------------------------------------------------
TypeOK ==
  /\ owner \in Ids \cup {0}
  /\ count \in Nat
  /\ ephemeralId \in Ephemerals
  /\ state \in [Threads -> {"out", "waiting", "woken"}]
  /\ id \in [Threads -> Ids \cup {0}]
  /\ calls \in 0..MaxCalls
  /\ grants \in [Ids -> Nat]

\* The two ints are the truth about who is inside: the owner holds as many
\* grants as the count says, nobody else holds any.
CountIsTruth ==
  /\ \A i \in Ids : grants[i] = IF i = owner THEN count ELSE 0
  /\ owner = 0 <=> count = 0

\* A thread in acquire has an identity to test with.
WaitersHaveIds == \A t \in Threads : state[t] # "out" => id[t] \in Ids

\* No wakeup is lost: while the semaphore is free and someone sleeps on it,
\* someone else has been woken and is about to take it.  One Pulse per release
\* is enough, although newcomers may overtake the thread that was woken.
NoLostWakeup == owner = 0 /\ In("waiting") # {} => In("woken") # {}

Inv == TypeOK /\ CountIsTruth /\ WaitersHaveIds /\ NoLostWakeup

\* Callers that pass 0 must not be taken for each other: until the counter of
\* acquireWriteSemaphore wraps around (2^31 calls in the code), whoever holds
\* the semaphore under an ephemeral id holds it alone.
EphemeralAlone == calls < IntSize => \A i \in Ephemerals : grants[i] <= 1

\* Every acquire returns, once the requests are finitely many.
AcquireReturns == \A t \in Threads : state[t] # "out" ~> state[t] = "out"

Abstract == INSTANCE ReentrantLock

ImplementsReentrantLock == Abstract!Spec
=============================================================================
