------------------------ MODULE WriteSemaphoreProofs ------------------------
(***************************************************************************)
(* Proofs about WriteSemaphore for any number of threads and requests and  *)
(* any width of the int.                                                   *)
(***************************************************************************)
EXTENDS WriteSemaphore, TLAPS

\* Identities are never 0, which is why 0 can mean "free".
LEMMA IdsNotZero == 0 \notin Ids /\ Ids \subseteq Int /\ Ephemerals \subseteq Ids
BY ConstantsAssumption DEF Ids, Ephemerals

LEMMA NextEphemeralType ==
  ASSUME ephemeralId \in Ephemerals
  PROVE  NextEphemeral \in Ephemerals
BY ConstantsAssumption DEF NextEphemeral, Ephemerals

LEMMA InitInv == Init => Inv
<1> USE ConstantsAssumption
<1> SUFFICES ASSUME Init PROVE Inv
  OBVIOUS
<1>1. TypeOK
  BY DEF Init, TypeOK, Ephemerals
<1>2. CountIsTruth
  BY IdsNotZero DEF Init, CountIsTruth
<1>3. WaitersHaveIds
  BY DEF Init, WaitersHaveIds
<1>4. NoLostWakeup
  BY DEF Init, NoLostWakeup, In
<1> QED
  BY <1>1, <1>2, <1>3, <1>4 DEF Inv

\* The shape of a step, by the thread or identity that makes it.
LEMMA Steps ==
  ASSUME [Next]_vars
  PROVE  \/ \E t \in Threads : Retest(t)
         \/ \E t \in Threads, m \in MsgIds \cup {0} : Acquire(t, m)
         \/ \E i \in Ids : FreeLast(i)
         \/ \E i \in Ids : FreeNested(i)
         \/ UNCHANGED vars
BY DEF Next

-----------------------------------------------------------------------------
\* The test at the head of the loop keeps the invariant, whoever makes it: a
\* newcomer in Acquire or a woken thread in Retest.
LEMMA TestKeepsInv ==
  ASSUME Inv, NEW t \in Threads, NEW i \in Ids, Take(t, i) \/ Wait(t, i),
         state[t] \in {"out", "woken"},
         ephemeralId' \in Ephemerals, calls' \in 0..MaxCalls,
         id' = [id EXCEPT ![t] = i]
  PROVE  Inv'
<1> USE IdsNotZero
<1>1. CASE Take(t, i)
  <2>1. TypeOK'
    BY <1>1 DEF Inv, TypeOK, Take
  <2>2. CountIsTruth'
    BY <1>1 DEF Inv, TypeOK, Take, CountIsTruth
  <2>3. WaitersHaveIds'
    BY <1>1 DEF Inv, TypeOK, Take, WaitersHaveIds
  <2>4. NoLostWakeup'
    BY <1>1 DEF Take, NoLostWakeup
  <2> QED
    BY <2>1, <2>2, <2>3, <2>4 DEF Inv
<1>2. CASE Wait(t, i)
  <2>1. TypeOK'
    BY <1>2 DEF Inv, TypeOK, Wait
  <2>2. CountIsTruth'
    BY <1>2 DEF Inv, Wait, CountIsTruth
  <2>3. WaitersHaveIds'
    BY <1>2 DEF Inv, TypeOK, Wait, WaitersHaveIds
  <2>4. NoLostWakeup'
    BY <1>2 DEF Wait, NoLostWakeup
  <2> QED
    BY <2>1, <2>2, <2>3, <2>4 DEF Inv
<1> QED
  BY <1>1, <1>2

\* Waking somebody, or nobody when nobody waits, leaves no sleeper behind.
LEMMA PulseWakes ==
  ASSUME TypeOK, Pulse
  PROVE  /\ state' \in [Threads -> {"out", "waiting", "woken"}]
         /\ In("waiting")' # {} => In("woken")' # {}
         /\ \A t \in Threads : state'[t] # "out" => state[t] # "out"
<1>1. CASE In("waiting") = {}
  BY <1>1 DEF Pulse, TypeOK, In
<1>2. CASE In("waiting") # {}
  <2>1. PICK t \in In("waiting") : state' = [state EXCEPT ![t] = "woken"]
    BY <1>2 DEF Pulse
  <2>2. t \in Threads /\ state[t] = "waiting"
    BY <2>1 DEF In
  <2> QED
    BY <2>1, <2>2 DEF TypeOK, In
<1> QED
  BY <1>1, <1>2

LEMMA InvPreserved == ASSUME Inv, [Next]_vars PROVE Inv'
<1> USE IdsNotZero, ConstantsAssumption
<1>1. ASSUME NEW t \in Threads, Retest(t) PROVE Inv'
  <2>1. id[t] \in Ids
    BY <1>1 DEF Retest, Inv, WaitersHaveIds
  <2>2. id' = [id EXCEPT ![t] = id[t]]
    BY <1>1 DEF Retest, Inv, TypeOK
  <2> QED
    BY <1>1, <2>1, <2>2, TestKeepsInv DEF Retest, Inv, TypeOK
<1>2. ASSUME NEW t \in Threads, NEW m \in MsgIds \cup {0}, Acquire(t, m) PROVE Inv'
  <2> DEFINE i == IF m = 0 THEN NextEphemeral ELSE m
  <2>1. i \in Ids /\ ephemeralId' \in Ephemerals
    BY <1>2, NextEphemeralType DEF Acquire, Inv, TypeOK, Ids
  <2>2. calls' \in 0..MaxCalls
    BY <1>2 DEF Acquire, Inv, TypeOK
  <2>3. id' = [id EXCEPT ![t] = i] /\ (Take(t, i) \/ Wait(t, i)) /\ state[t] = "out"
    BY <1>2 DEF Acquire
  <2> HIDE DEF i
  <2> QED
    BY <2>1, <2>2, <2>3, TestKeepsInv
<1>3. ASSUME NEW i \in Ids, FreeLast(i) PROVE Inv'
  <2>1. /\ state' \in [Threads -> {"out", "waiting", "woken"}]
        /\ In("waiting")' # {} => In("woken")' # {}
        /\ \A t \in Threads : state'[t] # "out" => state[t] # "out"
    BY <1>3, PulseWakes DEF FreeLast, Inv
  <2>2. grants[i] = 1
    BY <1>3 DEF FreeLast, Inv, CountIsTruth
  <2>3. TypeOK'
    BY <1>3, <2>1, <2>2 DEF FreeLast, Inv, TypeOK
  <2>4. CountIsTruth'
    BY <1>3, <2>2 DEF FreeLast, Inv, TypeOK, CountIsTruth
  <2>5. WaitersHaveIds'
    BY <1>3, <2>1 DEF FreeLast, Inv, WaitersHaveIds
  <2>6. NoLostWakeup'
    BY <2>1 DEF NoLostWakeup
  <2> QED
    BY <2>3, <2>4, <2>5, <2>6 DEF Inv
<1>4. ASSUME NEW i \in Ids, FreeNested(i) PROVE Inv'
  <2>1. grants[i] = count /\ count \in Nat /\ count > 1
    BY <1>4 DEF FreeNested, Inv, TypeOK, CountIsTruth
  <2>2. TypeOK'
    BY <1>4, <2>1 DEF FreeNested, Inv, TypeOK
  <2>3. CountIsTruth'
    BY <1>4, <2>1 DEF FreeNested, Inv, TypeOK, CountIsTruth
  <2>4. WaitersHaveIds' /\ NoLostWakeup'
    BY <1>4 DEF FreeNested, Inv, WaitersHaveIds, NoLostWakeup, In
  <2> QED
    BY <2>2, <2>3, <2>4 DEF Inv
<1>5. CASE UNCHANGED vars
  BY <1>5 DEF vars, Inv, TypeOK, CountIsTruth, WaitersHaveIds, NoLostWakeup, In
<1> QED
  BY <1>1, <1>2, <1>3, <1>4, <1>5, Steps

-----------------------------------------------------------------------------
\* Owner and count always tell who is inside, and no wakeup is ever lost.
THEOREM Invariance == Spec => []Inv
<1>1. Inv /\ [Next]_vars => Inv'
  BY InvPreserved
<1> QED
  BY InitInv, <1>1, PTL DEF Spec

\* Taking the semaphore is allowed by the abstract lock, and so is freeing it.
LEMMA TakeIsAcquire ==
  ASSUME Inv, NEW t \in Threads, NEW i \in Ids, Take(t, i)
  PROVE  Abstract!Acquire(i)
BY IdsNotZero DEF Inv, CountIsTruth, Take, Abstract!Acquire

LEMMA FreeIsFree ==
  ASSUME Inv, NEW i \in Ids, FreeLast(i) \/ FreeNested(i)
  PROVE  Abstract!Free(i)
BY DEF Inv, TypeOK, CountIsTruth, FreeLast, FreeNested, Abstract!Free

\* The semaphore implements the lock by message id that its comment promises.
THEOREM Refinement == Spec => ImplementsReentrantLock
<1>1. Init => Abstract!Init
  BY DEF Init, Abstract!Init
<1>2. Inv /\ [Next]_vars => [Abstract!Next]_grants
  <2> SUFFICES ASSUME Inv, [Next]_vars PROVE [Abstract!Next]_grants
    OBVIOUS
  <2>1. ASSUME NEW t \in Threads, Retest(t) PROVE [Abstract!Next]_grants
    <3>1. id[t] \in Ids
      BY <2>1 DEF Retest, Inv, WaitersHaveIds
    <3> QED
      BY <2>1, <3>1, TakeIsAcquire DEF Retest, Wait, Abstract!Next
  <2>2. ASSUME NEW t \in Threads, NEW m \in MsgIds \cup {0}, Acquire(t, m)
        PROVE  [Abstract!Next]_grants
    <3> DEFINE i == IF m = 0 THEN NextEphemeral ELSE m
    <3>1. i \in Ids
      BY NextEphemeralType, IdsNotZero DEF Inv, TypeOK, Ids
    <3>2. Take(t, i) \/ Wait(t, i)
      BY <2>2 DEF Acquire
    <3> HIDE DEF i
    <3> QED
      BY <3>1, <3>2, TakeIsAcquire DEF Wait, Abstract!Next
  <2>3. ASSUME NEW i \in Ids, FreeLast(i) \/ FreeNested(i)
        PROVE  [Abstract!Next]_grants
    BY <2>3, FreeIsFree DEF Abstract!Next
  <2>4. CASE UNCHANGED vars
    BY <2>4 DEF vars
  <2> QED
    BY <2>1, <2>2, <2>3, <2>4, Steps
<1> QED
  BY Invariance, <1>1, <1>2, PTL DEF Spec, ImplementsReentrantLock, Abstract!Spec

-----------------------------------------------------------------------------
\* While the counter has not wrapped, each new ephemeral id is below all those
\* in use, and those in use are different.
Fresh ==
  /\ ephemeralId >= -1 - calls
  /\ \A t \in Threads : state[t] # "out" /\ id[t] \in Ephemerals
       => id[t] >= ephemeralId /\ grants[id[t]] = 0
  /\ \A t, u \in Threads :
       /\ state[t] # "out" /\ state[u] # "out"
       /\ id[t] \in Ephemerals /\ id[t] = id[u]
       => t = u
  /\ \A i \in Ephemerals : grants[i] <= 1 /\ (grants[i] > 0 => i >= ephemeralId)

LEMMA FreshInit == Init => Fresh
BY IdsNotZero DEF Init, Fresh

\* Without a wrap the next ephemeral id is below every one in use.
LEMMA NextIsBelow ==
  ASSUME Inv, Fresh, calls + 1 < IntSize
  PROVE  NextEphemeral = ephemeralId - 1
BY ConstantsAssumption DEF Inv, TypeOK, Fresh, NextEphemeral, Ephemerals

\* A call that tests with an identity nobody else has, or a positive one.
LEMMA TestKeepsFresh ==
  ASSUME Inv, Fresh, NEW t \in Threads, NEW i \in Ids, Take(t, i) \/ Wait(t, i),
         id' = [id EXCEPT ![t] = i],
         ephemeralId' \in Int, calls' \in Int, ephemeralId' >= -1 - calls',
         ephemeralId' <= ephemeralId,
         i \in Ephemerals =>
           /\ i >= ephemeralId'
           /\ grants[i] = 0
           /\ \A u \in Threads \ {t} : state[u] # "out" => id[u] # i
  PROVE  Fresh'
<1> USE ConstantsAssumption DEF Ephemerals, Inv, TypeOK
<1>1. \A u \in Threads \ {t} : state'[u] = state[u] /\ id'[u] = id[u]
  BY DEF Take, Wait
<1>2. id'[t] = i
  OBVIOUS
<1>3. \A j \in Ids : grants'[j] = grants[j] \/ (j = i /\ grants'[j] = grants[j] + 1 /\ state'[t] = "out")
  BY DEF Take, Wait
<1>4. \A j \in Ephemerals : grants'[j] <= 1 /\ (grants'[j] > 0 => j >= ephemeralId')
  BY <1>3, IdsNotZero DEF Fresh
<1>5. \A u \in Threads : state'[u] # "out" /\ id'[u] \in Ephemerals
        => id'[u] >= ephemeralId' /\ grants'[id'[u]] = 0
  <2> SUFFICES ASSUME NEW u \in Threads, state'[u] # "out", id'[u] \in Ephemerals
               PROVE  id'[u] >= ephemeralId' /\ grants'[id'[u]] = 0
    OBVIOUS
  <2>1. CASE u = t
    BY <1>2, <1>3, <2>1, IdsNotZero
  <2>2. CASE u # t
    <3>1. id[u] >= ephemeralId /\ grants[id[u]] = 0 /\ id[u] # i
      BY <1>1, <2>2 DEF Fresh
    <3> QED
      BY <1>1, <1>3, <2>2, <3>1, IdsNotZero
  <2> QED
    BY <2>1, <2>2
<1>6. \A u, v \in Threads : /\ state'[u] # "out" /\ state'[v] # "out"
                          /\ id'[u] \in Ephemerals /\ id'[u] = id'[v]
                          => u = v
  BY <1>1, <1>2 DEF Fresh
<1> QED
  BY <1>4, <1>5, <1>6 DEF Fresh

LEMMA FreshPreserved ==
  ASSUME Inv, Fresh, calls' < IntSize, [Next]_vars
  PROVE  Fresh'
<1> USE ConstantsAssumption
<1>1. ASSUME NEW t \in Threads, Retest(t) PROVE Fresh'
  <2>1. id[t] \in Ids /\ state[t] = "woken"
    BY <1>1 DEF Retest, Inv, WaitersHaveIds
  <2>2. id' = [id EXCEPT ![t] = id[t]] /\ ephemeralId' = ephemeralId /\ calls' = calls
    BY <1>1 DEF Retest, Inv, TypeOK
  <2>3. ephemeralId \in Int /\ calls \in Int /\ ephemeralId >= -1 - calls
    BY DEF Inv, TypeOK, Fresh, Ephemerals
  <2>4. id[t] \in Ephemerals =>
           /\ id[t] >= ephemeralId /\ grants[id[t]] = 0
           /\ \A u \in Threads \ {t} : state[u] # "out" => id[u] # id[t]
    BY <2>1 DEF Fresh
  <2>5. Take(t, id[t]) \/ Wait(t, id[t])
    BY <1>1 DEF Retest
  <2> DEFINE i == id[t]
  <2>6. /\ i \in Ids /\ (Take(t, i) \/ Wait(t, i)) /\ id' = [id EXCEPT ![t] = i]
        /\ (i \in Ephemerals =>
             /\ i >= ephemeralId' /\ grants[i] = 0
             /\ \A u \in Threads \ {t} : state[u] # "out" => id[u] # i)
    BY <2>1, <2>2, <2>4, <2>5
  <2>7. /\ ephemeralId' \in Int /\ calls' \in Int /\ ephemeralId' >= -1 - calls'
        /\ ephemeralId' <= ephemeralId
    BY <2>2, <2>3
  <2> HIDE DEF i
  <2> QED
    BY <2>6, <2>7, TestKeepsFresh
<1>2. ASSUME NEW t \in Threads, NEW m \in MsgIds \cup {0}, Acquire(t, m) PROVE Fresh'
  <2> DEFINE i == IF m = 0 THEN NextEphemeral ELSE m
  <2>1. id' = [id EXCEPT ![t] = i] /\ (Take(t, i) \/ Wait(t, i)) /\ calls' = calls + 1
        /\ ephemeralId' = IF m = 0 THEN NextEphemeral ELSE ephemeralId
    BY <1>2 DEF Acquire
  <2>2. NextEphemeral = ephemeralId - 1 /\ NextEphemeral \in Ephemerals
    BY <2>1, NextIsBelow, NextEphemeralType DEF Inv, TypeOK
  <2>3. ephemeralId \in Ephemerals /\ calls \in Nat /\ ephemeralId >= -1 - calls
    BY DEF Inv, TypeOK, Fresh
  <2>4. i \in Ids /\ ephemeralId' \in Int /\ calls' \in Int
        /\ ephemeralId' >= -1 - calls' /\ ephemeralId' <= ephemeralId
    BY <2>1, <2>2, <2>3 DEF Ids, Ephemerals
  <2>5. i \in Ephemerals =>
           /\ i >= ephemeralId'
           /\ grants[i] = 0
           /\ \A u \in Threads \ {t} : state[u] # "out" => id[u] # i
    <3> SUFFICES ASSUME i \in Ephemerals
                 PROVE  /\ i >= ephemeralId'
                        /\ grants[i] = 0
                        /\ \A u \in Threads \ {t} : state[u] # "out" => id[u] # i
      OBVIOUS
    <3>1. m = 0 /\ i = ephemeralId - 1 /\ ephemeralId' = i
      BY <2>1, <2>2 DEF Ephemerals
    <3>2. grants[i] = 0
      BY <2>3, <2>4, <3>1 DEF Fresh, Inv, TypeOK, Ephemerals
    <3>3. \A u \in Threads \ {t} : state[u] # "out" => id[u] # i
      BY <2>3, <3>1 DEF Fresh, Ephemerals
    <3> QED
      BY <3>1, <3>2, <3>3, <2>3 DEF Ephemerals
  <2> HIDE DEF i
  <2> QED
    BY <2>1, <2>4, <2>5, TestKeepsFresh
<1>3. ASSUME NEW i \in Ids, FreeLast(i) \/ FreeNested(i) PROVE Fresh'
  <2>1. grants[i] > 0 /\ grants' = [grants EXCEPT ![i] = @ - 1]
    BY <1>3 DEF FreeLast, FreeNested, Inv, TypeOK, CountIsTruth
  <2>2. \A j \in Ids : grants'[j] <= grants[j] /\ grants'[j] \in Nat
    BY <2>1 DEF Inv, TypeOK
  <2>3. /\ \A t \in Threads : state'[t] # "out" => state[t] # "out"
        /\ UNCHANGED <<id, ephemeralId, calls>>
    BY <1>3, PulseWakes DEF FreeLast, FreeNested, Inv
  <2>4. \A t \in Threads : id[t] \in Ephemerals => id[t] \in Ids
    BY IdsNotZero
  <2> QED
    BY <2>2, <2>3, <2>4, IdsNotZero DEF Fresh, Inv, TypeOK, Ephemerals
<1>4. CASE UNCHANGED vars
  BY <1>4 DEF vars, Fresh
<1> QED
  BY <1>1, <1>2, <1>3, <1>4, Steps

\* As long as fewer calls were made than there are negative ints, a caller
\* that passes 0 shares the semaphore with nobody (connect, Dispose, stopTLS).
THEOREM EphemeralIsExclusive == Spec => []EphemeralAlone
<1> DEFINE Unwrapped == calls < IntSize => Fresh
<1>1. Init => Unwrapped
  BY FreshInit
<1>2. Inv /\ Unwrapped /\ [Next]_vars => Unwrapped'
  <2> SUFFICES ASSUME Inv, Unwrapped, [Next]_vars, calls' < IntSize PROVE Fresh'
    OBVIOUS
  <2>1. calls' \in {calls, calls + 1}
    BY DEF Next, Acquire, Retest, FreeLast, FreeNested, vars
  <2>2. calls \in Nat /\ IntSize \in Nat
    BY ConstantsAssumption DEF Inv, TypeOK
  <2>3. Fresh
    BY <2>1, <2>2
  <2> QED
    BY <2>3, FreshPreserved
<1>3. Unwrapped => EphemeralAlone
  BY DEF Fresh, EphemeralAlone
<1> HIDE DEF Unwrapped
<1> QED
  BY Invariance, <1>1, <1>2, <1>3, PTL DEF Spec
=============================================================================
