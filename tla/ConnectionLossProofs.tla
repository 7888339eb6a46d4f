------------------------ MODULE ConnectionLossProofs ------------------------
(***************************************************************************)
(* However many requests and binds there are when a connection ends: who   *)
(* owns the write semaphore beyond the writing of a request is a bind that *)
(* is open, or that somebody is about to free, or that was read too early; *)
(* and whose request Dispose leaves without a word.                        *)
(***************************************************************************)
EXTENDS ConnectionLoss, SequenceTheorems, WellFoundedInduction, TLAPS

\* A set of natural numbers has a least element.
LEMMA LeastElement ==
  ASSUME NEW T \in SUBSET Nat, T # {}
  PROVE  Min(T) \in T /\ \A y \in T : Min(T) <= y
<1>1. PICK x \in T : \A y \in T : ~(<<y, x>> \in OpToRel(<, Nat))
  BY NatLessThanWellFounded, WFMin
<1>2. \A y \in T : ~(y < x)
  BY <1>1 DEF OpToRel
<1>3. \A y \in T : x <= y
  BY <1>2
<1> QED
  BY <1>3 DEF Min

\* RemoveFirst takes out one element, and no other one.
LEMMA RemoveFirstKeeps ==
  ASSUME NEW S, NEW s \in Seq(S), NEW e
  PROVE  /\ RemoveFirst(s, e) \in Seq(S)
         /\ ToSet(RemoveFirst(s, e)) \subseteq ToSet(s)
         /\ ToSet(s) \ {e} \subseteq ToSet(RemoveFirst(s, e))
<1>1. CASE \E i \in 1..Len(s) : s[i] = e
  <2> DEFINE I == {i \in 1..Len(s) : s[i] = e}
  <2>0. I \in SUBSET Nat /\ I # {}
    BY <1>1
  <2>1. Min(I) \in I
    BY <2>0, LeastElement
  <2>2. PICK n \in 1..Len(s) : s[n] = e /\ n = Min(I)
    BY <2>1
  <2>3. RemoveFirst(s, e) = SubSeq(s, 1, n - 1) \o SubSeq(s, n + 1, Len(s))
    BY <1>1, <2>2 DEF RemoveFirst, RemoveAt, SelectInSeq
  <2> HIDE DEF I
  <2> DEFINE a == SubSeq(s, 1, n - 1)
             b == SubSeq(s, n + 1, Len(s))
  <2>4. /\ a \in Seq(S) /\ Len(a) = n - 1 /\ \A i \in 1..(n - 1) : a[i] = s[i]
        /\ b \in Seq(S) /\ Len(b) = Len(s) - n /\ \A i \in 1..(Len(s) - n) : b[i] = s[n + i]
    OBVIOUS
  <2>5. /\ RemoveFirst(s, e) \in Seq(S)
        /\ Len(RemoveFirst(s, e)) = Len(s) - 1
        /\ \A i \in 1..(Len(s) - 1) :
             RemoveFirst(s, e)[i] = IF i < n THEN s[i] ELSE s[i + 1]
    <3> HIDE DEF a, b
    <3>1. RemoveFirst(s, e) = a \o b
      BY <2>3 DEF a, b
    <3>2. /\ a \o b \in Seq(S) /\ Len(a \o b) = Len(a) + Len(b)
          /\ \A i \in 1..(Len(a) + Len(b)) :
               (a \o b)[i] = IF i <= Len(a) THEN a[i] ELSE b[i - Len(a)]
      BY <2>4, ConcatProperties
    <3>3. ASSUME NEW i \in 1..(Len(s) - 1)
          PROVE  (a \o b)[i] = IF i < n THEN s[i] ELSE s[i + 1]
      <4>1. CASE i < n
        BY <2>4, <3>2, <4>1
      <4>2. CASE ~(i < n)
        <5>1. i - (n - 1) \in 1..(Len(s) - n) /\ n + (i - (n - 1)) = i + 1
          BY <4>2
        <5>2. (a \o b)[i] = b[i - (n - 1)]
          BY <2>4, <3>2, <4>2, SMTT(30)
        <5> QED
          BY <2>4, <4>2, <5>1, <5>2
      <4> QED
        BY <4>1, <4>2
    <3> QED
      BY <2>4, <3>1, <3>2, <3>3
  <2>6. ASSUME NEW x \in ToSet(RemoveFirst(s, e)) PROVE x \in ToSet(s)
    <3>1. PICK i \in 1..(Len(s) - 1) : x = RemoveFirst(s, e)[i]
      BY <2>5, <2>6 DEF ToSet
    <3>2. i \in 1..Len(s) /\ i + 1 \in 1..Len(s)
      OBVIOUS
    <3> QED
      BY <2>5, <3>1, <3>2, SMTT(30) DEF ToSet
  <2>7. ASSUME NEW x \in ToSet(s) \ {e} PROVE x \in ToSet(RemoveFirst(s, e))
    <3>1. PICK i \in 1..Len(s) : x = s[i]
      BY <2>7 DEF ToSet
    <3>2. CASE i < n
      BY <2>5, <3>1, <3>2 DEF ToSet
    <3>3. CASE i > n
      <4>1. i - 1 \in 1..(Len(s) - 1) /\ RemoveFirst(s, e)[i - 1] = s[i]
        BY <2>5, <3>3
      <4> QED
        BY <2>5, <3>1, <4>1 DEF ToSet
    <3> QED
      BY <2>2, <3>1, <3>2, <3>3
  <2> QED
    BY <2>5, <2>6, <2>7
<1>2. CASE ~\E i \in 1..Len(s) : s[i] = e
  BY <1>2 DEF RemoveFirst
<1> QED
  BY <1>1, <1>2

-----------------------------------------------------------------------------
\* What the places of the threads say about the requests.
Before == {"new", "add", "test", "stream", "acquire", "write"}
Unlisted(r) == at[r] \in {"new", "add"}

Stages ==
  /\ \A r \in Requests : at[r] = "new" => r \in Binds
  /\ \A r \in Requests : at[r] \in Before => ~complete[r] /\ ~released[r] /\ answered # r
  /\ \A r \in Requests : Unlisted(r) => waitForReply[r] /\ info # r /\ r \notin ToSet(messages)
  /\ \A r \in Requests : at[r] \in {"incomplete", "free"} => ~waitForReply[r]
  /\ \A r \in Requests : at[r] = "free" => r \in Binds
  /\ closer \in {"accept", "ignore"} /\ at[info] \in Before => waitForReply[info]
  /\ closer \in {"incomplete", "bindprops", "free"} => ~waitForReply[info]
  /\ closer \in {"bindprops", "free"} => info \in Binds
  /\ reader \in {"bindprops", "free"} => answered \in Binds /\ complete[answered]
  /\ closer = "idle" <=> ending = None

\* Dispose frees the semaphore of a bind that is still being sent only once, and
\* its own at the end.
Owning ==
  /\ closer \in {"incomplete", "bindprops", "free"} /\ info \in Binds /\ at[info] \in Before
       => Held(info) = 1
  /\ closer \in Closing => semaphore = [owner |-> Closer, count |-> 1]

AccountInv == TypeOK /\ Stages /\ SemaphoreAccounted /\ Owning

LEMMA Cases ==
  ASSUME [Next]_vars
  PROVE  \/ \E r \in Requests :
              \/ Begin(r) \/ Add(r) \/ Test(r) \/ Stream(r) \/ Acquire(r) \/ Write(r)
              \/ Enter(r) \/ Return(r) \/ Check(r) \/ GiveUp(r) \/ Ignore(r)
              \/ Incomplete(r) \/ Free(r) \/ Abandon(r) \/ Cleanup(r) \/ Receive(r)
         \/ AddReply \/ Stop \/ Complete \/ BindProps \/ FreeAnswered \/ ReadFails
         \/ Lose \/ Notice \/ Disconnect \/ Deactivate \/ Take \/ RemoveHead
         \/ AbandonTest \/ AbandonAccept \/ AbandonIgnore \/ AbandonIncomplete
         \/ AbandonBindProps \/ AbandonFree \/ WriteAbandon \/ Unlist \/ Tell
         \/ CloseAcquire \/ CanWrite \/ Unbind \/ StopReader \/ Join \/ Close
         \/ UNCHANGED vars
BY DEF Next, Send, GetResponse, GivesUp, PutReply, AbandonInfo, Closes, Dispose

LEMMA InitAccount == Init => AccountInv
<1> SUFFICES ASSUME Init PROVE AccountInv
  OBVIOUS
<1> USE LossAssumption DEF Init
<1>1. TypeOK
  BY DEF TypeOK, Places, CloserPlaces, Emptied, Closing
<1>2. Stages
  BY DEF Stages, Unlisted, Before, ToSet
<1>3. SemaphoreAccounted /\ Owning
  BY DEF SemaphoreAccounted, Owning, Held, Writing, Open, Closing
<1> QED
  BY <1>1, <1>2, <1>3 DEF AccountInv

\* What a step does to the list.
ListStep ==
  \/ \E r \in Requests :
       \/ Add(r)
       \/ /\ Return(r) \/ Cleanup(r) \/ (Unlist /\ info = r)
          /\ messages' = RemoveFirst(messages, r)
  \/ RemoveHead /\ messages # <<>> /\ messages' = Tail(messages)
  \/ UNCHANGED messages

LEMMA ListSteps ==
  ASSUME AccountInv, [Next]_vars
  PROVE  ListStep
<1> USE DEF AccountInv, TypeOK, ListStep
<1>1. ASSUME NEW r \in Requests, Begin(r) PROVE ListStep
  BY <1>1 DEF Begin
<1>2. ASSUME NEW r \in Requests, Add(r) PROVE ListStep
  BY <1>2 DEF Add
<1>3. ASSUME NEW r \in Requests, Test(r) PROVE ListStep
  BY <1>3 DEF Test
<1>4. ASSUME NEW r \in Requests, Stream(r) PROVE ListStep
  BY <1>4 DEF Stream
<1>5. ASSUME NEW r \in Requests, Acquire(r) PROVE ListStep
  BY <1>5 DEF Acquire
<1>6. ASSUME NEW r \in Requests, Write(r) PROVE ListStep
  BY <1>6 DEF Write, WriteEnds, Raised, Quiet, Written
<1>7. ASSUME NEW r \in Requests, Enter(r) PROVE ListStep
  BY <1>7 DEF Enter
<1>8. ASSUME NEW r \in Requests, Return(r) PROVE ListStep
  BY <1>8 DEF Return
<1>9. ASSUME NEW r \in Requests, Check(r) PROVE ListStep
  BY <1>9 DEF Check
<1>10. ASSUME NEW r \in Requests, GiveUp(r) PROVE ListStep
  BY <1>10 DEF GiveUp
<1>11. ASSUME NEW r \in Requests, Ignore(r) PROVE ListStep
  BY <1>11 DEF Ignore
<1>12. ASSUME NEW r \in Requests, Incomplete(r) PROVE ListStep
  BY <1>12 DEF Incomplete
<1>13. ASSUME NEW r \in Requests, Free(r) PROVE ListStep
  BY <1>13 DEF Free
<1>14. ASSUME NEW r \in Requests, Abandon(r) PROVE ListStep
  BY <1>14 DEF Abandon
<1>15. ASSUME NEW r \in Requests, Cleanup(r) PROVE ListStep
  BY <1>15 DEF Cleanup
<1>16. ASSUME NEW r \in Requests, Receive(r) PROVE ListStep
  BY <1>16 DEF Receive
<1>17. CASE AddReply
  BY <1>17 DEF AddReply
<1>18. CASE Stop
  BY <1>18 DEF Stop
<1>19. CASE Complete
  BY <1>19 DEF Complete, Listen
<1>20. CASE BindProps
  BY <1>20 DEF BindProps, Listen
<1>21. CASE FreeAnswered
  BY <1>21 DEF FreeAnswered, Listen, Fails
<1>22. CASE ReadFails
  BY <1>22 DEF ReadFails, Fails
<1>23. CASE Lose
  BY <1>23 DEF Lose
<1>24. CASE Notice
  BY <1>24 DEF Notice, Ends
<1>25. CASE Disconnect
  BY <1>25 DEF Disconnect, Ends
<1>26. CASE Deactivate
  BY <1>26 DEF Deactivate, CloserGoes
<1>27. CASE Take
  BY <1>27 DEF Take
<1>28. CASE RemoveHead
  BY <1>28 DEF RemoveHead
<1>29. CASE AbandonTest
  BY <1>29 DEF AbandonTest, CloserGoes
<1>30. CASE AbandonAccept
  BY <1>30 DEF AbandonAccept, CloserGoes
<1>31. CASE AbandonIgnore
  BY <1>31 DEF AbandonIgnore, CloserGoes
<1>32. CASE AbandonIncomplete
  BY <1>32 DEF AbandonIncomplete, CloserGoes
<1>33. CASE AbandonBindProps
  BY <1>33 DEF AbandonBindProps, CloserGoes
<1>34. CASE AbandonFree
  BY <1>34 DEF AbandonFree
<1>35. CASE WriteAbandon
  BY <1>35 DEF WriteAbandon
<1>36. CASE Unlist
  BY <1>36 DEF Unlist, CloserGoes, Emptied, Closing
<1>37. CASE Tell
  BY <1>37 DEF Tell, CloserGoes
<1>38. CASE CloseAcquire
  BY <1>38 DEF CloseAcquire
<1>39. CASE CanWrite
  BY <1>39 DEF CanWrite, CloserGoes
<1>40. CASE Unbind
  BY <1>40 DEF Unbind, CloserGoes
<1>41. CASE StopReader
  BY <1>41 DEF StopReader
<1>42. CASE Join
  BY <1>42 DEF Join, CloserGoes
<1>43. CASE Close
  BY <1>43 DEF Close, CloserGoes
<1>44. CASE UNCHANGED vars
  BY <1>44 DEF vars
<1> QED
  BY <1>1, <1>2, <1>3, <1>4, <1>5, <1>6, <1>7, <1>8, <1>9, <1>10, <1>11, <1>12, <1>13,
     <1>14, <1>15, <1>16, <1>17, <1>18, <1>19, <1>20, <1>21, <1>22, <1>23, <1>24, <1>25,
     <1>26, <1>27, <1>28, <1>29, <1>30, <1>31, <1>32, <1>33, <1>34, <1>35, <1>36, <1>37,
     <1>38, <1>39, <1>40, <1>41, <1>42, <1>43, <1>44, Cases

\* A request joins the list of those that wait by Add; it leaves the list when its
\* thread has read the answer or given it up, and when Dispose removes it.
LEMMA ListKept ==
  ASSUME AccountInv, [Next]_vars
  PROVE  /\ messages' \in Seq(Requests)
         /\ \A x \in ToSet(messages') : x \in Requests /\ (x \in ToSet(messages) \/ Add(x))
         /\ \A x \in ToSet(messages) :
              \/ x \in ToSet(messages') \/ Return(x) \/ Cleanup(x)
              \/ Unlist /\ info = x
              \/ RemoveHead /\ messages # <<>> /\ Head(messages) = x
         /\ \A r \in Requests : Add(r) => ToSet(messages') = ToSet(messages) \cup {r}
         /\ messages # <<>> => Head(messages) \in ToSet(messages)
         /\ messages = <<>> => ToSet(messages) = {}
<1>0. /\ messages \in Seq(Requests)
      /\ \A x \in ToSet(messages) : x \in Requests
      /\ messages # <<>> => Head(messages) \in ToSet(messages)
      /\ messages = <<>> => ToSet(messages) = {}
  <2>1. messages \in Seq(Requests)
    BY DEF AccountInv, TypeOK
  <2>2. messages # <<>> =>
          Head(messages) = messages[1] /\ Len(messages) \in Nat \ {0}
          /\ DOMAIN messages = 1..Len(messages)
    BY <2>1, HeadTailProperties, LenProperties
  <2> QED
    BY <2>1, <2>2 DEF ToSet
<1>1. ASSUME NEW r \in Requests, Add(r)
      PROVE  messages' \in Seq(Requests) /\ ToSet(messages') = ToSet(messages) \cup {r}
  <2>1. messages' = Append(messages, r)
    BY <1>1 DEF Add
  <2> QED
    BY <1>0, <2>1, AppendProperties DEF ToSet
<1>2. ASSUME NEW r \in Requests, messages' = RemoveFirst(messages, r)
      PROVE  /\ messages' \in Seq(Requests) /\ ToSet(messages') \subseteq ToSet(messages)
             /\ ToSet(messages) \ {r} \subseteq ToSet(messages')
  BY <1>0, <1>2, RemoveFirstKeeps
<1>3. ASSUME messages # <<>>, messages' = Tail(messages)
      PROVE  /\ messages' \in Seq(Requests) /\ ToSet(messages') \subseteq ToSet(messages)
             /\ ToSet(messages) \ {Head(messages)} \subseteq ToSet(messages')
  <2>1. /\ Head(messages) = messages[1]
        /\ messages' \in Seq(Requests) /\ Len(messages') = Len(messages) - 1
        /\ \A i \in 1..Len(messages') : messages'[i] = messages[i + 1]
        /\ Len(messages) \in Nat \ {0}
        /\ DOMAIN messages = 1..Len(messages) /\ DOMAIN messages' = 1..Len(messages')
    BY <1>0, <1>3, HeadTailProperties, LenProperties
  <2>2. ASSUME NEW x \in ToSet(messages') PROVE x \in ToSet(messages)
    BY <1>0, <2>1, <2>2 DEF ToSet
  <2>3. ASSUME NEW x \in ToSet(messages), x # Head(messages) PROVE x \in ToSet(messages')
    <3>1. PICK i \in 1..Len(messages) : x = messages[i]
      BY <1>0, <2>3 DEF ToSet
    <3>2. i - 1 \in 1..Len(messages') /\ messages'[i - 1] = x
      BY <2>1, <2>3, <3>1
    <3> QED
      BY <2>1, <3>2 DEF ToSet
  <2> QED
    BY <2>1, <2>2, <2>3
<1>4. ListStep
  BY ListSteps
<1>5. ASSUME NEW r \in Requests, Add(r) PROVE ToSet(messages') = ToSet(messages) \cup {r}
  BY <1>1, <1>5
<1> QED
  BY <1>0, <1>1, <1>2, <1>3, <1>4, <1>5 DEF ListStep

\* What a step does to the semaphore.
SemaphoreStep ==
  \/ UNCHANGED semaphore
  \/ semaphore.owner # None /\ semaphore' = Freed
  \/ \E r \in Requests : semaphore' = Taken(r)
  \/ semaphore' = [owner |-> Closer, count |-> 1]

LEMMA SemaphoreSteps ==
  ASSUME AccountInv, [Next]_vars
  PROVE  SemaphoreStep
<1> USE LossAssumption DEF AccountInv, TypeOK, SemaphoreAccounted, Owning, Closing,
   SemaphoreStep, wires, flags, reading, disposing
<1>1. ASSUME NEW r \in Requests, Begin(r) PROVE SemaphoreStep
  BY <1>1 DEF Begin
<1>2. ASSUME NEW r \in Requests, Add(r) PROVE SemaphoreStep
  BY <1>2 DEF Add
<1>3. ASSUME NEW r \in Requests, Test(r) PROVE SemaphoreStep
  BY <1>3 DEF Test
<1>4. ASSUME NEW r \in Requests, Stream(r) PROVE SemaphoreStep
  BY <1>4 DEF Stream
<1>5. ASSUME NEW r \in Requests, Acquire(r) PROVE SemaphoreStep
  BY <1>5 DEF Acquire
<1>6. ASSUME NEW r \in Requests, Write(r) PROVE SemaphoreStep
  BY <1>6 DEF Write, WriteEnds, Raised, Quiet, Written
<1>7. ASSUME NEW r \in Requests, Enter(r) PROVE SemaphoreStep
  BY <1>7 DEF Enter
<1>8. ASSUME NEW r \in Requests, Return(r) PROVE SemaphoreStep
  BY <1>8 DEF Return
<1>9. ASSUME NEW r \in Requests, Check(r) PROVE SemaphoreStep
  BY <1>9 DEF Check
<1>10. ASSUME NEW r \in Requests, GiveUp(r) PROVE SemaphoreStep
  BY <1>10 DEF GiveUp
<1>11. ASSUME NEW r \in Requests, Ignore(r) PROVE SemaphoreStep
  BY <1>11 DEF Ignore
<1>12. ASSUME NEW r \in Requests, Incomplete(r) PROVE SemaphoreStep
  BY <1>12 DEF Incomplete
<1>13. ASSUME NEW r \in Requests, Free(r) PROVE SemaphoreStep
  BY <1>13 DEF Free
<1>14. ASSUME NEW r \in Requests, Abandon(r) PROVE SemaphoreStep
  BY <1>14 DEF Abandon
<1>15. ASSUME NEW r \in Requests, Cleanup(r) PROVE SemaphoreStep
  BY <1>15 DEF Cleanup
<1>16. ASSUME NEW r \in Requests, Receive(r) PROVE SemaphoreStep
  BY <1>16 DEF Receive
<1>17. CASE AddReply
  BY <1>17 DEF AddReply
<1>18. CASE Stop
  BY <1>18 DEF Stop
<1>19. CASE Complete
  BY <1>19 DEF Complete, Listen
<1>20. CASE BindProps
  BY <1>20 DEF BindProps, Listen
<1>21. CASE FreeAnswered
  BY <1>21 DEF FreeAnswered, Listen, Fails
<1>22. CASE ReadFails
  BY <1>22 DEF ReadFails, Fails
<1>23. CASE Lose
  BY <1>23 DEF Lose
<1>24. CASE Notice
  BY <1>24 DEF Notice, Ends
<1>25. CASE Disconnect
  BY <1>25 DEF Disconnect, Ends
<1>26. CASE Deactivate
  BY <1>26 DEF Deactivate, CloserGoes
<1>27. CASE Take
  BY <1>27 DEF Take
<1>28. CASE RemoveHead
  BY <1>28 DEF RemoveHead
<1>29. CASE AbandonTest
  BY <1>29 DEF AbandonTest, CloserGoes
<1>30. CASE AbandonAccept
  BY <1>30 DEF AbandonAccept, CloserGoes
<1>31. CASE AbandonIgnore
  BY <1>31 DEF AbandonIgnore, CloserGoes
<1>32. CASE AbandonIncomplete
  BY <1>32 DEF AbandonIncomplete, CloserGoes
<1>33. CASE AbandonBindProps
  BY <1>33 DEF AbandonBindProps, CloserGoes
<1>34. CASE AbandonFree
  BY <1>34 DEF AbandonFree, Emptied
<1>35. CASE WriteAbandon
  BY <1>35 DEF WriteAbandon
<1>36. CASE Unlist
  BY <1>36 DEF Unlist, CloserGoes
<1>37. CASE Tell
  BY <1>37 DEF Tell, CloserGoes
<1>38. CASE CloseAcquire
  BY <1>38 DEF CloseAcquire
<1>39. CASE CanWrite
  BY <1>39 DEF CanWrite, CloserGoes
<1>40. CASE Unbind
  BY <1>40 DEF Unbind, CloserGoes
<1>41. CASE StopReader
  BY <1>41 DEF StopReader
<1>42. CASE Join
  BY <1>42 DEF Join, CloserGoes
<1>43. CASE Close
  BY <1>43 DEF Close, CloserGoes
<1>44. CASE UNCHANGED vars
  BY <1>44 DEF vars
<1> QED
  BY <1>1, <1>2, <1>3, <1>4, <1>5, <1>6, <1>7, <1>8, <1>9, <1>10, <1>11, <1>12, <1>13,
     <1>14, <1>15, <1>16, <1>17, <1>18, <1>19, <1>20, <1>21, <1>22, <1>23, <1>24, <1>25,
     <1>26, <1>27, <1>28, <1>29, <1>30, <1>31, <1>32, <1>33, <1>34, <1>35, <1>36, <1>37,
     <1>38, <1>39, <1>40, <1>41, <1>42, <1>43, <1>44, Cases

\* The semaphore after each step.
LEMMA SemaphoreTyped ==
  ASSUME AccountInv, [Next]_vars
  PROVE  semaphore' \in [owner : Requests \cup {None, Closer}, count : Nat]
<1> USE LossAssumption DEF AccountInv, TypeOK
<1>1. ASSUME semaphore.owner # None PROVE Freed \in [owner : Requests \cup {None, Closer}, count : Nat]
  <2>1. PICK o \in Requests \cup {None, Closer}, n \in Nat : semaphore = [owner |-> o, count |-> n]
    OBVIOUS
  <2>2. n # 0
    BY <1>1, <2>1 DEF SemaphoreAccounted
  <2>3. Freed = IF n = 1 THEN [owner |-> None, count |-> 0] ELSE [owner |-> o, count |-> n - 1]
    BY <2>1 DEF Freed
  <2> QED
    BY <2>2, <2>3
<1>2. \A r \in Requests : Taken(r) \in [owner : Requests \cup {None, Closer}, count : Nat]
  BY DEF Taken
<1>3. SemaphoreStep
  BY SemaphoreSteps
<1> QED
  BY <1>1, <1>2, <1>3 DEF SemaphoreStep

LEMMA TypesPreserved ==
  ASSUME AccountInv, [Next]_vars
  PROVE  TypeOK'
<1> USE LossAssumption DEF AccountInv, TypeOK, Goto, wires, flags, reading, disposing,
   Places, CloserPlaces, Emptied, Closing
<1>0. messages' \in Seq(Requests) /\ semaphore' \in [owner : Requests \cup {None, Closer}, count : Nat]
  BY ListKept, SemaphoreTyped
<1>1. ASSUME NEW r \in Requests, Begin(r) PROVE TypeOK'
  BY <1>0, <1>1 DEF Begin
<1>2. ASSUME NEW r \in Requests, Add(r) PROVE TypeOK'
  BY <1>0, <1>2 DEF Add
<1>3. ASSUME NEW r \in Requests, Test(r) PROVE TypeOK'
  BY <1>0, <1>3 DEF Test
<1>4. ASSUME NEW r \in Requests, Stream(r) PROVE TypeOK'
  BY <1>0, <1>4 DEF Stream
<1>5. ASSUME NEW r \in Requests, Acquire(r) PROVE TypeOK'
  BY <1>0, <1>5 DEF Acquire
<1>6. ASSUME NEW r \in Requests, Write(r) PROVE TypeOK'
  BY <1>0, <1>6 DEF Write, WriteEnds, Raised, Quiet, Written
<1>7. ASSUME NEW r \in Requests, Enter(r) PROVE TypeOK'
  BY <1>0, <1>7 DEF Enter
<1>8. ASSUME NEW r \in Requests, Return(r) PROVE TypeOK'
  BY <1>0, <1>8 DEF Return
<1>9. ASSUME NEW r \in Requests, Check(r) PROVE TypeOK'
  BY <1>0, <1>9 DEF Check
<1>10. ASSUME NEW r \in Requests, GiveUp(r) PROVE TypeOK'
  BY <1>0, <1>10 DEF GiveUp
<1>11. ASSUME NEW r \in Requests, Ignore(r) PROVE TypeOK'
  BY <1>0, <1>11 DEF Ignore
<1>12. ASSUME NEW r \in Requests, Incomplete(r) PROVE TypeOK'
  BY <1>0, <1>12 DEF Incomplete
<1>13. ASSUME NEW r \in Requests, Free(r) PROVE TypeOK'
  BY <1>0, <1>13 DEF Free
<1>14. ASSUME NEW r \in Requests, Abandon(r) PROVE TypeOK'
  BY <1>0, <1>14 DEF Abandon
<1>15. ASSUME NEW r \in Requests, Cleanup(r) PROVE TypeOK'
  BY <1>0, <1>15 DEF Cleanup
<1>16. ASSUME NEW r \in Requests, Receive(r) PROVE TypeOK'
  BY <1>0, <1>16 DEF Receive
<1>17. CASE AddReply
  BY <1>0, <1>17 DEF AddReply
<1>18. CASE Stop
  BY <1>0, <1>18 DEF Stop
<1>19. CASE Complete
  BY <1>0, <1>19 DEF Complete, Listen
<1>20. CASE BindProps
  BY <1>0, <1>20 DEF BindProps, Listen
<1>21. CASE FreeAnswered
  BY <1>0, <1>21 DEF FreeAnswered, Listen, Fails
<1>22. CASE ReadFails
  BY <1>0, <1>22 DEF ReadFails, Fails
<1>23. CASE Lose
  <2>1. /\ peerUp' = FALSE
        /\ UNCHANGED <<messages, streams, socketOpen, clientActive, bound, semaphore, at, myOut>>
        /\ UNCHANGED <<acceptReplies, waitForReply, complete, released, replies, reader, answered>>
        /\ UNCHANGED <<ending, closer, info, late, dropped>>
    BY <1>23 DEF Lose
  <2> QED
    BY <1>0, <2>1, ZenonT(60)
<1>24. CASE Notice
  BY <1>0, <1>24 DEF Notice, Ends
<1>25. CASE Disconnect
  BY <1>0, <1>25 DEF Disconnect, Ends
<1>26. CASE Deactivate
  BY <1>0, <1>26 DEF Deactivate, CloserGoes
<1>27. CASE Take
  BY <1>0, <1>27 DEF Take
<1>28. CASE RemoveHead
  <2>1. /\ UNCHANGED <<streams, socketOpen, peerUp, clientActive, bound, at, myOut>>
        /\ UNCHANGED <<acceptReplies, waitForReply, complete, released, replies>>
        /\ UNCHANGED <<reader, answered, ending, late>>
        /\ \/ closer' = "close" /\ info' = None
           \/ closer' = "abandon" /\ info' = info /\ closer = "remove"
    BY <1>28 DEF RemoveHead
  <2>2. dropped' \in SUBSET Requests
    <3>1. CASE messages = <<>>
      BY <1>28, <3>1 DEF RemoveHead
    <3>2. CASE messages # <<>>
      <4>1. Head(messages) \in Requests
        BY <3>2
      <4> QED
        BY <1>28, <3>2, <4>1 DEF RemoveHead
    <3> QED
      BY <3>1, <3>2
  <2> QED
    BY <1>0, <2>1, <2>2
<1>29. CASE AbandonTest
  BY <1>0, <1>29 DEF AbandonTest, CloserGoes
<1>30. CASE AbandonAccept
  BY <1>0, <1>30 DEF AbandonAccept, CloserGoes
<1>31. CASE AbandonIgnore
  BY <1>0, <1>31 DEF AbandonIgnore, CloserGoes
<1>32. CASE AbandonIncomplete
  BY <1>0, <1>32 DEF AbandonIncomplete, CloserGoes
<1>33. CASE AbandonBindProps
  BY <1>0, <1>33 DEF AbandonBindProps, CloserGoes
<1>34. CASE AbandonFree
  BY <1>0, <1>34 DEF AbandonFree
<1>35. CASE WriteAbandon
  BY <1>0, <1>35 DEF WriteAbandon
<1>36. CASE Unlist
  BY <1>0, <1>36 DEF Unlist, CloserGoes
<1>37. CASE Tell
  BY <1>0, <1>37 DEF Tell, CloserGoes
<1>38. CASE CloseAcquire
  BY <1>0, <1>38 DEF CloseAcquire
<1>39. CASE CanWrite
  BY <1>0, <1>39 DEF CanWrite, CloserGoes
<1>40. CASE Unbind
  BY <1>0, <1>40 DEF Unbind, CloserGoes
<1>41. CASE StopReader
  BY <1>0, <1>41 DEF StopReader
<1>42. CASE Join
  BY <1>0, <1>42 DEF Join, CloserGoes
<1>43. CASE Close
  BY <1>0, <1>43 DEF Close, CloserGoes
<1>44. CASE UNCHANGED vars
  BY <1>0, <1>44 DEF vars
<1> QED
  BY <1>1, <1>2, <1>3, <1>4, <1>5, <1>6, <1>7, <1>8, <1>9, <1>10, <1>11, <1>12, <1>13,
     <1>14, <1>15, <1>16, <1>17, <1>18, <1>19, <1>20, <1>21, <1>22, <1>23, <1>24, <1>25,
     <1>26, <1>27, <1>28, <1>29, <1>30, <1>31, <1>32, <1>33, <1>34, <1>35, <1>36, <1>37,
     <1>38, <1>39, <1>40, <1>41, <1>42, <1>43, <1>44, Cases

\* Who is in the list, or in the hands of the thread in Dispose, has joined the list.
LEMMA StagesPreserved ==
  ASSUME AccountInv, [Next]_vars
  PROVE  Stages'
<1> USE LossAssumption DEF AccountInv, TypeOK, Stages, Unlisted, Before, Goto, Emptied,
   Closing, wires, flags, reading, disposing
<1>0. \A x \in ToSet(messages') : x \in Requests /\ (x \in ToSet(messages) \/ at'[x] = "test")
  <2>1. \A x \in Requests : Add(x) => at'[x] = "test"
    BY DEF Add
  <2> QED
    BY <2>1, ListKept
<1>1. ASSUME NEW r \in Requests, Begin(r) PROVE Stages'
  BY <1>0, <1>1 DEF Begin
<1>2. ASSUME NEW r \in Requests, Add(r) PROVE Stages'
  BY <1>0, <1>2 DEF Add
<1>3. ASSUME NEW r \in Requests, Test(r) PROVE Stages'
  BY <1>0, <1>3 DEF Test
<1>4. ASSUME NEW r \in Requests, Stream(r) PROVE Stages'
  BY <1>0, <1>4 DEF Stream
<1>5. ASSUME NEW r \in Requests, Acquire(r) PROVE Stages'
  BY <1>0, <1>5 DEF Acquire
<1>6. ASSUME NEW r \in Requests, Write(r) PROVE Stages'
  BY <1>0, <1>6 DEF Write, WriteEnds, Raised, Quiet, Written
<1>7. ASSUME NEW r \in Requests, Enter(r) PROVE Stages'
  BY <1>0, <1>7 DEF Enter
<1>8. ASSUME NEW r \in Requests, Return(r) PROVE Stages'
  BY <1>0, <1>8 DEF Return
<1>9. ASSUME NEW r \in Requests, Check(r) PROVE Stages'
  BY <1>0, <1>9 DEF Check
<1>10. ASSUME NEW r \in Requests, GiveUp(r) PROVE Stages'
  BY <1>0, <1>10 DEF GiveUp
<1>11. ASSUME NEW r \in Requests, Ignore(r) PROVE Stages'
  BY <1>0, <1>11 DEF Ignore
<1>12. ASSUME NEW r \in Requests, Incomplete(r) PROVE Stages'
  BY <1>0, <1>12 DEF Incomplete
<1>13. ASSUME NEW r \in Requests, Free(r) PROVE Stages'
  BY <1>0, <1>13 DEF Free
<1>14. ASSUME NEW r \in Requests, Abandon(r) PROVE Stages'
  BY <1>0, <1>14 DEF Abandon
<1>15. ASSUME NEW r \in Requests, Cleanup(r) PROVE Stages'
  BY <1>0, <1>15 DEF Cleanup
<1>16. ASSUME NEW r \in Requests, Receive(r) PROVE Stages'
  BY <1>0, <1>16 DEF Receive
<1>17. CASE AddReply
  BY <1>0, <1>17 DEF AddReply
<1>18. CASE Stop
  BY <1>0, <1>18 DEF Stop
<1>19. CASE Complete
  BY <1>0, <1>19 DEF Complete, Listen
<1>20. CASE BindProps
  BY <1>0, <1>20 DEF BindProps, Listen
<1>21. CASE FreeAnswered
  BY <1>0, <1>21 DEF FreeAnswered, Listen, Fails
<1>22. CASE ReadFails
  BY <1>0, <1>22 DEF ReadFails, Fails
<1>23. CASE Lose
  BY <1>0, <1>23 DEF Lose
<1>24. CASE Notice
  BY <1>0, <1>24 DEF Notice, Ends
<1>25. CASE Disconnect
  BY <1>0, <1>25 DEF Disconnect, Ends
<1>26. CASE Deactivate
  BY <1>0, <1>26 DEF Deactivate, CloserGoes
<1>27. CASE Take
  <2>1. messages # <<>> => Head(messages) \in ToSet(messages) /\ Head(messages) \in Requests
    BY ListKept DEF ToSet
  <2>2. /\ UNCHANGED <<messages, at, waitForReply, complete, released, answered, reader, ending>>
        /\ closer = "take" /\ closer' \in {"close", "remove"}
        /\ info' = IF messages = <<>> THEN None ELSE Head(messages)
    BY <1>27 DEF Take
  <2> QED
    BY <2>1, <2>2
<1>28. CASE RemoveHead
  BY <1>0, <1>28 DEF RemoveHead
<1>29. CASE AbandonTest
  BY <1>0, <1>29 DEF AbandonTest, CloserGoes
<1>30. CASE AbandonAccept
  BY <1>0, <1>30 DEF AbandonAccept, CloserGoes
<1>31. CASE AbandonIgnore
  BY <1>0, <1>31 DEF AbandonIgnore, CloserGoes
<1>32. CASE AbandonIncomplete
  BY <1>0, <1>32 DEF AbandonIncomplete, CloserGoes
<1>33. CASE AbandonBindProps
  BY <1>0, <1>33 DEF AbandonBindProps, CloserGoes
<1>34. CASE AbandonFree
  BY <1>0, <1>34 DEF AbandonFree
<1>35. CASE WriteAbandon
  BY <1>0, <1>35 DEF WriteAbandon
<1>36. CASE Unlist
  BY <1>0, <1>36 DEF Unlist, CloserGoes
<1>37. CASE Tell
  BY <1>0, <1>37 DEF Tell, CloserGoes
<1>38. CASE CloseAcquire
  BY <1>0, <1>38 DEF CloseAcquire
<1>39. CASE CanWrite
  BY <1>0, <1>39 DEF CanWrite, CloserGoes
<1>40. CASE Unbind
  BY <1>0, <1>40 DEF Unbind, CloserGoes
<1>41. CASE StopReader
  BY <1>0, <1>41 DEF StopReader
<1>42. CASE Join
  BY <1>0, <1>42 DEF Join, CloserGoes
<1>43. CASE Close
  BY <1>0, <1>43 DEF Close, CloserGoes
<1>44. CASE UNCHANGED vars
  BY <1>0, <1>44 DEF vars
<1> QED
  BY <1>1, <1>2, <1>3, <1>4, <1>5, <1>6, <1>7, <1>8, <1>9, <1>10, <1>11, <1>12, <1>13,
     <1>14, <1>15, <1>16, <1>17, <1>18, <1>19, <1>20, <1>21, <1>22, <1>23, <1>24, <1>25,
     <1>26, <1>27, <1>28, <1>29, <1>30, <1>31, <1>32, <1>33, <1>34, <1>35, <1>36, <1>37,
     <1>38, <1>39, <1>40, <1>41, <1>42, <1>43, <1>44, Cases

\* A step that leaves the semaphore alone, takes it or frees it changes what the
\* requests hold accordingly.
LEMMA KeptIsHeld ==
  ASSUME UNCHANGED semaphore, UNCHANGED at
  PROVE  \A q \in Requests : Held(q)' = Held(q)
BY DEF Held, Writing

\* Who owns the semaphore while it writes nothing holds it once.
LEMMA OwnerHolds ==
  ASSUME AccountInv, NEW r \in Requests, at[r] # "write"
  PROVE  /\ semaphore.owner = r => semaphore.count = 1 /\ \A q \in Requests : at[q] # "write"
         /\ semaphore.owner # r => Held(r) = 0
<1>1. Writing(r) = 0 /\ semaphore.count \in Nat
  BY DEF Writing, AccountInv, TypeOK
<1>2. semaphore.owner = r => Held(r) = semaphore.count /\ semaphore.count # 0
  BY <1>1, LossAssumption DEF Held, AccountInv, SemaphoreAccounted
<1>3. semaphore.owner = r => semaphore.count = 1
  BY <1>2 DEF AccountInv, SemaphoreAccounted
<1> QED
  BY <1>1, <1>3 DEF Held, AccountInv, SemaphoreAccounted

\* Who ends a bind frees the semaphore, or goes on the way to.
LEMMA AccountPreserved ==
  ASSUME AccountInv, [Next]_vars
  PROVE  SemaphoreAccounted'
<1> USE LossAssumption DEF AccountInv, TypeOK, Stages, Before, SemaphoreAccounted, Owning,
   Held, Writing, Open, OnTheWay, Freed, Taken, Available, Goto, Emptied, Closing, wires,
   flags, reading, disposing
<1>1. ASSUME NEW r \in Requests, Begin(r) PROVE SemaphoreAccounted'
  <2>1. semaphore.owner = None /\ semaphore.count = 0
    BY <1>1 DEF Begin, Unlisted
  <2>2. semaphore' = [owner |-> r, count |-> 1] /\ at' = [at EXCEPT ![r] = "add"]
    BY <1>1, <2>1 DEF Begin
  <2> QED
    BY <1>1, <2>1, <2>2 DEF Begin
<1>2. ASSUME NEW r \in Requests, Add(r) PROVE SemaphoreAccounted'
  BY <1>2 DEF Add
<1>3. ASSUME NEW r \in Requests, Test(r) PROVE SemaphoreAccounted'
  BY <1>3 DEF Test
<1>4. ASSUME NEW r \in Requests, Stream(r) PROVE SemaphoreAccounted'
  <2>1. /\ at[r] = "stream" /\ at' = [at EXCEPT ![r] = "acquire"]
        /\ UNCHANGED <<semaphore, waitForReply, complete, released, reader, answered>>
        /\ UNCHANGED <<closer, info>>
    BY <1>4 DEF Stream
  <2>2. \A q \in Requests : Held(q)' = Held(q)
    BY <2>1
  <2> QED
    BY <2>1, <2>2
<1>5. ASSUME NEW r \in Requests, Acquire(r) PROVE SemaphoreAccounted'
  <2>1. semaphore.owner = None \/ (semaphore.owner = r /\ semaphore.count = 1)
    BY <1>5 DEF Acquire
  <2>2. /\ semaphore' = [owner |-> r, count |-> semaphore.count + 1]
        /\ at' = [at EXCEPT ![r] = "write"]
    BY <1>5 DEF Acquire
  <2>3. \A q \in Requests : Held(q)' = Held(q)
    BY <1>5, <2>1, <2>2 DEF Acquire
  <2> QED
    BY <1>5, <2>1, <2>2, <2>3 DEF Acquire
<1>6. ASSUME NEW r \in Requests, Write(r) PROVE SemaphoreAccounted'
  BY <1>6 DEF Write, WriteEnds, Raised, Quiet, Written
<1>7. ASSUME NEW r \in Requests, Enter(r) PROVE SemaphoreAccounted'
  <2>1. PICK s \in {"asleep", "giveUp"} : at' = [at EXCEPT ![r] = s]
    BY <1>7 DEF Enter
  <2>2. \A q \in Requests : Held(q)' = Held(q)
    BY <1>7, <2>1 DEF Enter
  <2> QED
    BY <1>7, <2>1, <2>2 DEF Enter
<1>8. ASSUME NEW r \in Requests, Return(r) PROVE SemaphoreAccounted'
  BY <1>8 DEF Return
<1>9. ASSUME NEW r \in Requests, Check(r) PROVE SemaphoreAccounted'
  BY <1>9 DEF Check
<1>10. ASSUME NEW r \in Requests, GiveUp(r) PROVE SemaphoreAccounted'
  BY <1>10 DEF GiveUp
<1>11. ASSUME NEW r \in Requests, Ignore(r) PROVE SemaphoreAccounted'
  BY <1>11 DEF Ignore
<1>12. ASSUME NEW r \in Requests, Incomplete(r) PROVE SemaphoreAccounted'
  BY <1>12 DEF Incomplete
<1>13. ASSUME NEW r \in Requests, Free(r) PROVE SemaphoreAccounted'
  <2>1. CASE semaphore.owner = r
    <3>1. semaphore.count = 1 /\ \A q \in Requests : at[q] # "write"
      BY <1>13, <2>1, OwnerHolds DEF Free
    <3>2. semaphore' = [owner |-> None, count |-> 0] /\ at' = [at EXCEPT ![r] = "abandon"]
      BY <1>13, <2>1, <3>1 DEF Free
    <3> QED
      BY <1>13, <3>1, <3>2 DEF Free
  <2>2. CASE semaphore.owner # r
    <3>1. /\ UNCHANGED <<semaphore, waitForReply, complete, released, reader, answered>>
          /\ UNCHANGED <<closer, info>>
          /\ at' = [at EXCEPT ![r] = "threw"] /\ at[r] = "free"
      BY <1>13, <2>2 DEF Free
    <3>2. Held(r) = 0
      BY <1>13, <2>2, OwnerHolds DEF Free
    <3> QED
      BY <3>1, <3>2
  <2> QED
    BY <2>1, <2>2
<1>14. ASSUME NEW r \in Requests, Abandon(r) PROVE SemaphoreAccounted'
  BY <1>14 DEF Abandon
<1>15. ASSUME NEW r \in Requests, Cleanup(r) PROVE SemaphoreAccounted'
  BY <1>15 DEF Cleanup
<1>16. ASSUME NEW r \in Requests, Receive(r) PROVE SemaphoreAccounted'
  BY <1>16 DEF Receive
<1>17. CASE AddReply
  BY <1>17 DEF AddReply
<1>18. CASE Stop
  BY <1>18 DEF Stop
<1>19. CASE Complete
  BY <1>19 DEF Complete, Listen
<1>20. CASE BindProps
  BY <1>20 DEF BindProps, Listen
<1>21. CASE FreeAnswered
  <2>1. CASE ~released[answered] /\ semaphore.owner = answered
    <3>1. answered \in Requests /\ at[answered] # "write"
      BY <1>21 DEF FreeAnswered
    <3>2. semaphore.count = 1 /\ \A q \in Requests : at[q] # "write"
      BY <2>1, <3>1
    <3>3. /\ semaphore' = [owner |-> None, count |-> 0] /\ answered' = None
          /\ UNCHANGED <<at, waitForReply, complete, released, closer, info>>
      BY <1>21, <2>1, <3>2 DEF FreeAnswered, Listen
    <3>4. ~Open(answered)
      BY <1>21 DEF FreeAnswered
    <3> QED
      BY <2>1, <3>1, <3>2, <3>3, <3>4
  <2>2. CASE released[answered] \/ semaphore.owner # answered
    <3>1. /\ UNCHANGED <<semaphore, at, waitForReply, complete, released, info>>
          /\ answered' = None /\ reader' = "ended"
          /\ closer' = IF closer = "idle" THEN "active" ELSE closer
      BY <1>21, <2>2 DEF FreeAnswered, Fails
    <3> QED
      BY <1>21, <2>2, <3>1 DEF FreeAnswered
  <2> QED
    BY <2>1, <2>2
<1>22. CASE ReadFails
  BY <1>22 DEF ReadFails, Fails
<1>23. CASE Lose
  BY <1>23 DEF Lose
<1>24. CASE Notice
  BY <1>24 DEF Notice, Ends
<1>25. CASE Disconnect
  BY <1>25 DEF Disconnect, Ends
<1>26. CASE Deactivate
  BY <1>26 DEF Deactivate, CloserGoes
<1>27. CASE Take
  BY <1>27 DEF Take
<1>28. CASE RemoveHead
  BY <1>28 DEF RemoveHead
<1>29. CASE AbandonTest
  BY <1>29 DEF AbandonTest, CloserGoes
<1>30. CASE AbandonAccept
  BY <1>30 DEF AbandonAccept, CloserGoes
<1>31. CASE AbandonIgnore
  BY <1>31 DEF AbandonIgnore, CloserGoes
<1>32. CASE AbandonIncomplete
  BY <1>32 DEF AbandonIncomplete, CloserGoes
<1>33. CASE AbandonBindProps
  BY <1>33 DEF AbandonBindProps, CloserGoes
<1>34. CASE AbandonFree
  <2>1. CASE ~released[info] /\ semaphore.owner = info
    <3>1. /\ info \in Requests /\ ~Open(info)
          /\ \A q \in Requests : q # info => Held(q) = 0 /\ at[q] # "write"
      BY <1>34, <2>1 DEF AbandonFree
    <3>2. Held(info) = 1
      <4>1. CASE at[info] = "write"
        BY <1>34, <4>1 DEF AbandonFree
      <4>2. CASE at[info] # "write"
        BY <2>1, <3>1, <4>2, OwnerHolds
      <4> QED
        BY <4>1, <4>2
    <3>3. /\ semaphore' = Freed /\ closer' = "write"
          /\ UNCHANGED <<at, waitForReply, complete, released, info, reader, answered>>
      BY <1>34, <2>1 DEF AbandonFree
    <3>4. /\ Held(info)' = 0 /\ \A q \in Requests : Held(q)' = 0
          /\ semaphore'.owner = None <=> semaphore'.count = 0
          /\ at[info] = "write" => semaphore'.owner = info
      BY <2>1, <3>1, <3>2, <3>3
    <3> QED
      BY <3>1, <3>3, <3>4
  <2>2. CASE released[info] \/ semaphore.owner # info
    <3>1. /\ UNCHANGED <<semaphore, at, waitForReply, complete, released, info, reader>>
          /\ UNCHANGED answered /\ closer' = "threw" /\ closer = "free" /\ info \in Requests
      BY <1>34, <2>2 DEF AbandonFree
    <3>2. Held(info) # 0 => released[info]
      BY <2>2, <3>1
    <3> QED
      BY <3>1, <3>2
  <2> QED
    BY <2>1, <2>2
<1>35. CASE WriteAbandon
  BY <1>35 DEF WriteAbandon
<1>36. CASE Unlist
  BY <1>36 DEF Unlist, CloserGoes
<1>37. CASE Tell
  BY <1>37 DEF Tell, CloserGoes
<1>38. CASE CloseAcquire
  BY <1>38 DEF CloseAcquire
<1>39. CASE CanWrite
  BY <1>39 DEF CanWrite, CloserGoes
<1>40. CASE Unbind
  BY <1>40 DEF Unbind, CloserGoes
<1>41. CASE StopReader
  BY <1>41 DEF StopReader
<1>42. CASE Join
  BY <1>42 DEF Join, CloserGoes
<1>43. CASE Close
  <2>1. closer = "release" /\ semaphore = [owner |-> Closer, count |-> 1]
    BY <1>43 DEF Close, CloserGoes
  <2>2. \A r \in Requests : at[r] # "write" /\ Held(r) = 0
    BY <2>1
  <2>3. /\ semaphore' = [owner |-> None, count |-> 0] /\ closer' = "end"
        /\ UNCHANGED <<at, waitForReply, complete, released, info, reader, answered>>
    BY <1>43, <2>1 DEF Close, CloserGoes
  <2>4. \A r \in Requests : at'[r] # "write" /\ Held(r)' = 0
    BY <2>2, <2>3
  <2>5. \A r \in Binds : ~Open(r)
    BY <2>2
  <2> QED
    BY <2>2, <2>3, <2>4, <2>5
<1>44. CASE UNCHANGED vars
  BY <1>44 DEF vars
<1> QED
  BY <1>1, <1>2, <1>3, <1>4, <1>5, <1>6, <1>7, <1>8, <1>9, <1>10, <1>11, <1>12, <1>13,
     <1>14, <1>15, <1>16, <1>17, <1>18, <1>19, <1>20, <1>21, <1>22, <1>23, <1>24, <1>25,
     <1>26, <1>27, <1>28, <1>29, <1>30, <1>31, <1>32, <1>33, <1>34, <1>35, <1>36, <1>37,
     <1>38, <1>39, <1>40, <1>41, <1>42, <1>43, <1>44, Cases

\* The thread in Dispose keeps what it owns.
LEMMA OwningPreserved ==
  ASSUME AccountInv, [Next]_vars
  PROVE  Owning'
<1> USE LossAssumption DEF AccountInv, TypeOK, Stages, Before, SemaphoreAccounted, Owning,
   Held, Writing, Open, OnTheWay, Freed, Taken, Available, Goto, Emptied, Closing, wires,
   flags, reading, disposing
<1>1. ASSUME NEW r \in Requests, Begin(r) PROVE Owning'
  <2>1. info # r /\ semaphore.owner \in {None, r}
    BY <1>1 DEF Begin, Unlisted
  <2>2. /\ semaphore' = [owner |-> r, count |-> semaphore.count + 1]
        /\ at' = [at EXCEPT ![r] = "add"] /\ UNCHANGED <<closer, info>>
    BY <1>1 DEF Begin
  <2>3. ~(closer \in {"incomplete", "bindprops", "free"} /\ info \in Binds /\ at[info] \in Before)
    BY <1>1, <2>1 DEF Begin, Unlisted
  <2> QED
    BY <1>1, <2>1, <2>2, <2>3
<1>2. ASSUME NEW r \in Requests, Add(r) PROVE Owning'
  BY <1>2 DEF Add
<1>3. ASSUME NEW r \in Requests, Test(r) PROVE Owning'
  BY <1>3 DEF Test
<1>4. ASSUME NEW r \in Requests, Stream(r) PROVE Owning'
  BY <1>4 DEF Stream
<1>5. ASSUME NEW r \in Requests, Acquire(r) PROVE Owning'
  BY <1>5 DEF Acquire
<1>6. ASSUME NEW r \in Requests, Write(r) PROVE Owning'
  BY <1>6 DEF Write, WriteEnds, Raised, Quiet, Written
<1>7. ASSUME NEW r \in Requests, Enter(r) PROVE Owning'
  BY <1>7 DEF Enter
<1>8. ASSUME NEW r \in Requests, Return(r) PROVE Owning'
  BY <1>8 DEF Return
<1>9. ASSUME NEW r \in Requests, Check(r) PROVE Owning'
  BY <1>9 DEF Check
<1>10. ASSUME NEW r \in Requests, GiveUp(r) PROVE Owning'
  BY <1>10 DEF GiveUp
<1>11. ASSUME NEW r \in Requests, Ignore(r) PROVE Owning'
  BY <1>11 DEF Ignore
<1>12. ASSUME NEW r \in Requests, Incomplete(r) PROVE Owning'
  BY <1>12 DEF Incomplete
<1>13. ASSUME NEW r \in Requests, Free(r) PROVE Owning'
  BY <1>13 DEF Free
<1>14. ASSUME NEW r \in Requests, Abandon(r) PROVE Owning'
  BY <1>14 DEF Abandon
<1>15. ASSUME NEW r \in Requests, Cleanup(r) PROVE Owning'
  BY <1>15 DEF Cleanup
<1>16. ASSUME NEW r \in Requests, Receive(r) PROVE Owning'
  BY <1>16 DEF Receive
<1>17. CASE AddReply
  BY <1>17 DEF AddReply
<1>18. CASE Stop
  BY <1>18 DEF Stop
<1>19. CASE Complete
  BY <1>19 DEF Complete, Listen
<1>20. CASE BindProps
  BY <1>20 DEF BindProps, Listen
<1>21. CASE FreeAnswered
  BY <1>21 DEF FreeAnswered, Listen, Fails
<1>22. CASE ReadFails
  BY <1>22 DEF ReadFails, Fails
<1>23. CASE Lose
  BY <1>23 DEF Lose
<1>24. CASE Notice
  BY <1>24 DEF Notice, Ends
<1>25. CASE Disconnect
  BY <1>25 DEF Disconnect, Ends
<1>26. CASE Deactivate
  BY <1>26 DEF Deactivate, CloserGoes
<1>27. CASE Take
  BY <1>27 DEF Take
<1>28. CASE RemoveHead
  BY <1>28 DEF RemoveHead
<1>29. CASE AbandonTest
  BY <1>29 DEF AbandonTest, CloserGoes
<1>30. CASE AbandonAccept
  BY <1>30 DEF AbandonAccept, CloserGoes
<1>31. CASE AbandonIgnore
  <2>1. info \in Binds /\ at[info] \in Before => Held(info) = 1
    BY <1>31 DEF AbandonIgnore, CloserGoes, Unlisted
  <2>2. /\ closer' = "incomplete" /\ UNCHANGED <<semaphore, at, info>>
    BY <1>31 DEF AbandonIgnore, CloserGoes
  <2> QED
    BY <2>1, <2>2
<1>32. CASE AbandonIncomplete
  BY <1>32 DEF AbandonIncomplete, CloserGoes
<1>33. CASE AbandonBindProps
  BY <1>33 DEF AbandonBindProps, CloserGoes
<1>34. CASE AbandonFree
  BY <1>34 DEF AbandonFree
<1>35. CASE WriteAbandon
  BY <1>35 DEF WriteAbandon
<1>36. CASE Unlist
  BY <1>36 DEF Unlist, CloserGoes
<1>37. CASE Tell
  BY <1>37 DEF Tell, CloserGoes
<1>38. CASE CloseAcquire
  BY <1>38 DEF CloseAcquire
<1>39. CASE CanWrite
  BY <1>39 DEF CanWrite, CloserGoes
<1>40. CASE Unbind
  BY <1>40 DEF Unbind, CloserGoes
<1>41. CASE StopReader
  BY <1>41 DEF StopReader
<1>42. CASE Join
  BY <1>42 DEF Join, CloserGoes
<1>43. CASE Close
  BY <1>43 DEF Close, CloserGoes
<1>44. CASE UNCHANGED vars
  BY <1>44 DEF vars
<1> QED
  BY <1>1, <1>2, <1>3, <1>4, <1>5, <1>6, <1>7, <1>8, <1>9, <1>10, <1>11, <1>12, <1>13,
     <1>14, <1>15, <1>16, <1>17, <1>18, <1>19, <1>20, <1>21, <1>22, <1>23, <1>24, <1>25,
     <1>26, <1>27, <1>28, <1>29, <1>30, <1>31, <1>32, <1>33, <1>34, <1>35, <1>36, <1>37,
     <1>38, <1>39, <1>40, <1>41, <1>42, <1>43, <1>44, Cases

\* The types are right.  A bind owns the semaphore as long as it is open; beyond
\* that, and beyond the writing of a request, it is owned only by a bind that the
\* reader, the bind's own thread or Dispose is about to free it for, or whose answer
\* was read before the reader had looked at its properties.
THEOREM Accounting == Spec => []Inv
<1>1. AccountInv /\ [Next]_vars => AccountInv'
  BY TypesPreserved, StagesPreserved, AccountPreserved, OwningPreserved DEF AccountInv
<1>2. AccountInv => Inv
  BY DEF AccountInv, Inv
<1> QED
  BY InitAccount, <1>1, <1>2, PTL DEF Spec

-----------------------------------------------------------------------------
\* The places of a thread that has listed its request and has not seen a reply,
\* and those of the thread in Dispose that has a request in its hands.
Waiting == {"test", "stream", "acquire", "write", "sent", "enter", "asleep"}
Telling == {"incomplete", "bindprops", "free", "write", "unlist", "tell"}
Hands == Telling \cup {"abandon", "accept", "ignore"}

\* A request without a reply is in the list or in the hands of the thread in
\* Dispose, or came late, or was removed in the place of another one.
Expected(r) ==
  at[r] \in Waiting /\ replies[r] = 0 =>
    r \in ToSet(messages) \cup late \cup dropped \/ (info = r /\ closer \in Hands)

\* What was abandoned is told, or about to be.
Told(r) ==
  at[r] \in Waiting /\ ~waitForReply[r] => replies[r] > 0 \/ (info = r /\ closer \in Telling)

\* What comes late after a loss finds no streams.
Lost ==
  ending = "lost" => ~streams /\ \A r \in late : at[r] \in {"test", "connect", "threw"}

\* An emptied list holds only who came late.
Emptying ==
  /\ closer \in Emptied => ToSet(messages) \subseteq late
  /\ late # {} => closer \in Emptied \cup {"threw"}

Waking ==
  /\ closer # "threw" => \A r \in Requests : Expected(r)
  /\ closer # "threw" => \A r \in Requests : Told(r)
  /\ Emptying
  /\ Lost

WakingInv == AccountInv /\ Waking

LEMMA InitWaking == Init => WakingInv
<1> SUFFICES ASSUME Init PROVE Waking
  BY InitAccount DEF WakingInv
<1> QED
  BY LossAssumption DEF Init, Waking, Expected, Told, Waiting, Hands, Telling, Emptying, Emptied,
     Closing, Lost, ToSet

\* Who leaves the list.
LEMMA Leaving ==
  ASSUME AccountInv, [Next]_vars
  PROVE  \A x \in ToSet(messages) :
           \/ x \in ToSet(messages')
           \/ at'[x] \in {"popped", "done"}
           \/ info = x /\ closer = "unlist"
           \/ x \in dropped' \/ (info' = x /\ closer' = "abandon")
<1>1. \A x \in Requests : Return(x) \/ Cleanup(x) => at'[x] \in {"popped", "done"}
  BY DEF Return, Cleanup, Goto, AccountInv, TypeOK
<1>2. Unlist => closer = "unlist"
  BY DEF Unlist, CloserGoes
<1>3. \A x \in ToSet(messages) : x \in Requests
  BY DEF ToSet, AccountInv, TypeOK
<1>4. RemoveHead /\ messages # <<>> =>
        Head(messages) \in dropped' \/ (info' = Head(messages) /\ closer' = "abandon")
  BY DEF RemoveHead
<1> QED
  BY <1>1, <1>2, <1>3, <1>4, ListKept

ExpectedSafe == closer' # "threw" => \A q \in Requests : Expected(q)'

\* Nobody drops out of sight.
LEMMA ExpectedPreserved ==
  ASSUME WakingInv, [Next]_vars
  PROVE  closer' # "threw" => \A q \in Requests : Expected(q)'
<1> USE LossAssumption DEF WakingInv, AccountInv, TypeOK, Goto, wires, flags, reading,
   disposing, Waking, Expected, Told, Waiting, Hands, Telling, Emptied, Closing, Stages,
   ExpectedSafe
<1>0. /\ \A x \in ToSet(messages) :
           \/ x \in ToSet(messages')
           \/ at'[x] \in {"popped", "done"}
           \/ info = x /\ closer = "unlist"
           \/ x \in dropped' \/ (info' = x /\ closer' = "abandon")
      /\ messages = <<>> => ToSet(messages) = {}
  BY Leaving, ListKept
<1>1. ASSUME NEW r \in Requests, Begin(r) PROVE ExpectedSafe
  BY <1>0, <1>1 DEF Begin
<1>2. ASSUME NEW r \in Requests, Add(r) PROVE ExpectedSafe
  <2>1. ToSet(messages') = ToSet(messages) \cup {r}
    BY <1>2, ListKept
  <2>2. /\ at' = [at EXCEPT ![r] = "test"] /\ late \subseteq late'
        /\ UNCHANGED <<replies, closer, info, dropped>>
    BY <1>2 DEF Add
  <2> QED
    BY <2>1, <2>2
<1>3. ASSUME NEW r \in Requests, Test(r) PROVE ExpectedSafe
  BY <1>0, <1>3 DEF Test
<1>4. ASSUME NEW r \in Requests, Stream(r) PROVE ExpectedSafe
  BY <1>0, <1>4 DEF Stream
<1>5. ASSUME NEW r \in Requests, Acquire(r) PROVE ExpectedSafe
  BY <1>0, <1>5 DEF Acquire
<1>6. ASSUME NEW r \in Requests, Write(r) PROVE ExpectedSafe
  BY <1>0, <1>6 DEF Write, WriteEnds, Raised, Quiet, Written
<1>7. ASSUME NEW r \in Requests, Enter(r) PROVE ExpectedSafe
  BY <1>0, <1>7 DEF Enter
<1>8. ASSUME NEW r \in Requests, Return(r) PROVE ExpectedSafe
  <2>1. /\ at' = [at EXCEPT ![r] = "popped"] /\ replies' = [replies EXCEPT ![r] = @ - 1]
        /\ UNCHANGED <<closer, info, late, dropped>>
    BY <1>8 DEF Return
  <2>2. \A x \in ToSet(messages) :
          \/ x \in ToSet(messages') \/ x = r \/ at[x] \in {"popped", "done"}
          \/ (info = x /\ closer \in Hands) \/ x \in dropped
    <3>1. \A x \in ToSet(messages) : x # r => at'[x] = at[x]
      BY <2>1
    <3> QED
      BY <1>0, <2>1, <3>1
  <2>3. ASSUME NEW q \in Requests, q # r, closer # "threw" PROVE Expected(q)'
    <3>1. at'[q] = at[q] /\ replies'[q] = replies[q] /\ Expected(q)
      BY <2>1, <2>3
    <3> QED
      BY <2>1, <2>2, <3>1
  <2>4. Expected(r)'
    BY <2>1
  <2> QED
    BY <2>1, <2>3, <2>4
<1>9. ASSUME NEW r \in Requests, Check(r) PROVE ExpectedSafe
  BY <1>0, <1>9 DEF Check
<1>10. ASSUME NEW r \in Requests, GiveUp(r) PROVE ExpectedSafe
  BY <1>0, <1>10 DEF GiveUp
<1>11. ASSUME NEW r \in Requests, Ignore(r) PROVE ExpectedSafe
  BY <1>0, <1>11 DEF Ignore
<1>12. ASSUME NEW r \in Requests, Incomplete(r) PROVE ExpectedSafe
  BY <1>0, <1>12 DEF Incomplete
<1>13. ASSUME NEW r \in Requests, Free(r) PROVE ExpectedSafe
  BY <1>0, <1>13 DEF Free
<1>14. ASSUME NEW r \in Requests, Abandon(r) PROVE ExpectedSafe
  BY <1>0, <1>14 DEF Abandon
<1>15. ASSUME NEW r \in Requests, Cleanup(r) PROVE ExpectedSafe
  <2>1. /\ at' = [at EXCEPT ![r] = "done"] /\ replies' = [replies EXCEPT ![r] = 0]
        /\ UNCHANGED <<closer, info, late, dropped>>
    BY <1>15 DEF Cleanup
  <2>2. \A x \in ToSet(messages) :
          \/ x \in ToSet(messages') \/ x = r \/ at[x] \in {"popped", "done"}
          \/ (info = x /\ closer \in Hands) \/ x \in dropped
    <3>1. \A x \in ToSet(messages) : x # r => at'[x] = at[x]
      BY <2>1
    <3> QED
      BY <1>0, <2>1, <3>1
  <2>3. ASSUME NEW q \in Requests, q # r, closer # "threw" PROVE Expected(q)'
    <3>1. at'[q] = at[q] /\ replies'[q] = replies[q] /\ Expected(q)
      BY <2>1, <2>3
    <3> QED
      BY <2>1, <2>2, <3>1
  <2>4. Expected(r)'
    BY <2>1
  <2> QED
    BY <2>1, <2>3, <2>4
<1>16. ASSUME NEW r \in Requests, Receive(r) PROVE ExpectedSafe
  BY <1>0, <1>16 DEF Receive
<1>17. CASE AddReply
  BY <1>0, <1>17 DEF AddReply
<1>18. CASE Stop
  BY <1>0, <1>18 DEF Stop
<1>19. CASE Complete
  BY <1>0, <1>19 DEF Complete, Listen
<1>20. CASE BindProps
  BY <1>0, <1>20 DEF BindProps, Listen
<1>21. CASE FreeAnswered
  BY <1>0, <1>21 DEF FreeAnswered, Listen, Fails
<1>22. CASE ReadFails
  BY <1>0, <1>22 DEF ReadFails, Fails
<1>23. CASE Lose
  BY <1>0, <1>23 DEF Lose
<1>24. CASE Notice
  BY <1>0, <1>24 DEF Notice, Ends
<1>25. CASE Disconnect
  BY <1>0, <1>25 DEF Disconnect, Ends
<1>26. CASE Deactivate
  BY <1>0, <1>26 DEF Deactivate, CloserGoes
<1>27. CASE Take
  BY <1>0, <1>27 DEF Take
<1>28. CASE RemoveHead
  <2>2. /\ closer = "remove" /\ UNCHANGED <<at, replies, late>>
        /\ closer' = IF messages = <<>> THEN "close" ELSE "abandon"
        /\ dropped \subseteq dropped'
    BY <1>28 DEF RemoveHead
  <2>3. \A x \in ToSet(messages) :
          \/ x \in ToSet(messages') \/ at'[x] \in {"popped", "done"}
          \/ x \in dropped' \/ (info' = x /\ closer' = "abandon")
    BY <1>0, <2>2
  <2> QED
    BY <1>0, <2>2, <2>3
<1>29. CASE AbandonTest
  BY <1>0, <1>29 DEF AbandonTest, CloserGoes
<1>30. CASE AbandonAccept
  BY <1>0, <1>30 DEF AbandonAccept, CloserGoes
<1>31. CASE AbandonIgnore
  BY <1>0, <1>31 DEF AbandonIgnore, CloserGoes
<1>32. CASE AbandonIncomplete
  BY <1>0, <1>32 DEF AbandonIncomplete, CloserGoes
<1>33. CASE AbandonBindProps
  BY <1>0, <1>33 DEF AbandonBindProps, CloserGoes
<1>34. CASE AbandonFree
  BY <1>0, <1>34 DEF AbandonFree
<1>35. CASE WriteAbandon
  BY <1>0, <1>35 DEF WriteAbandon
<1>36. CASE Unlist
  BY <1>0, <1>36 DEF Unlist, CloserGoes
<1>37. CASE Tell
  BY <1>0, <1>37 DEF Tell, CloserGoes
<1>38. CASE CloseAcquire
  BY <1>0, <1>38 DEF CloseAcquire
<1>39. CASE CanWrite
  BY <1>0, <1>39 DEF CanWrite, CloserGoes
<1>40. CASE Unbind
  BY <1>0, <1>40 DEF Unbind, CloserGoes
<1>41. CASE StopReader
  BY <1>0, <1>41 DEF StopReader
<1>42. CASE Join
  BY <1>0, <1>42 DEF Join, CloserGoes
<1>43. CASE Close
  BY <1>0, <1>43 DEF Close, CloserGoes
<1>44. CASE UNCHANGED vars
  BY <1>0, <1>44 DEF vars
<1> QED
  BY <1>1, <1>2, <1>3, <1>4, <1>5, <1>6, <1>7, <1>8, <1>9, <1>10, <1>11, <1>12, <1>13,
     <1>14, <1>15, <1>16, <1>17, <1>18, <1>19, <1>20, <1>21, <1>22, <1>23, <1>24, <1>25,
     <1>26, <1>27, <1>28, <1>29, <1>30, <1>31, <1>32, <1>33, <1>34, <1>35, <1>36, <1>37,
     <1>38, <1>39, <1>40, <1>41, <1>42, <1>43, <1>44, Cases

ToldSafe == closer' # "threw" => \A q \in Requests : Told(q)'

\* Who is abandoned has a reply, or is in the hands of the thread in Dispose.
LEMMA ToldPreserved ==
  ASSUME WakingInv, [Next]_vars
  PROVE  closer' # "threw" => \A q \in Requests : Told(q)'
<1> USE LossAssumption DEF WakingInv, AccountInv, TypeOK, Goto, wires, flags, reading,
   disposing, Waking, Told, Waiting, Telling, Emptied, Closing, Stages, ToldSafe
<1>1. ASSUME NEW r \in Requests, Begin(r) PROVE ToldSafe
  BY <1>1 DEF Begin
<1>2. ASSUME NEW r \in Requests, Add(r) PROVE ToldSafe
  <2>1. /\ at[r] = "add" /\ at' = [at EXCEPT ![r] = "test"]
        /\ UNCHANGED <<waitForReply, replies, closer, info>>
    BY <1>2 DEF Add
  <2>2. waitForReply[r]
    BY <2>1 DEF Unlisted
  <2> QED
    BY <2>1, <2>2
<1>3. ASSUME NEW r \in Requests, Test(r) PROVE ToldSafe
  BY <1>3 DEF Test
<1>4. ASSUME NEW r \in Requests, Stream(r) PROVE ToldSafe
  BY <1>4 DEF Stream
<1>5. ASSUME NEW r \in Requests, Acquire(r) PROVE ToldSafe
  BY <1>5 DEF Acquire
<1>6. ASSUME NEW r \in Requests, Write(r) PROVE ToldSafe
  BY <1>6 DEF Write, WriteEnds, Raised, Quiet, Written
<1>7. ASSUME NEW r \in Requests, Enter(r) PROVE ToldSafe
  BY <1>7 DEF Enter
<1>8. ASSUME NEW r \in Requests, Return(r) PROVE ToldSafe
  BY <1>8 DEF Return
<1>9. ASSUME NEW r \in Requests, Check(r) PROVE ToldSafe
  BY <1>9 DEF Check
<1>10. ASSUME NEW r \in Requests, GiveUp(r) PROVE ToldSafe
  BY <1>10 DEF GiveUp
<1>11. ASSUME NEW r \in Requests, Ignore(r) PROVE ToldSafe
  BY <1>11 DEF Ignore
<1>12. ASSUME NEW r \in Requests, Incomplete(r) PROVE ToldSafe
  BY <1>12 DEF Incomplete
<1>13. ASSUME NEW r \in Requests, Free(r) PROVE ToldSafe
  BY <1>13 DEF Free
<1>14. ASSUME NEW r \in Requests, Abandon(r) PROVE ToldSafe
  BY <1>14 DEF Abandon
<1>15. ASSUME NEW r \in Requests, Cleanup(r) PROVE ToldSafe
  BY <1>15 DEF Cleanup
<1>16. ASSUME NEW r \in Requests, Receive(r) PROVE ToldSafe
  BY <1>16 DEF Receive
<1>17. CASE AddReply
  BY <1>17 DEF AddReply
<1>18. CASE Stop
  BY <1>18 DEF Stop
<1>19. CASE Complete
  BY <1>19 DEF Complete, Listen
<1>20. CASE BindProps
  BY <1>20 DEF BindProps, Listen
<1>21. CASE FreeAnswered
  BY <1>21 DEF FreeAnswered, Listen, Fails
<1>22. CASE ReadFails
  BY <1>22 DEF ReadFails, Fails
<1>23. CASE Lose
  BY <1>23 DEF Lose
<1>24. CASE Notice
  BY <1>24 DEF Notice, Ends
<1>25. CASE Disconnect
  BY <1>25 DEF Disconnect, Ends
<1>26. CASE Deactivate
  BY <1>26 DEF Deactivate, CloserGoes
<1>27. CASE Take
  BY <1>27 DEF Take
<1>28. CASE RemoveHead
  BY <1>28 DEF RemoveHead
<1>29. CASE AbandonTest
  BY <1>29 DEF AbandonTest, CloserGoes
<1>30. CASE AbandonAccept
  BY <1>30 DEF AbandonAccept, CloserGoes
<1>31. CASE AbandonIgnore
  BY <1>31 DEF AbandonIgnore, CloserGoes
<1>32. CASE AbandonIncomplete
  BY <1>32 DEF AbandonIncomplete, CloserGoes
<1>33. CASE AbandonBindProps
  BY <1>33 DEF AbandonBindProps, CloserGoes
<1>34. CASE AbandonFree
  BY <1>34 DEF AbandonFree
<1>35. CASE WriteAbandon
  BY <1>35 DEF WriteAbandon
<1>36. CASE Unlist
  BY <1>36 DEF Unlist, CloserGoes
<1>37. CASE Tell
  BY <1>37 DEF Tell, CloserGoes
<1>38. CASE CloseAcquire
  BY <1>38 DEF CloseAcquire
<1>39. CASE CanWrite
  BY <1>39 DEF CanWrite, CloserGoes
<1>40. CASE Unbind
  BY <1>40 DEF Unbind, CloserGoes
<1>41. CASE StopReader
  BY <1>41 DEF StopReader
<1>42. CASE Join
  BY <1>42 DEF Join, CloserGoes
<1>43. CASE Close
  BY <1>43 DEF Close, CloserGoes
<1>44. CASE UNCHANGED vars
  BY <1>44 DEF vars
<1> QED
  BY <1>1, <1>2, <1>3, <1>4, <1>5, <1>6, <1>7, <1>8, <1>9, <1>10, <1>11, <1>12, <1>13,
     <1>14, <1>15, <1>16, <1>17, <1>18, <1>19, <1>20, <1>21, <1>22, <1>23, <1>24, <1>25,
     <1>26, <1>27, <1>28, <1>29, <1>30, <1>31, <1>32, <1>33, <1>34, <1>35, <1>36, <1>37,
     <1>38, <1>39, <1>40, <1>41, <1>42, <1>43, <1>44, Cases

\* Once the list was emptied, it holds only those who came late.
LEMMA EmptyingPreserved ==
  ASSUME WakingInv, [Next]_vars
  PROVE  Emptying'
<1> USE LossAssumption DEF WakingInv, AccountInv, TypeOK, Goto, wires, flags, reading,
   disposing, Waking, Emptying, Emptied, Closing, Stages
<1>0. /\ \A x \in ToSet(messages') :
           x \in Requests /\ (x \in ToSet(messages) \/ (at[x] = "add" /\ at'[x] = "test"))
      /\ messages = <<>> => ToSet(messages) = {}
  <2>1. \A x \in Requests : Add(x) => at[x] = "add" /\ at'[x] = "test"
    BY DEF Add
  <2> QED
    BY <2>1, ListKept
<1>1. ASSUME NEW r \in Requests, Begin(r) PROVE Emptying'
  BY <1>0, <1>1 DEF Begin
<1>2. ASSUME NEW r \in Requests, Add(r) PROVE Emptying'
  BY <1>0, <1>2 DEF Add
<1>3. ASSUME NEW r \in Requests, Test(r) PROVE Emptying'
  BY <1>0, <1>3 DEF Test
<1>4. ASSUME NEW r \in Requests, Stream(r) PROVE Emptying'
  BY <1>0, <1>4 DEF Stream
<1>5. ASSUME NEW r \in Requests, Acquire(r) PROVE Emptying'
  BY <1>0, <1>5 DEF Acquire
<1>6. ASSUME NEW r \in Requests, Write(r) PROVE Emptying'
  BY <1>0, <1>6 DEF Write, WriteEnds, Raised, Quiet, Written
<1>7. ASSUME NEW r \in Requests, Enter(r) PROVE Emptying'
  BY <1>0, <1>7 DEF Enter
<1>8. ASSUME NEW r \in Requests, Return(r) PROVE Emptying'
  BY <1>0, <1>8 DEF Return
<1>9. ASSUME NEW r \in Requests, Check(r) PROVE Emptying'
  BY <1>0, <1>9 DEF Check
<1>10. ASSUME NEW r \in Requests, GiveUp(r) PROVE Emptying'
  BY <1>0, <1>10 DEF GiveUp
<1>11. ASSUME NEW r \in Requests, Ignore(r) PROVE Emptying'
  BY <1>0, <1>11 DEF Ignore
<1>12. ASSUME NEW r \in Requests, Incomplete(r) PROVE Emptying'
  BY <1>0, <1>12 DEF Incomplete
<1>13. ASSUME NEW r \in Requests, Free(r) PROVE Emptying'
  BY <1>0, <1>13 DEF Free
<1>14. ASSUME NEW r \in Requests, Abandon(r) PROVE Emptying'
  BY <1>0, <1>14 DEF Abandon
<1>15. ASSUME NEW r \in Requests, Cleanup(r) PROVE Emptying'
  BY <1>0, <1>15 DEF Cleanup
<1>16. ASSUME NEW r \in Requests, Receive(r) PROVE Emptying'
  BY <1>0, <1>16 DEF Receive
<1>17. CASE AddReply
  BY <1>0, <1>17 DEF AddReply
<1>18. CASE Stop
  BY <1>0, <1>18 DEF Stop
<1>19. CASE Complete
  BY <1>0, <1>19 DEF Complete, Listen
<1>20. CASE BindProps
  BY <1>0, <1>20 DEF BindProps, Listen
<1>21. CASE FreeAnswered
  BY <1>0, <1>21 DEF FreeAnswered, Listen, Fails
<1>22. CASE ReadFails
  BY <1>0, <1>22 DEF ReadFails, Fails
<1>23. CASE Lose
  BY <1>0, <1>23 DEF Lose
<1>24. CASE Notice
  BY <1>0, <1>24 DEF Notice, Ends
<1>25. CASE Disconnect
  BY <1>0, <1>25 DEF Disconnect, Ends
<1>26. CASE Deactivate
  BY <1>0, <1>26 DEF Deactivate, CloserGoes
<1>27. CASE Take
  BY <1>0, <1>27 DEF Take
<1>28. CASE RemoveHead
  BY <1>0, <1>28 DEF RemoveHead
<1>29. CASE AbandonTest
  BY <1>0, <1>29 DEF AbandonTest, CloserGoes
<1>30. CASE AbandonAccept
  BY <1>0, <1>30 DEF AbandonAccept, CloserGoes
<1>31. CASE AbandonIgnore
  BY <1>0, <1>31 DEF AbandonIgnore, CloserGoes
<1>32. CASE AbandonIncomplete
  BY <1>0, <1>32 DEF AbandonIncomplete, CloserGoes
<1>33. CASE AbandonBindProps
  BY <1>0, <1>33 DEF AbandonBindProps, CloserGoes
<1>34. CASE AbandonFree
  BY <1>0, <1>34 DEF AbandonFree
<1>35. CASE WriteAbandon
  BY <1>0, <1>35 DEF WriteAbandon
<1>36. CASE Unlist
  BY <1>0, <1>36 DEF Unlist, CloserGoes
<1>37. CASE Tell
  BY <1>0, <1>37 DEF Tell, CloserGoes
<1>38. CASE CloseAcquire
  BY <1>0, <1>38 DEF CloseAcquire
<1>39. CASE CanWrite
  BY <1>0, <1>39 DEF CanWrite, CloserGoes
<1>40. CASE Unbind
  BY <1>0, <1>40 DEF Unbind, CloserGoes
<1>41. CASE StopReader
  BY <1>0, <1>41 DEF StopReader
<1>42. CASE Join
  BY <1>0, <1>42 DEF Join, CloserGoes
<1>43. CASE Close
  BY <1>0, <1>43 DEF Close, CloserGoes
<1>44. CASE UNCHANGED vars
  BY <1>0, <1>44 DEF vars
<1> QED
  BY <1>1, <1>2, <1>3, <1>4, <1>5, <1>6, <1>7, <1>8, <1>9, <1>10, <1>11, <1>12, <1>13,
     <1>14, <1>15, <1>16, <1>17, <1>18, <1>19, <1>20, <1>21, <1>22, <1>23, <1>24, <1>25,
     <1>26, <1>27, <1>28, <1>29, <1>30, <1>31, <1>32, <1>33, <1>34, <1>35, <1>36, <1>37,
     <1>38, <1>39, <1>40, <1>41, <1>42, <1>43, <1>44, Cases

\* After a loss, who came late does not get as far as the socket.
LEMMA LostPreserved ==
  ASSUME WakingInv, [Next]_vars
  PROVE  Lost'
<1> USE LossAssumption DEF WakingInv, AccountInv, TypeOK, Goto, wires, flags, reading,
   disposing, Waking, Lost, Emptying, Emptied, Closing, Stages
<1>1. ASSUME NEW r \in Requests, Begin(r) PROVE Lost'
  BY <1>1 DEF Begin
<1>2. ASSUME NEW r \in Requests, Add(r) PROVE Lost'
  BY <1>2 DEF Add
<1>3. ASSUME NEW r \in Requests, Test(r) PROVE Lost'
  BY <1>3 DEF Test
<1>4. ASSUME NEW r \in Requests, Stream(r) PROVE Lost'
  BY <1>4 DEF Stream
<1>5. ASSUME NEW r \in Requests, Acquire(r) PROVE Lost'
  BY <1>5 DEF Acquire
<1>6. ASSUME NEW r \in Requests, Write(r) PROVE Lost'
  BY <1>6 DEF Write, WriteEnds, Raised, Quiet, Written
<1>7. ASSUME NEW r \in Requests, Enter(r) PROVE Lost'
  BY <1>7 DEF Enter
<1>8. ASSUME NEW r \in Requests, Return(r) PROVE Lost'
  BY <1>8 DEF Return
<1>9. ASSUME NEW r \in Requests, Check(r) PROVE Lost'
  BY <1>9 DEF Check
<1>10. ASSUME NEW r \in Requests, GiveUp(r) PROVE Lost'
  BY <1>10 DEF GiveUp
<1>11. ASSUME NEW r \in Requests, Ignore(r) PROVE Lost'
  BY <1>11 DEF Ignore
<1>12. ASSUME NEW r \in Requests, Incomplete(r) PROVE Lost'
  BY <1>12 DEF Incomplete
<1>13. ASSUME NEW r \in Requests, Free(r) PROVE Lost'
  BY <1>13 DEF Free
<1>14. ASSUME NEW r \in Requests, Abandon(r) PROVE Lost'
  BY <1>14 DEF Abandon
<1>15. ASSUME NEW r \in Requests, Cleanup(r) PROVE Lost'
  BY <1>15 DEF Cleanup
<1>16. ASSUME NEW r \in Requests, Receive(r) PROVE Lost'
  BY <1>16 DEF Receive
<1>17. CASE AddReply
  BY <1>17 DEF AddReply
<1>18. CASE Stop
  BY <1>18 DEF Stop
<1>19. CASE Complete
  BY <1>19 DEF Complete, Listen
<1>20. CASE BindProps
  BY <1>20 DEF BindProps, Listen
<1>21. CASE FreeAnswered
  BY <1>21 DEF FreeAnswered, Listen, Fails
<1>22. CASE ReadFails
  BY <1>22 DEF ReadFails, Fails
<1>23. CASE Lose
  BY <1>23 DEF Lose
<1>24. CASE Notice
  BY <1>24 DEF Notice, Ends
<1>25. CASE Disconnect
  BY <1>25 DEF Disconnect, Ends
<1>26. CASE Deactivate
  BY <1>26 DEF Deactivate, CloserGoes
<1>27. CASE Take
  BY <1>27 DEF Take
<1>28. CASE RemoveHead
  BY <1>28 DEF RemoveHead
<1>29. CASE AbandonTest
  BY <1>29 DEF AbandonTest, CloserGoes
<1>30. CASE AbandonAccept
  BY <1>30 DEF AbandonAccept, CloserGoes
<1>31. CASE AbandonIgnore
  BY <1>31 DEF AbandonIgnore, CloserGoes
<1>32. CASE AbandonIncomplete
  BY <1>32 DEF AbandonIncomplete, CloserGoes
<1>33. CASE AbandonBindProps
  BY <1>33 DEF AbandonBindProps, CloserGoes
<1>34. CASE AbandonFree
  BY <1>34 DEF AbandonFree
<1>35. CASE WriteAbandon
  BY <1>35 DEF WriteAbandon
<1>36. CASE Unlist
  BY <1>36 DEF Unlist, CloserGoes
<1>37. CASE Tell
  BY <1>37 DEF Tell, CloserGoes
<1>38. CASE CloseAcquire
  BY <1>38 DEF CloseAcquire
<1>39. CASE CanWrite
  BY <1>39 DEF CanWrite, CloserGoes
<1>40. CASE Unbind
  BY <1>40 DEF Unbind, CloserGoes
<1>41. CASE StopReader
  BY <1>41 DEF StopReader
<1>42. CASE Join
  BY <1>42 DEF Join, CloserGoes
<1>43. CASE Close
  BY <1>43 DEF Close, CloserGoes
<1>44. CASE UNCHANGED vars
  BY <1>44 DEF vars
<1> QED
  BY <1>1, <1>2, <1>3, <1>4, <1>5, <1>6, <1>7, <1>8, <1>9, <1>10, <1>11, <1>12, <1>13,
     <1>14, <1>15, <1>16, <1>17, <1>18, <1>19, <1>20, <1>21, <1>22, <1>23, <1>24, <1>25,
     <1>26, <1>27, <1>28, <1>29, <1>30, <1>31, <1>32, <1>33, <1>34, <1>35, <1>36, <1>37,
     <1>38, <1>39, <1>40, <1>41, <1>42, <1>43, <1>44, Cases

\* Once Dispose has ended, a thread sleeps on a request without a reply only where
\* the request joined the list after it was emptied, which after a loss finds the
\* streams gone and does not sleep, or where Dispose removed it from the list in
\* the place of another request.
THEOREM NobodyForgotten == Spec => []NoSleeperForgotten
<1>1. WakingInv /\ [Next]_vars => WakingInv'
  BY TypesPreserved, StagesPreserved, AccountPreserved, OwningPreserved, ExpectedPreserved,
     ToldPreserved, EmptyingPreserved, LostPreserved DEF WakingInv, AccountInv, Waking
<1>2. WakingInv => NoSleeperForgotten
  BY DEF WakingInv, Waking, Expected, Waiting, Hands, Telling, Emptying, Emptied, Closing, Lost,
     NoSleeperForgotten
<1> QED
  BY InitWaking, <1>1, <1>2, PTL DEF Spec
=============================================================================
