---------------------- MODULE LdapSearchResultsProofs ----------------------
(***************************************************************************)
(* However many answers a search has, and whatever the batch size: what    *)
(* next gives is what arrived, in order and with nothing left out, and     *)
(* hasMore promises what next can give.                                    *)
(***************************************************************************)
EXTENDS LdapSearchResults, SequenceTheorems, FiniteSetTheorems, TLAPS

\* Counting the elements of a part of a sequence.
LEMMA CountType ==
  ASSUME NEW s, NEW m \in Nat, NEW n \in Nat, NEW kinds
  PROVE  /\ HowMany(s, m, n, kinds) \in Nat
         /\ IsFiniteSet({j \in (m + 1)..n : s[j].kind \in kinds})
<1>1. IsFiniteSet((m + 1)..n)
  BY FS_Interval
<1>2. IsFiniteSet({j \in (m + 1)..n : s[j].kind \in kinds})
  BY <1>1, FS_Subset
<1> QED
  BY <1>2, FS_CardinalityType DEF HowMany

LEMMA CountEmpty ==
  ASSUME NEW s, NEW m \in Nat, NEW n \in Nat, n <= m, NEW kinds
  PROVE  HowMany(s, m, n, kinds) = 0
<1>1. {j \in (m + 1)..n : s[j].kind \in kinds} = {}
  OBVIOUS
<1> QED
  BY <1>1, FS_EmptySet, Zenon DEF HowMany

LEMMA CountSame ==
  ASSUME NEW s, NEW t, NEW m \in Nat, NEW n \in Nat, NEW kinds,
         \A j \in (m + 1)..n : s[j] = t[j]
  PROVE  HowMany(s, m, n, kinds) = HowMany(t, m, n, kinds)
<1>1. {j \in (m + 1)..n : s[j].kind \in kinds} = {j \in (m + 1)..n : t[j].kind \in kinds}
  OBVIOUS
<1> QED
  BY <1>1, Zenon DEF HowMany

LEMMA CountLast ==
  ASSUME NEW s, NEW m \in Nat, NEW n \in Nat, m <= n, NEW kinds
  PROVE  HowMany(s, m, n + 1, kinds) =
           HowMany(s, m, n, kinds) + IF s[n + 1].kind \in kinds THEN 1 ELSE 0
<1> DEFINE S == {j \in (m + 1)..n : s[j].kind \in kinds}
           T == {j \in (m + 1)..(n + 1) : s[j].kind \in kinds}
<1>1. IsFiniteSet(S) /\ HowMany(s, m, n, kinds) = Cardinality(S)
      /\ HowMany(s, m, n + 1, kinds) = Cardinality(T) /\ Cardinality(S) \in Nat
  BY CountType DEF HowMany
<1>2. CASE s[n + 1].kind \in kinds
  <2>1. T = S \cup {n + 1} /\ n + 1 \notin S
    BY <1>2
  <2>2. Cardinality(T) = Cardinality(S) + 1
    BY <1>1, <2>1, FS_AddElement, Zenon
  <2> QED
    BY <1>1, <1>2, <2>2
<1>3. CASE s[n + 1].kind \notin kinds
  <2>1. T = S
    BY <1>3
  <2>2. Cardinality(T) = Cardinality(S)
    BY <2>1, Zenon
  <2> QED
    BY <1>1, <1>3, <2>2
<1> QED
  BY <1>2, <1>3

LEMMA CountFirst ==
  ASSUME NEW s, NEW m \in Nat, NEW n \in Nat, m < n, NEW kinds
  PROVE  HowMany(s, m, n, kinds) =
           HowMany(s, m + 1, n, kinds) + IF s[m + 1].kind \in kinds THEN 1 ELSE 0
<1> DEFINE S == {j \in (m + 2)..n : s[j].kind \in kinds}
           T == {j \in (m + 1)..n : s[j].kind \in kinds}
<1>1. IsFiniteSet(S) /\ HowMany(s, m + 1, n, kinds) = Cardinality(S)
      /\ HowMany(s, m, n, kinds) = Cardinality(T) /\ Cardinality(S) \in Nat
  <2>1. (m + 1) + 1 = m + 2 /\ m + 1 \in Nat
    OBVIOUS
  <2> QED
    BY <2>1, CountType, ZenonT(40) DEF HowMany
<1>2. CASE s[m + 1].kind \in kinds
  <2>1. T = S \cup {m + 1} /\ m + 1 \notin S
    BY <1>2
  <2>2. Cardinality(T) = Cardinality(S) + 1
    BY <1>1, <2>1, FS_AddElement, Zenon
  <2> QED
    BY <1>1, <1>2, <2>2
<1>3. CASE s[m + 1].kind \notin kinds
  <2>1. T = S
    BY <1>3
  <2>2. Cardinality(T) = Cardinality(S)
    BY <2>1, Zenon
  <2> QED
    BY <1>1, <1>3, <2>2
<1> QED
  BY <1>2, <1>3

\* Counting in a sequence that has grown.
LEMMA CountAppend ==
  ASSUME NEW s \in Seq(Items), NEW x \in Items, NEW m \in 0..Len(s), NEW kinds
  PROVE  /\ \A n \in 0..Len(s) : HowMany(Append(s, x), m, n, kinds) = HowMany(s, m, n, kinds)
         /\ HowMany(Append(s, x), m, Len(s) + 1, kinds) =
              HowMany(s, m, Len(s), kinds) + IF x.kind \in kinds THEN 1 ELSE 0
<1>0. PICK t : t = Append(s, x)
  OBVIOUS
<1>1. Len(s) \in Nat /\ t[Len(s) + 1] = x /\ \A j \in 1..Len(s) : t[j] = s[j]
  BY <1>0, AppendProperties, LenProperties
<1>2. ASSUME NEW n \in 0..Len(s)
      PROVE  HowMany(t, m, n, kinds) = HowMany(s, m, n, kinds)
  <2>1. {j \in (m + 1)..n : t[j].kind \in kinds} = {j \in (m + 1)..n : s[j].kind \in kinds}
    BY <1>1
  <2> QED
    BY <2>1, Zenon DEF HowMany
<1>3. HowMany(t, m, Len(s) + 1, kinds) =
        HowMany(t, m, Len(s), kinds) + IF x.kind \in kinds THEN 1 ELSE 0
  <2>1. m \in Nat /\ m <= Len(s)
    BY <1>1
  <2>2. HowMany(t, m, Len(s) + 1, kinds) =
          HowMany(t, m, Len(s), kinds) + IF t[Len(s) + 1].kind \in kinds THEN 1 ELSE 0
    BY <1>1, <2>1, CountLast
  <2> QED
    BY <1>1, <2>2
<1>4. HowMany(t, m, Len(s), kinds) = HowMany(s, m, Len(s), kinds)
  BY <1>1, <1>2
<1> QED
  BY <1>0, <1>2, <1>3, <1>4

LEMMA CountKept ==
  ASSUME NEW s \in Seq(Items), NEW x \in Items, NEW kinds
  PROVE  /\ \A n \in 0..Len(s) : HowMany(Append(s, x), 0, n, kinds) = HowMany(s, 0, n, kinds)
         /\ HowMany(Append(s, x), 0, Len(s) + 1, kinds) =
              HowMany(s, 0, Len(s), kinds) + IF x.kind \in kinds THEN 1 ELSE 0
<1>1. 0 \in 0..Len(s)
  BY LenProperties
<1>2. ASSUME NEW n \in 0..Len(s)
      PROVE  HowMany(Append(s, x), 0, n, kinds) = HowMany(s, 0, n, kinds)
  <2>1. PICK t : t = Append(s, x)
    OBVIOUS
  <2>2. \A j \in (0 + 1)..n : t[j] = s[j]
    BY <2>1, AppendProperties, LenProperties
  <2>3. {j \in (0 + 1)..n : t[j].kind \in kinds} = {j \in (0 + 1)..n : s[j].kind \in kinds}
    BY <2>2
  <2> QED
    BY <2>1, <2>3, Zenon DEF HowMany
<1>3. HowMany(Append(s, x), 0, Len(s) + 1, kinds) =
        HowMany(s, 0, Len(s), kinds) + IF x.kind \in kinds THEN 1 ELSE 0
  BY <1>1, CountAppend
<1> QED
  BY <1>2, <1>3

\* Counting by disjoint classes.
LEMMA CountUnion ==
  ASSUME NEW s, NEW n \in Nat, NEW kinds, NEW K, NEW L, K \cap L = {},
         \A j \in 1..n : s[j].kind \in kinds <=> s[j].kind \in K \cup L
  PROVE  HowMany(s, 0, n, kinds) = HowMany(s, 0, n, K) + HowMany(s, 0, n, L)
<1> DEFINE A == {j \in 1..n : s[j].kind \in K}
           B == {j \in 1..n : s[j].kind \in L}
           C == {j \in 1..n : s[j].kind \in kinds}
<1>1. /\ HowMany(s, 0, n, K) = Cardinality(A) /\ IsFiniteSet(A) /\ Cardinality(A) \in Nat
      /\ HowMany(s, 0, n, L) = Cardinality(B) /\ IsFiniteSet(B) /\ Cardinality(B) \in Nat
      /\ HowMany(s, 0, n, kinds) = Cardinality(C)
  <2>1. ASSUME NEW k
        PROVE  LET D == {j \in 1..n : s[j].kind \in k}
               IN  HowMany(s, 0, n, k) = Cardinality(D) /\ IsFiniteSet(D) /\ Cardinality(D) \in Nat
    <3> DEFINE D == {j \in 1..n : s[j].kind \in k}
    <3>1. D = {j \in (0 + 1)..n : s[j].kind \in k}
      OBVIOUS
    <3>2. HowMany(s, 0, n, k) = Cardinality(D)
      BY <3>1, Zenon DEF HowMany
    <3>3. IsFiniteSet(1..n) /\ D \subseteq 1..n
      BY FS_Interval
    <3> QED
      BY <3>2, <3>3, FS_Subset, FS_CardinalityType, Zenon
  <2> QED
    BY <2>1, Zenon
<1>2. C = A \cup B /\ A \cap B = {}
  OBVIOUS
<1>3. Cardinality(A \cap B) = 0
  BY <1>2, FS_EmptySet, Zenon
<1>4. Cardinality(C) = Cardinality(A \cup B)
  BY <1>2, Zenon
<1>5. Cardinality(A \cup B) = Cardinality(A) + Cardinality(B) - Cardinality(A \cap B)
  BY <1>1, FS_Union, Zenon
<1> HIDE DEF A, B, C
<1> QED
  BY <1>1, <1>3, <1>4, <1>5

LEMMA CountAll ==
  ASSUME NEW s, NEW n \in Nat, NEW kinds, \A j \in 1..n : s[j].kind \in kinds
  PROVE  HowMany(s, 0, n, kinds) = n
<1>1. {j \in 1..n : s[j].kind \in kinds} = 1..n /\ 0 + 1 = 1
  OBVIOUS
<1>2. HowMany(s, 0, n, kinds) = Cardinality(1..n)
  BY <1>1, Zenon DEF HowMany
<1> QED
  BY <1>2, FS_Interval

-----------------------------------------------------------------------------
\* The server sends one result, and no more threads cut than there are.
QueueInv ==
  /\ QueueTypeOK
  /\ adding => answered <= MaxReplies /\ ~settling
  /\ acceptReplies /\ ~settling => answered <= MaxReplies
  /\ deciding + telling <= MaxCuts
  /\ ~inAgent => /\ replies = <<>> /\ deciding = 0 /\ telling = 0
                 /\ ~acceptReplies /\ ~waitForReply /\ ~adding /\ ~settling

\* What the lists hold, by the place of the application: an exception that is not
\* counted comes last, once the queue is left; a batch begins with nothing unread.
ListsInv ==
  /\ Len(entries) > entryCount => ~inAgent
  /\ \A p \in 1..entryCount : entries[p].kind \in Kinds \ {"success", "reference"}
  /\ \A p \in 1..referenceCount : references[p].kind = "reference"
  /\ pc = "batch" => entryIndex = 0 /\ i <= entryCount
  /\ pc \in {"hasMore", "next", "abandon"} /\ ~HasUnread => ~inAgent
  /\ completed \/ abandoned => ~inAgent
  /\ pc = "abandon" \/ (pc = "batch" /\ caller = "abandon") => abandoned
  /\ said = "no" => ~HasUnread /\ ~inAgent
  /\ said = "yes" /\ ~abandoned => HasUnread /\ pc \in {"app", "hasMore", "next"}

ResultsInv == TypeOK /\ QueueInv /\ ListsInv

LEMMA Cases ==
  ASSUME [Next]_vars
  PROVE  \/ Others
         \/ /\ \/ HasMore \/ CallNext \/ Abandon
               \/ HasMoreReturns \/ NextReturns \/ AbandonReturns
               \/ BatchFull \/ GetEntry \/ GetReference \/ GetResponse \/ GetNull
            /\ UNCHANGED arrived
         \/ UNCHANGED vars
BY DEF Next, Returns, BatchOfResults

\* What the rest of the client does to the queue.
LEMMA QueueStep ==
  ASSUME ResultsInv, [Next]_vars
  PROVE  QueueInv'
<1> USE QueueAssumption DEF ResultsInv, QueueInv, QueueTypeOK, queue, flags, server, cutters
<1>00. \/ Accept \/ Cut \/ Answer \/ Finish \/ Settle \/ Decide \/ Close \/ Tell
       \/ TakeReply \/ Leave \/ UNCHANGED queue
  BY Cases DEF Others, Arrives, Settles, HasMore, CallNext, Abandon, AbandonAll, HasMoreReturns,
     NextReturns, AbandonReturns, BatchFull, GetEntry, GetReference, GetResponse, GetNull,
     TakeNull, vars
<1>0. {acceptReplies', waitForReply', inAgent', adding', settling'} \subseteq BOOLEAN
  <2>1. CASE Accept \/ Cut
    BY <2>1 DEF Accept, Cut
  <2>2. CASE Answer \/ Finish \/ Settle
    BY <2>2 DEF Answer, Finish, Settle
  <2>3. CASE Decide \/ Close \/ Tell
    BY <2>3 DEF Decide, Close, Tell
  <2>4. CASE TakeReply \/ Leave \/ UNCHANGED queue
    BY <2>4 DEF TakeReply, Leave
  <2> QED
    BY <2>1, <2>2, <2>3, <2>4, <1>00
<1>1. CASE Accept
  BY <1>0, <1>1 DEF Accept
<1>2. CASE Cut
  <2>1. acceptReplies' => acceptReplies
    BY <1>2, Zenon DEF Cut
  <2>2. /\ waitForReply /\ deciding + telling < MaxCuts /\ deciding' = deciding + 1
        /\ UNCHANGED <<replies, waitForReply, inAgent, answered, adding, settling, telling>>
    BY <1>2 DEF Cut
  <2>3. inAgent
    BY <2>2
  <2> QED
    BY <1>0, <2>1, <2>2, <2>3
<1>3. CASE Answer
  <2>1. PICK x \in [kind : Kinds, number : 0..(MaxReplies + 1)] : replies' = Append(replies, x)
    <3>1. PICK k \in {"entry", "reference"} : replies' = Append(replies, [kind |-> k, number |-> answered'])
      BY <1>3, Zenon DEF Answer, Put
    <3>2. answered' \in 0..(MaxReplies + 1)
      BY <1>3 DEF Answer, Put
    <3>3. [kind |-> k, number |-> answered'] \in [kind : Kinds, number : 0..(MaxReplies + 1)]
      BY <3>2 DEF Kinds
    <3> QED
      BY <3>1, <3>3, Zenon
  <2>2. replies' \in Seq([kind : Kinds, number : 0..(MaxReplies + 1)])
    BY <2>1, AppendProperties
  <2> QED
    BY <1>0, <1>3, <2>2 DEF Answer, Put
<1>4. CASE Finish
  <2>1. PICK x \in [kind : Kinds, number : 0..(MaxReplies + 1)] : replies' = Append(replies, x)
    <3>1. PICK k \in Result : replies' = Append(replies, [kind |-> k, number |-> answered'])
      BY <1>4, Zenon DEF Finish, Put
    <3>2. answered' \in 0..(MaxReplies + 1)
      BY <1>4 DEF Finish, Put
    <3>3. [kind |-> k, number |-> answered'] \in [kind : Kinds, number : 0..(MaxReplies + 1)]
      BY <3>2 DEF Kinds
    <3> QED
      BY <3>1, <3>3, Zenon
  <2>2. replies' \in Seq([kind : Kinds, number : 0..(MaxReplies + 1)])
    BY <2>1, AppendProperties
  <2> QED
    BY <1>0, <1>4, <2>2 DEF Finish, Put
<1>5. CASE Settle
  BY <1>0, <1>5 DEF Settle
<1>6. CASE Decide
  BY <1>0, <1>6 DEF Decide
<1>7. CASE Close
  BY <1>0, <1>7 DEF Close
<1>8. CASE Tell
  <2>1. replies' \in Seq([kind : Kinds, number : 0..(MaxReplies + 1)])
    <3>1. [kind |-> "closed", number |-> 0] \in [kind : Kinds, number : 0..(MaxReplies + 1)]
      BY DEF Kinds
    <3> QED
      BY <1>0, <1>8, <3>1, AppendProperties DEF Tell
  <2> QED
    BY <1>0, <1>8, <2>1 DEF Tell
<1>9. CASE replies # <<>> /\ replies' = Tail(replies) /\ UNCHANGED <<inAgent, flags, server, cutters>>
  <2>1. replies' \in Seq([kind : Kinds, number : 0..(MaxReplies + 1)])
    BY <1>9, HeadTailProperties
  <2>2. inAgent
    BY <1>9
  <2> QED
    BY <1>0, <1>9, <2>1, <2>2
<1>10. CASE Leave
  <2>1. <<>> \in Seq([kind : Kinds, number : 0..(MaxReplies + 1)])
    BY EmptySeq
  <2> QED
    BY <1>0, <1>10, <2>1 DEF Leave
<1>11. CASE UNCHANGED queue
  BY <1>0, <1>11
<1> QED
  BY <1>1, <1>2, <1>3, <1>4, <1>5, <1>6, <1>7, <1>8, <1>9, <1>10, <1>11, <1>00 DEF TakeReply

\* What is queued, arrives.
LEMMA OthersStep ==
  ASSUME ResultsInv, Others
  PROVE  /\ UNCHANGED results /\ UNCHANGED inAgent
         /\ \/ UNCHANGED <<replies, arrived>>
            \/ \E x \in Items : replies' = Append(replies, x) /\ arrived' = Append(arrived, x)
<1> USE DEF ResultsInv, QueueInv, QueueTypeOK
<1>1. UNCHANGED results /\ UNCHANGED inAgent
  BY DEF Others, Arrives, Settles, Accept, Cut, Answer, Finish, Settle, Decide, Close, Tell
<1>2. replies \in Seq(Items) /\ arrived \in Seq(Items)
  <2>1. [kind : Kinds, number : 0..(MaxReplies + 1)] \subseteq Items
    BY QueueAssumption DEF Items, Kinds
  <2> QED
    BY <2>1, SeqMonotonic DEF TypeOK
<1>3. arrived' = arrived \o SubSeq(replies', Len(replies) + 1, Len(replies'))
  BY DEF Others
<1>4. \/ UNCHANGED replies
      \/ \E x \in Items : replies' = Append(replies, x)
  <2>0. \A x \in [kind : Kinds, number : 0..(MaxReplies + 1)] : x \in Items
    BY QueueAssumption DEF Items, Kinds
  <2>1. CASE Answer \/ Finish
    <3>1. PICK x \in [kind : Kinds, number : 0..(MaxReplies + 1)] : replies' = Append(replies, x)
      <4>1. CASE Answer
        BY <4>1, QueueAssumption DEF Answer, Put, Kinds
      <4>2. CASE Finish
        BY <4>2, QueueAssumption DEF Finish, Put, Kinds
      <4> QED
        BY <2>1, <4>1, <4>2
    <3> QED
      BY <2>0, <3>1
  <2>2. CASE Tell
    <3>1. [kind |-> "closed", number |-> 0] \in [kind : Kinds, number : 0..(MaxReplies + 1)]
      BY QueueAssumption DEF Kinds
    <3> QED
      BY <2>0, <2>2, <3>1 DEF Tell
  <2>3. CASE Accept \/ Cut \/ Settle \/ Decide \/ Close
    BY <2>3 DEF Accept, Cut, Settle, Decide, Close
  <2> QED
    BY <2>1, <2>2, <2>3 DEF Others, Arrives, Settles
<1>5. CASE UNCHANGED replies
  <2>1. Len(replies) \in Nat /\ SubSeq(replies, Len(replies) + 1, Len(replies)) = <<>>
    BY <1>2, LenProperties, SubSeqEmpty
  <2> QED
    BY <1>1, <1>2, <1>3, <1>5, <2>1, ConcatEmptySeq
<1>6. ASSUME NEW x \in Items, replies' = Append(replies, x) PROVE arrived' = Append(arrived, x)
  <2> DEFINE n == Len(replies)
  <2>1. /\ n \in Nat /\ replies' \in Seq(Items) /\ Len(replies') = n + 1
        /\ replies'[n + 1] = x
    BY <1>2, <1>6, AppendProperties, LenProperties
  <2>2. SubSeq(replies', n + 1, n + 1) = <<x>>
    <3>1. PICK q : q = SubSeq(replies', n + 1, n + 1)
      OBVIOUS
    <3>2. q \in Seq(Items) /\ Len(q) = 1 /\ q[1] = x
      BY <2>1, <3>1, SubSeqProperties
    <3>3. <<x>> \in Seq(Items) /\ Len(<<x>>) = 1 /\ <<x>>[1] = x
      OBVIOUS
    <3>4. q = <<x>>
      BY <3>2, <3>3, SeqEqual
    <3> QED
      BY <3>1, <3>4
  <2>3. arrived' = arrived \o <<x>>
    BY <1>3, <2>1, <2>2, Zenon
  <2> QED
    BY <1>2, <2>3, AppendIsConcat
<1> QED
  BY <1>1, <1>4, <1>5, <1>6

\* A turn of the loop of BatchOfResults takes the first reply.
LEMMA TakeStep ==
  ASSUME ResultsInv, TakeReply
  PROVE  /\ replies \in Seq(Items) /\ replies # <<>> /\ replies' = Tail(replies)
         /\ Head(replies) \in [kind : Kinds, number : 0..(MaxReplies + 1)]
         /\ Head(replies) \in Items
         /\ inAgent /\ entryCount = Len(entries)
<1> USE DEF ResultsInv, QueueInv, QueueTypeOK, TypeOK
<1>1. [kind : Kinds, number : 0..(MaxReplies + 1)] \subseteq Items
  BY QueueAssumption DEF Items, Kinds
<1>2. replies \in Seq(Items) /\ replies # <<>> /\ inAgent
  BY <1>1, SeqMonotonic DEF TakeReply
<1>3. Head(replies) \in [kind : Kinds, number : 0..(MaxReplies + 1)]
  BY <1>2, HeadTailProperties
<1>4. replies' = Tail(replies)
  <2>1. CASE Len(replies) = 1 /\ Leave
    <3>1. Tail(replies) \in Seq(Items) /\ Len(Tail(replies)) = 0
      BY <1>2, <2>1, HeadTailProperties
    <3>2. Tail(replies) = <<>>
      BY <3>1, EmptySeq, Zenon
    <3> QED
      BY <2>1, <3>2 DEF Leave
  <2> QED
    BY <2>1 DEF TakeReply
<1>5. entryCount = Len(entries)
  BY <1>2, LenProperties DEF ListsInv
<1> QED
  BY <1>1, <1>2, <1>3, <1>4, <1>5

\* resetVectors empties what was read to its end, and sends who has nothing left to
\* read for another batch, unless the search is over.
LEMMA ResetStep ==
  ASSUME ResultsInv, NEW call, resetVectors(call)
  PROVE  /\ \/ UNCHANGED entryVars
            \/ /\ entryIndex = entryCount
               /\ entries' = <<>> /\ entryIndex' = 0 /\ entryCount' = 0
         /\ \/ UNCHANGED referenceVars
            \/ /\ referenceIndex = Len(references)
               /\ references' = <<>> /\ referenceIndex' = 0
         /\ \/ /\ pc' = call /\ UNCHANGED <<i, caller>>
               /\ completed \/ HasUnread
            \/ /\ pc' = "batch" /\ i' = 0 /\ caller' = call
               /\ ~completed /\ ~HasUnread
               /\ entryIndex' = 0
         /\ HasUnread' <=> HasUnread
<1> USE DEF ResultsInv, TypeOK, referenceCount, entryVars, referenceVars, HasUnread
<1>0. Len(references) \in Nat /\ Len(entries) \in Nat
  BY LenProperties
<1>1. CASE completed
  BY <1>0, <1>1 DEF resetVectors
<1>2. CASE ~completed
  <2>1. PICK readOut \in BOOLEAN : readOut <=> entryIndex # 0 /\ entryIndex >= entryCount
    OBVIOUS
  <2>2. PICK chased \in BOOLEAN :
          chased <=> referenceIndex # 0 /\ referenceIndex >= Len(references)
    OBVIOUS
  <2>3. /\ IF readOut THEN entries' = <<>> /\ entryIndex' = 0 /\ entryCount' = 0
           ELSE UNCHANGED entryVars
        /\ IF chased THEN references' = <<>> /\ referenceIndex' = 0
           ELSE UNCHANGED referenceVars
        /\ IF Len(references') = 0 /\ entryCount' = 0
           THEN pc' = "batch" /\ i' = 0 /\ caller' = call
           ELSE pc' = call /\ UNCHANGED <<i, caller>>
    BY <1>2, <2>1, <2>2 DEF resetVectors
  <2>4. Len(<<>>) = 0
    OBVIOUS
  <2>5. readOut => entryIndex = entryCount
    BY <1>0, <2>1
  <2>6. chased => referenceIndex = Len(references)
    BY <1>0, <2>2
  <2>7. CASE readOut /\ chased
    BY <1>0, <1>2, <2>1, <2>2, <2>3, <2>4, <2>5, <2>6, <2>7
  <2>8. CASE readOut /\ ~chased
    BY <1>0, <1>2, <2>1, <2>2, <2>3, <2>4, <2>5, <2>8
  <2>9. CASE ~readOut /\ chased
    BY <1>0, <1>2, <2>1, <2>2, <2>3, <2>4, <2>6, <2>9
  <2>10. CASE ~readOut /\ ~chased
    BY <1>0, <1>2, <2>1, <2>2, <2>3, <2>10
  <2> QED
    BY <2>7, <2>8, <2>9, <2>10
<1> QED
  BY <1>1, <1>2

\* What a step may do to the entries ...
LEMMA EntriesStep ==
  ASSUME ResultsInv, [Next]_vars
  PROVE  \/ UNCHANGED entryVars
         \/ /\ entryIndex = entryCount
            /\ entries' = <<>> /\ entryIndex' = 0 /\ entryCount' = 0
         \/ /\ NextReturns /\ entryIndex < entryCount
            /\ entryIndex' = entryIndex + 1 /\ UNCHANGED <<entries, entryCount>>
         \/ /\ TakeReply /\ AddEntry(Head(replies)) /\ UNCHANGED entryIndex
            /\ Head(replies).kind \in Kinds \ {"success", "reference"}
         \/ GetNull /\ entries' = Append(entries, Timeout) /\ UNCHANGED <<entryIndex, entryCount>>
<1>1. CASE HasMore \/ CallNext \/ Abandon
  <2>1. UNCHANGED entryVars \/ \E call \in {"hasMore", "next", "abandon"} : resetVectors(call)
    BY <1>1 DEF HasMore, CallNext, Abandon
  <2> QED
    BY <2>1, ResetStep
<1>2. CASE NextReturns
  BY <1>2 DEF NextReturns, entryVars
<1>3. CASE GetEntry \/ GetResponse
  BY <1>3 DEF GetEntry, GetResponse, AddEntry, entryVars, Kinds, Result
<1>4. CASE GetNull
  BY <1>4 DEF GetNull
<1>5. CASE HasMoreReturns \/ AbandonReturns \/ BatchFull \/ GetReference
  BY <1>5 DEF HasMoreReturns, AbandonReturns, BatchFull, GetReference
<1>6. CASE Others
  BY <1>6, OthersStep DEF results
<1>7. CASE UNCHANGED vars
  BY <1>7 DEF vars
<1> QED
  BY <1>1, <1>2, <1>3, <1>4, <1>5, <1>6, <1>7, Cases

\* ... to the references ...
LEMMA ReferencesStep ==
  ASSUME ResultsInv, [Next]_vars
  PROVE  \/ UNCHANGED referenceVars
         \/ /\ referenceIndex = Len(references)
            /\ references' = <<>> /\ referenceIndex' = 0
         \/ /\ NextReturns /\ referenceIndex < Len(references)
            /\ referenceIndex' = referenceIndex + 1 /\ UNCHANGED references
         \/ GetReference /\ references' = Append(references, Head(replies)) /\ UNCHANGED referenceIndex
<1>1. CASE HasMore \/ CallNext \/ Abandon
  <2>1. UNCHANGED referenceVars \/ \E call \in {"hasMore", "next", "abandon"} : resetVectors(call)
    BY <1>1 DEF HasMore, CallNext, Abandon
  <2> QED
    BY <2>1, ResetStep
<1>2. CASE NextReturns
  BY <1>2 DEF NextReturns, referenceVars, referenceCount
<1>3. CASE GetReference
  BY <1>3 DEF GetReference, referenceVars
<1>4. CASE GetEntry \/ GetResponse \/ GetNull
  BY <1>4 DEF GetEntry, GetResponse, GetNull
<1>5. CASE HasMoreReturns \/ AbandonReturns \/ BatchFull
  BY <1>5 DEF HasMoreReturns, AbandonReturns, BatchFull
<1>6. CASE Others
  BY <1>6, OthersStep DEF results
<1>7. CASE UNCHANGED vars
  BY <1>7 DEF vars
<1> QED
  BY <1>1, <1>2, <1>3, <1>4, <1>5, <1>6, <1>7, Cases

\* ... and to what was given.
LEMMA GivenStep ==
  ASSUME ResultsInv, [Next]_vars
  PROVE  \/ UNCHANGED given
         \/ /\ NextReturns /\ referenceIndex < Len(references)
            /\ given' = Append(given, references[referenceIndex + 1])
            /\ references[referenceIndex + 1] \in Items
         \/ /\ NextReturns /\ referenceIndex >= Len(references) /\ entryIndex < entryCount
            /\ given' = Append(given, entries[entryIndex + 1])
            /\ entries[entryIndex + 1] \in Items
<1>1. CASE HasMore \/ CallNext \/ Abandon
  BY <1>1 DEF HasMore, CallNext, Abandon, history
<1>2. CASE NextReturns
  <2>1. \A p \in 1..Len(references) : references[p] \in Items
    BY ElementOfSeq DEF ResultsInv, TypeOK
  <2>2. \A p \in 1..Len(entries) : entries[p] \in Items
    BY ElementOfSeq DEF ResultsInv, TypeOK
  <2>3. /\ referenceIndex \in 0..Len(references) /\ Len(references) \in Nat
        /\ entryIndex \in 0..entryCount /\ entryCount \in 0..Len(entries) /\ Len(entries) \in Nat
    BY LenProperties DEF ResultsInv, TypeOK, referenceCount
  <2> QED
    BY <1>2, <2>1, <2>2, <2>3 DEF NextReturns, referenceCount
<1>3. CASE GetEntry \/ GetResponse \/ GetReference \/ GetNull
  BY <1>3 DEF GetEntry, GetResponse, GetReference, GetNull, history
<1>4. CASE HasMoreReturns \/ AbandonReturns \/ BatchFull
  BY <1>4 DEF HasMoreReturns, AbandonReturns, BatchFull, history
<1>5. CASE Others
  BY <1>5, OthersStep DEF results, history
<1>6. CASE UNCHANGED vars
  BY <1>6 DEF vars, history
<1> QED
  BY <1>1, <1>2, <1>3, <1>4, <1>5, <1>6, Cases

LEMMA TypesPreserved ==
  ASSUME ResultsInv, [Next]_vars
  PROVE  TypeOK'
<1>0. /\ entries \in Seq(Items) /\ entryCount \in 0..Len(entries) /\ entryIndex \in 0..entryCount
      /\ references \in Seq(Items) /\ referenceIndex \in 0..Len(references)
      /\ given \in Seq(Items) /\ arrived \in Seq(Items)
      /\ Len(entries) \in Nat /\ Len(references) \in Nat
      /\ <<>> \in Seq(Items) /\ Len(<<>>) = 0
  BY LenProperties DEF ResultsInv, TypeOK, referenceCount
<1>1. QueueTypeOK'
  BY QueueStep DEF QueueInv
<1>2. entries' \in Seq(Items) /\ entryCount' \in 0..Len(entries') /\ entryIndex' \in 0..entryCount'
  <2>2. ASSUME TakeReply, AddEntry(Head(replies)), UNCHANGED entryIndex
        PROVE  entries' \in Seq(Items) /\ entryCount' \in 0..Len(entries') /\ entryIndex' \in 0..entryCount'
    <3>1. entries' \in Seq(Items) /\ Len(entries') = Len(entries) + 1
      BY <1>0, <2>2, TakeStep, AppendProperties DEF AddEntry
    <3> QED
      BY <1>0, <2>2, <3>1 DEF AddEntry
  <2>3. ASSUME entries' = Append(entries, Timeout), UNCHANGED <<entryIndex, entryCount>>
        PROVE  entries' \in Seq(Items) /\ entryCount' \in 0..Len(entries') /\ entryIndex' \in 0..entryCount'
    <3>1. Timeout \in Items
      BY QueueAssumption DEF Timeout, Items
    <3>2. entries' \in Seq(Items) /\ Len(entries') = Len(entries) + 1
      BY <1>0, <2>3, <3>1, AppendProperties
    <3> QED
      BY <1>0, <2>3, <3>2
  <2>4. CASE UNCHANGED entryVars
    BY <1>0, <2>4 DEF entryVars
  <2>5. CASE entries' = <<>> /\ entryIndex' = 0 /\ entryCount' = 0
    BY <1>0, <2>5
  <2>6. CASE entryIndex < entryCount /\ entryIndex' = entryIndex + 1 /\ UNCHANGED <<entries, entryCount>>
    BY <1>0, <2>6
  <2> QED
    BY <2>2, <2>3, <2>4, <2>5, <2>6, EntriesStep
<1>3. references' \in Seq(Items) /\ referenceIndex' \in 0..Len(references')
  <2>2. ASSUME GetReference, references' = Append(references, Head(replies)), UNCHANGED referenceIndex
        PROVE  references' \in Seq(Items) /\ referenceIndex' \in 0..Len(references')
    <3>1. references' \in Seq(Items) /\ Len(references') = Len(references) + 1
      BY <1>0, <2>2, TakeStep, AppendProperties DEF GetReference
    <3> QED
      BY <1>0, <2>2, <3>1 DEF referenceCount
  <2>3. CASE UNCHANGED referenceVars
    BY <1>0, <2>3 DEF referenceVars
  <2>4. CASE references' = <<>> /\ referenceIndex' = 0
    BY <1>0, <2>4
  <2>5. CASE /\ referenceIndex < Len(references)
             /\ referenceIndex' = referenceIndex + 1 /\ UNCHANGED references
    BY <1>0, <2>5
  <2> QED
    BY <2>2, <2>3, <2>4, <2>5, ReferencesStep
<1>4. given' \in Seq(Items)
  <2>1. UNCHANGED given \/ \E x \in Items : given' = Append(given, x)
    BY GivenStep
  <2>2. ASSUME NEW x \in Items PROVE Append(given, x) \in Seq(Items)
    BY <1>0, AppendProperties
  <2> QED
    BY <1>0, <2>1, <2>2
<1>5. arrived' \in Seq(Items)
  <2>1. UNCHANGED arrived \/ \E x \in Items : arrived' = Append(arrived, x)
    BY OthersStep, Cases DEF vars
  <2>2. ASSUME NEW x \in Items PROVE Append(arrived, x) \in Seq(Items)
    BY <1>0, AppendProperties
  <2> QED
    BY <1>0, <2>1, <2>2
<1>6. /\ batchSize' \in BatchSizes /\ referralFollowing' \in Following
      /\ completed' \in BOOLEAN /\ abandoned' \in BOOLEAN
      /\ i' \in Nat /\ pc' \in {"app", "batch", "hasMore", "next", "abandon"}
      /\ caller' \in {"hasMore", "next", "abandon"}
      /\ said' \in {"nothing", "yes", "no"}
      /\ lastNext' \in {"nothing", "given", "noMore", "confused"}
  <2> USE DEF ResultsInv, TypeOK
  <2>1. CASE HasMore \/ CallNext \/ Abandon
    <3>1. /\ UNCHANGED <<batchSize, referralFollowing, completed>>
          /\ said' \in {said, "nothing"} /\ lastNext' \in {lastNext, "noMore"}
      BY <2>1 DEF HasMore, CallNext, Abandon, constraints, history
    <3>0. abandoned' \in BOOLEAN
      BY <2>1 DEF HasMore, CallNext, Abandon, constraints, history
    <3>2. /\ i' \in {i, 0} /\ pc' \in {pc, "batch", "hasMore", "next", "abandon"}
          /\ caller' \in {caller, "hasMore", "next", "abandon"}
      BY <2>1 DEF HasMore, CallNext, Abandon, resetVectors
    <3> QED
      BY <3>0, <3>1, <3>2
  <2>2. CASE NextReturns
    BY <2>2 DEF NextReturns, constraints
  <2>3. CASE HasMoreReturns \/ AbandonReturns
    BY <2>3 DEF HasMoreReturns, AbandonReturns, constraints, history
  <2>4. CASE BatchFull \/ GetNull
    BY <2>4 DEF BatchFull, GetNull, BatchReturns, constraints, history
  <2>5. CASE GetEntry \/ GetReference
    BY <2>5 DEF GetEntry, GetReference, constraints, history
  <2>6. CASE GetResponse
    BY <2>6 DEF GetResponse, BatchReturns, constraints, history
  <2>7. CASE Others \/ UNCHANGED vars
    BY <2>7, OthersStep DEF vars, results, constraints, history
  <2> QED
    BY <2>1, <2>2, <2>3, <2>4, <2>5, <2>6, <2>7, Cases
<1> QED
  BY <1>1, <1>2, <1>3, <1>4, <1>5, <1>6 DEF TypeOK, referenceCount

LEMMA AgentStep ==
  ASSUME ResultsInv, [Next]_vars
  PROVE  /\ inAgent' => inAgent
         /\ Abandon \/ GetNull => ~inAgent'
<1>0. Abandon \/ GetNull => ~inAgent'
  BY DEF Abandon, AbandonAll, GetNull, TakeNull, Leave
<1>1. CASE Others
  BY <1>0, <1>1, OthersStep
<1>2. CASE HasMore \/ CallNext \/ NextReturns \/ HasMoreReturns \/ AbandonReturns \/ BatchFull
  <2>1. UNCHANGED queue
    BY <1>2 DEF HasMore, CallNext, NextReturns, HasMoreReturns, AbandonReturns, BatchFull
  <2> QED
    BY <1>0, <2>1 DEF queue
<1>3. CASE GetEntry \/ GetReference \/ GetResponse
  BY <1>0, <1>3, TakeStep DEF GetEntry, GetReference, GetResponse
<1>4. CASE Abandon \/ GetNull
  BY <1>0, <1>4
<1>5. CASE UNCHANGED vars
  BY <1>0, <1>5 DEF vars, queue
<1> QED
  BY <1>1, <1>2, <1>3, <1>4, <1>5, Cases

\* Out of the queue, there is nothing more to come.
LEMMA UnreadStep ==
  ASSUME ResultsInv, [Next]_vars
  PROVE  /\ UNCHANGED <<entryVars, referenceVars>> => (HasUnread' <=> HasUnread)
         /\ ~HasUnread /\ ~inAgent => ~HasUnread'
<1>0. /\ entryCount \in Nat /\ entryIndex \in Nat /\ entryIndex <= entryCount
      /\ Len(references) \in Nat /\ referenceIndex \in Nat /\ referenceIndex <= Len(references)
      /\ Len(<<>>) = 0
  BY LenProperties DEF ResultsInv, TypeOK, referenceCount
<1>1. UNCHANGED <<entryVars, referenceVars>> => (HasUnread' <=> HasUnread)
  BY DEF entryVars, referenceVars, HasUnread, referenceCount
<1>2. ASSUME ~HasUnread, ~inAgent PROVE ~HasUnread'
  <2>1. ~TakeReply
    BY <1>2, TakeStep
  <2>2. ~(entryIndex < entryCount) /\ ~(referenceIndex < Len(references))
    BY <1>2 DEF HasUnread, referenceCount
  <2>3. ~(entryIndex' < entryCount')
    BY <1>0, <2>1, <2>2, EntriesStep DEF entryVars
  <2>4. ~(referenceIndex' < Len(references'))
    BY <1>0, <2>1, <2>2, ReferencesStep DEF referenceVars, GetReference
  <2> QED
    BY <2>3, <2>4 DEF HasUnread, referenceCount
<1> QED
  BY <1>1, <1>2

\* What is counted was sent.
LEMMA KindsPreserved ==
  ASSUME ResultsInv, [Next]_vars
  PROVE  /\ Len(entries') > entryCount' => ~inAgent'
         /\ \A p \in 1..entryCount' : entries'[p].kind \in Kinds \ {"success", "reference"}
         /\ \A p \in 1..Len(references') : references'[p].kind = "reference"
<1>0. /\ entries \in Seq(Items) /\ entryCount \in 0..Len(entries) /\ Len(entries) \in Nat
      /\ references \in Seq(Items) /\ Len(references) \in Nat
      /\ \A p \in 1..entryCount : entries[p].kind \in Kinds \ {"success", "reference"}
      /\ \A p \in 1..Len(references) : references[p].kind = "reference"
      /\ Len(entries) > entryCount => ~inAgent
      /\ Len(<<>>) = 0
  BY LenProperties DEF ResultsInv, TypeOK, ListsInv, referenceCount
<1>1. /\ Len(entries') > entryCount' => ~inAgent'
      /\ \A p \in 1..entryCount' : entries'[p].kind \in Kinds \ {"success", "reference"}
  <2>1. CASE UNCHANGED <<entries, entryCount>>
    BY <1>0, <2>1, AgentStep
  <2>2. CASE entries' = <<>> /\ entryCount' = 0
    BY <1>0, <2>2
  <2>3. CASE /\ TakeReply /\ AddEntry(Head(replies))
             /\ Head(replies).kind \in Kinds \ {"success", "reference"}
    <3>1. Head(replies) \in Items /\ entryCount = Len(entries)
      BY <2>3, TakeStep
    <3>2. entries' = Append(entries, Head(replies)) /\ entryCount' = entryCount + 1
      BY <2>3 DEF AddEntry
    <3>3. /\ Len(entries') = Len(entries) + 1
          /\ entries'[Len(entries) + 1] = Head(replies)
          /\ \A p \in 1..Len(entries) : entries'[p] = entries[p]
      BY <1>0, <3>1, <3>2, AppendProperties
    <3>4. ASSUME NEW p \in 1..entryCount'
          PROVE  entries'[p].kind \in Kinds \ {"success", "reference"}
      <4>1. CASE p = Len(entries) + 1
        BY <2>3, <3>3, <4>1
      <4>2. CASE p # Len(entries) + 1
        BY <1>0, <3>1, <3>2, <3>3, <4>2
      <4> QED
        BY <4>1, <4>2
    <3> QED
      BY <1>0, <3>1, <3>2, <3>3, <3>4
  <2>4. CASE GetNull /\ entries' = Append(entries, Timeout) /\ UNCHANGED entryCount
    <3>1. Timeout \in Items
      BY QueueAssumption DEF Timeout, Items
    <3>2. \A p \in 1..Len(entries) : entries'[p] = entries[p]
      BY <1>0, <2>4, <3>1, AppendProperties
    <3> QED
      BY <1>0, <2>4, <3>2, AgentStep
  <2> QED
    BY <2>1, <2>2, <2>3, <2>4, EntriesStep DEF entryVars
<1>2. \A p \in 1..Len(references') : references'[p].kind = "reference"
  <2>1. CASE UNCHANGED references
    BY <1>0, <2>1
  <2>2. CASE references' = <<>>
    BY <1>0, <2>2
  <2>3. CASE GetReference /\ references' = Append(references, Head(replies))
    <3>1. Head(replies) \in Items /\ Head(replies).kind = "reference"
      BY <2>3, TakeStep DEF GetReference
    <3>3. /\ Len(references') = Len(references) + 1
          /\ references'[Len(references) + 1] = Head(replies)
          /\ \A p \in 1..Len(references) : references'[p] = references[p]
      BY <1>0, <2>3, <3>1, AppendProperties
    <3> QED
      BY <1>0, <3>1, <3>3
  <2> QED
    BY <2>1, <2>2, <2>3, ReferencesStep DEF referenceVars
<1> QED
  BY <1>1, <1>2

\* What the places say about the lists.
LEMMA BatchPreserved ==
  ASSUME ResultsInv, [Next]_vars
  PROVE  pc' = "batch" => entryIndex' = 0 /\ i' <= entryCount'
<1> USE DEF ResultsInv, TypeOK, ListsInv
<1>1. CASE HasMore \/ CallNext \/ Abandon
  <2>1. \/ pc' # "batch" /\ UNCHANGED entryVars
        \/ UNCHANGED pc
        \/ \E call \in {"hasMore", "next", "abandon"} : resetVectors(call)
    BY <1>1 DEF HasMore, CallNext, Abandon
  <2>2. pc = "app"
    BY <1>1 DEF HasMore, CallNext, Abandon
  <2>3. ASSUME NEW call \in {"hasMore", "next", "abandon"}, resetVectors(call), pc' = "batch"
        PROVE  entryIndex' = 0 /\ i' <= entryCount'
    <3>1. entryIndex' = 0 /\ i' = 0
      BY <2>3, ResetStep
    <3>2. entryCount' \in Nat
      BY TypesPreserved, LenProperties
    <3> QED
      BY <3>1, <3>2
  <2> QED
    BY <2>1, <2>2, <2>3
<1>2. CASE HasMoreReturns \/ NextReturns \/ AbandonReturns
  BY <1>2 DEF HasMoreReturns, NextReturns, AbandonReturns
<1>3. CASE BatchFull \/ GetNull
  BY <1>3 DEF BatchFull, GetNull, BatchReturns
<1>4. CASE GetEntry \/ GetReference \/ GetResponse
  BY <1>4 DEF GetEntry, GetReference, GetResponse, AddEntry, BatchReturns, InLoop, entryVars
<1>5. CASE Others \/ UNCHANGED vars
  BY <1>5, OthersStep DEF vars, results, entryVars
<1> QED
  BY <1>1, <1>2, <1>3, <1>4, <1>5, Cases

LEMMA PlacesPreserved ==
  ASSUME ResultsInv, [Next]_vars
  PROVE  /\ pc' \in {"hasMore", "next", "abandon"} /\ ~HasUnread' => ~inAgent'
         /\ completed' \/ abandoned' => ~inAgent'
         /\ pc' = "abandon" \/ (pc' = "batch" /\ caller' = "abandon") => abandoned'
<1> USE DEF ResultsInv, ListsInv
<1>0. inAgent' => inAgent
  BY AgentStep
<1>1. CASE HasMore \/ CallNext
  <2>1. \/ /\ pc' = "hasMore" /\ HasUnread
           /\ UNCHANGED <<entryVars, referenceVars, i, caller, inAgent, completed, abandoned>>
        \/ UNCHANGED <<entryVars, referenceVars, i, pc, caller, inAgent, completed, abandoned>>
        \/ /\ \E call \in {"hasMore", "next"} : resetVectors(call)
           /\ UNCHANGED <<inAgent, completed, abandoned>>
    BY <1>1 DEF HasMore, CallNext, queue, history
  <2>2. ASSUME NEW call \in {"hasMore", "next"}, resetVectors(call)
        PROVE  /\ \/ pc' = call /\ (completed \/ HasUnread)
                  \/ pc' = "batch" /\ caller' = call
               /\ HasUnread' <=> HasUnread
    BY <2>2, ResetStep
  <2> QED
    BY <2>1, <2>2, UnreadStep
<1>2. CASE Abandon
  <2>1. ~inAgent' /\ abandoned'
    BY <1>2, AgentStep DEF Abandon
  <2> QED
    BY <2>1
<1>3. CASE HasMoreReturns \/ NextReturns \/ AbandonReturns
  BY <1>0, <1>3 DEF HasMoreReturns, NextReturns, AbandonReturns, history
<1>4. CASE BatchFull
  <2>1. batchSize # 0 /\ i >= batchSize /\ pc = "batch"
    <3>1. pc = "batch" /\ ~(batchSize = 0 \/ i < batchSize)
      BY <1>4 DEF BatchFull, InLoop
    <3>2. batchSize \in Nat /\ i \in Nat
      BY ResultsAssumption DEF TypeOK
    <3> QED
      BY <3>1, <3>2
  <2>2. entryIndex < entryCount
    <3>1. batchSize \in Nat /\ i \in Nat /\ entryCount \in Nat
      BY ResultsAssumption, LenProperties DEF TypeOK
    <3>2. entryIndex = 0 /\ i <= entryCount
      BY <2>1
    <3> QED
      BY <2>1, <3>1, <3>2
  <2>3. /\ HasUnread' /\ ~completed' /\ abandoned' = abandoned /\ pc' = caller /\ pc = "batch"
        /\ caller' = caller
    BY <1>4, <2>2, UnreadStep DEF BatchFull, BatchReturns, HasUnread, history
  <2>4. abandoned => ~inAgent
    OBVIOUS
  <2>5. pc' = "abandon" => abandoned'
    BY <2>3
  <2>6. pc' = "batch" => pc' # "batch"
    <3>1. caller # "batch"
      BY DEF TypeOK
    <3> QED
      BY <2>3, <3>1
  <2> QED
    BY <1>0, <2>3, <2>4, <2>5, <2>6
<1>5. CASE GetEntry \/ GetReference
  BY <1>0, <1>5 DEF GetEntry, GetReference, InLoop, history
<1>6. CASE GetResponse
  <2>1. /\ UNCHANGED <<completed, pc>> \/ (~inAgent' /\ pc' = caller)
        /\ UNCHANGED <<caller, abandoned>> /\ pc = "batch"
    BY <1>6 DEF GetResponse, BatchReturns, InLoop, history
  <2> QED
    BY <1>0, <2>1
<1>7. CASE GetNull
  <2>1. ~inAgent' /\ pc' = caller /\ UNCHANGED <<caller, abandoned>> /\ pc = "batch"
    BY <1>7, AgentStep DEF GetNull, BatchReturns, InLoop, history
  <2> QED
    BY <2>1
<1>8. CASE Others \/ UNCHANGED vars
  <2>1. UNCHANGED results
    BY <1>8, OthersStep DEF vars, results
  <2> QED
    BY <1>0, <2>1, UnreadStep DEF results, history
<1> QED
  BY <1>1, <1>2, <1>3, <1>4, <1>5, <1>6, <1>7, <1>8, Cases

LEMMA SaidPreserved ==
  ASSUME ResultsInv, [Next]_vars
  PROVE  /\ said' = "no" => ~HasUnread' /\ ~inAgent'
         /\ said' = "yes" /\ ~abandoned' => HasUnread' /\ pc' \in {"app", "hasMore", "next"}
<1> USE DEF ResultsInv, ListsInv
<1>0. inAgent' => inAgent
  BY AgentStep
<1>1. CASE HasMoreReturns
  BY <1>0, <1>1, UnreadStep DEF HasMoreReturns, entryVars, referenceVars
<1>2. said' = "no" => said = "no" \/ HasMoreReturns
  BY Cases, OthersStep DEF HasMore, CallNext, Abandon, NextReturns, AbandonReturns, BatchFull,
     GetEntry, GetReference, GetResponse, GetNull, history, results, vars
<1>3. ASSUME said' = "yes", ~abandoned', ~HasMoreReturns
      PROVE  HasUnread' /\ pc' \in {"app", "hasMore", "next"}
  <2>1. said = "yes" /\ ~abandoned
    BY <1>3, Cases, OthersStep DEF HasMore, CallNext, Abandon, NextReturns, AbandonReturns,
       BatchFull, GetEntry, GetReference, GetResponse, GetNull, history, results, vars
  <2>2. HasUnread /\ pc \in {"app", "hasMore", "next"}
    BY <2>1
  <2>3. \/ HasMore \/ CallNext \/ Others \/ UNCHANGED vars
    <3>1. ~Abandon /\ ~NextReturns
      BY <1>3 DEF Abandon, NextReturns
    <3>2. ~AbandonReturns /\ ~BatchFull /\ ~GetEntry /\ ~GetReference /\ ~GetResponse /\ ~GetNull
      BY <2>2 DEF AbandonReturns, BatchFull, GetEntry, GetReference, GetResponse, GetNull, InLoop
    <3> QED
      BY <1>3, <3>1, <3>2, Cases
  <2>4. CASE HasMore
    BY <2>2, <2>4, UnreadStep DEF HasMore
  <2>5. CASE CallNext
    <3>1. resetVectors("next")
      BY <2>2, <2>5 DEF CallNext
    <3> QED
      BY <2>2, <3>1, ResetStep
  <2>6. CASE Others \/ UNCHANGED vars
    <3>1. UNCHANGED results
      BY <2>6, OthersStep DEF vars, results
    <3> QED
      BY <2>2, <3>1, UnreadStep DEF results
  <2> QED
    BY <2>3, <2>4, <2>5, <2>6
<1> QED
  BY <1>0, <1>1, <1>2, <1>3, UnreadStep

LEMMA InitResults == Init => ResultsInv
<1> SUFFICES ASSUME Init PROVE ResultsInv
  OBVIOUS
<1> USE QueueAssumption DEF Init, QueueInit, referenceCount
<1>0. /\ Len(<<>>) = 0 /\ <<>> \in Seq(Items)
      /\ <<>> \in Seq([kind : Kinds, number : 0..(MaxReplies + 1)])
  BY EmptySeq
<1>1. QueueInv
  <2>1. {acceptReplies, waitForReply, inAgent, adding, settling} \subseteq BOOLEAN
    OBVIOUS
  <2>2. answered \in 0..(MaxReplies + 1) /\ deciding \in 0..MaxCuts /\ telling \in 0..MaxCuts
    OBVIOUS
  <2>3. replies \in Seq([kind : Kinds, number : 0..(MaxReplies + 1)])
    BY <1>0
  <2>4. QueueTypeOK
    BY <2>1, <2>2, <2>3 DEF QueueTypeOK
  <2> QED
    BY <2>4 DEF QueueInv
<1>2. TypeOK
  <2>1. entries \in Seq(Items) /\ references \in Seq(Items)
    BY <1>0
  <2>2. given \in Seq(Items) /\ arrived \in Seq(Items)
    BY <1>0
  <2>3. entryCount \in 0..Len(entries) /\ entryIndex \in 0..entryCount
    BY <1>0
  <2>4. referenceIndex \in 0..referenceCount
    BY <1>0
  <2>5. completed \in BOOLEAN /\ abandoned \in BOOLEAN
    OBVIOUS
  <2>6. QueueTypeOK
    BY <1>1 DEF QueueInv
  <2> QED
    BY <2>1, <2>2, <2>3, <2>4, <2>5, <2>6 DEF TypeOK
<1>3. ListsInv
  BY <1>0 DEF ListsInv, HasUnread
<1> QED
  BY <1>1, <1>2, <1>3 DEF ResultsInv

LEMMA ResultsPreserved == ResultsInv /\ [Next]_vars => ResultsInv'
BY QueueStep, TypesPreserved, KindsPreserved, BatchPreserved, PlacesPreserved, SaidPreserved
   DEF ResultsInv, ListsInv, referenceCount

\* The types are right; no index is ever beyond the results it counts.
THEOREM Types == Spec => []TypeOK
<1>1. ResultsInv => TypeOK
  BY DEF ResultsInv
<1> QED
  BY InitResults, ResultsPreserved, <1>1, PTL DEF Spec

\* After a hasMore that said yes, next gives a result, whatever hasMore is called
\* again or the server does in between.
THEOREM Honest == Spec => HasMoreIsHonest
<1>1. ResultsInv /\ [Next]_vars =>
        [said = "yes" /\ ~abandoned /\ lastNext' # lastNext => lastNext' = "given"]_vars
  <2> SUFFICES ASSUME ResultsInv, [Next]_vars, said = "yes", ~abandoned, lastNext' # lastNext
               PROVE  lastNext' = "given"
    OBVIOUS
  <2>1. HasUnread
    BY DEF ResultsInv, ListsInv
  <2>2. CASE CallNext
    BY <2>1, <2>2 DEF CallNext
  <2>3. CASE NextReturns
    BY <2>1, <2>3 DEF NextReturns
  <2>4. CASE ~CallNext /\ ~NextReturns
    BY <2>4, Cases, OthersStep DEF HasMore, HasMoreReturns, Abandon, AbandonReturns, BatchFull,
       GetEntry, GetReference, GetResponse, GetNull, history, results, vars
  <2> QED
    BY <2>2, <2>3, <2>4
<1> QED
  BY InitResults, ResultsPreserved, <1>1, PTL DEF Spec, HasMoreIsHonest

-----------------------------------------------------------------------------
\* Of the first n that arrived, those of these kinds were given or are in the list
\* between `from' and `to', in the order in which they came ...
Ranked(arr, n, giv, list, from, to, kinds) ==
  \A p \in (from + 1)..to : list[p].kind \in kinds =>
    \E b \in 1..n :
      /\ arr[b] = list[p]
      /\ HowMany(arr, 0, b, kinds) = OfAll(giv, kinds) + HowMany(list, from, p, kinds)

\* ... and all of them.
Total(arr, n, giv, list, from, to, kinds) ==
  HowMany(arr, 0, n, kinds) = OfAll(giv, kinds) + HowMany(list, from, to, kinds)

\* More arrives.
LEMMA LineGrows ==
  ASSUME NEW arr \in Seq(Items), NEW x \in Items, NEW n \in 0..Len(arr), NEW giv, NEW list,
         NEW from \in Nat, NEW to \in Nat, NEW kinds
  PROVE  /\ Ranked(arr, n, giv, list, from, to, kinds)
              => Ranked(Append(arr, x), n, giv, list, from, to, kinds)
         /\ Total(arr, n, giv, list, from, to, kinds)
              => Total(Append(arr, x), n, giv, list, from, to, kinds)
<1>0. PICK new : new = Append(arr, x)
  OBVIOUS
<1>1. Len(arr) \in Nat /\ \A b \in 1..Len(arr) : new[b] = arr[b]
  BY <1>0, AppendProperties, LenProperties
<1>2. \A b \in 0..Len(arr) : HowMany(new, 0, b, kinds) = HowMany(arr, 0, b, kinds)
  <2>2. \A b \in 0..Len(arr) : HowMany(Append(arr, x), 0, b, kinds) = HowMany(arr, 0, b, kinds)
    BY CountKept, ZenonT(40)
  <2> QED
    BY <1>0, <2>2
<1>3. Total(arr, n, giv, list, from, to, kinds) => Total(new, n, giv, list, from, to, kinds)
  BY <1>2 DEF Total
<1>4. ASSUME Ranked(arr, n, giv, list, from, to, kinds),
             NEW p \in (from + 1)..to, list[p].kind \in kinds
      PROVE  \E b \in 1..n :
               /\ new[b] = list[p]
               /\ HowMany(new, 0, b, kinds) = OfAll(giv, kinds) + HowMany(list, from, p, kinds)
  <2>1. PICK b \in 1..n :
          /\ arr[b] = list[p]
          /\ HowMany(arr, 0, b, kinds) = OfAll(giv, kinds) + HowMany(list, from, p, kinds)
    BY <1>4 DEF Ranked
  <2>2. b \in 1..Len(arr) /\ b \in 0..Len(arr)
    BY <1>1
  <2>3. new[b] = arr[b] /\ HowMany(new, 0, b, kinds) = HowMany(arr, 0, b, kinds)
    BY <1>1, <1>2, <2>2
  <2> WITNESS b \in 1..n
  <2> QED
    BY <2>1, <2>3
<1> QED
  BY <1>0, <1>3, <1>4 DEF Ranked

\* One of another kind is taken from the queue.
LEMMA LineSkips ==
  ASSUME NEW arr, NEW n \in Nat, NEW giv, NEW list, NEW from, NEW to, NEW kinds
  PROVE  /\ \A m \in Nat : n <= m /\ Ranked(arr, n, giv, list, from, to, kinds)
              => Ranked(arr, m, giv, list, from, to, kinds)
         /\ arr[n + 1].kind \notin kinds /\ Total(arr, n, giv, list, from, to, kinds)
              => Total(arr, n + 1, giv, list, from, to, kinds)
<1>1. ASSUME NEW m \in Nat, n <= m, Ranked(arr, n, giv, list, from, to, kinds)
      PROVE  Ranked(arr, m, giv, list, from, to, kinds)
  <2>1. \A b \in 1..n : b \in 1..m
    BY <1>1
  <2> QED
    BY <1>1, <2>1 DEF Ranked
<1>2. ASSUME arr[n + 1].kind \notin kinds
      PROVE  HowMany(arr, 0, n + 1, kinds) = HowMany(arr, 0, n, kinds)
  <2>1. HowMany(arr, 0, n, kinds) \in Nat
    BY CountType
  <2>2. HowMany(arr, 0, n + 1, kinds) = HowMany(arr, 0, n, kinds) + 0
    BY <1>2, CountLast
  <2> QED
    BY <2>1, <2>2
<1> QED
  BY <1>1, <1>2 DEF Total

\* Counts depend on the part of a list that is counted.
LEMMA LineSame ==
  ASSUME NEW arr, NEW n, NEW giv, NEW list, NEW new, NEW from \in Nat, NEW to \in Nat, NEW kinds,
         \A p \in 1..to : new[p] = list[p]
  PROVE  /\ Ranked(arr, n, giv, list, from, to, kinds) => Ranked(arr, n, giv, new, from, to, kinds)
         /\ Total(arr, n, giv, list, from, to, kinds) => Total(arr, n, giv, new, from, to, kinds)
<1>1. ASSUME NEW p \in Nat, p <= to
      PROVE  HowMany(new, from, p, kinds) = HowMany(list, from, p, kinds)
  <2>1. \A j \in (from + 1)..p : new[j] = list[j]
    BY <1>1
  <2> QED
    BY <1>1, <2>1, CountSame
<1>2. \A p \in (from + 1)..to : p \in Nat /\ p <= to /\ new[p] = list[p]
  OBVIOUS
<1>3. HowMany(new, from, to, kinds) = HowMany(list, from, to, kinds)
  BY <1>1
<1>4. Total(arr, n, giv, list, from, to, kinds) => Total(arr, n, giv, new, from, to, kinds)
  BY <1>3 DEF Total
<1>5. \A p \in (from + 1)..to : HowMany(new, from, p, kinds) = HowMany(list, from, p, kinds)
  BY <1>1, <1>2
<1>6. Ranked(arr, n, giv, list, from, to, kinds) => Ranked(arr, n, giv, new, from, to, kinds)
  BY <1>2, <1>5 DEF Ranked
<1> QED
  BY <1>4, <1>6

\* One is taken from the queue into the list.
LEMMA LineTakes ==
  ASSUME NEW arr, NEW n \in Nat, NEW giv \in Seq(Items), NEW list \in Seq(Items),
         NEW from \in Nat, from <= Len(list), NEW kinds, arr[n + 1] \in Items,
         Ranked(arr, n, giv, list, from, Len(list), kinds),
         Total(arr, n, giv, list, from, Len(list), kinds)
  PROVE  LET new == Append(list, arr[n + 1])
         IN  /\ Ranked(arr, n + 1, giv, new, from, Len(list) + 1, kinds)
             /\ Total(arr, n + 1, giv, new, from, Len(list) + 1, kinds)
<1> DEFINE to == Len(list)
<1>0. PICK new : new = Append(list, arr[n + 1])
  OBVIOUS
<1>1. to \in Nat /\ new[to + 1] = arr[n + 1] /\ \A p \in 1..to : new[p] = list[p]
  BY <1>0, AppendProperties, LenProperties
<1>2. /\ Ranked(arr, n, giv, new, from, to, kinds) /\ Total(arr, n, giv, new, from, to, kinds)
      /\ Ranked(arr, n + 1, giv, new, from, to, kinds)
  <2>1. Ranked(arr, n, giv, new, from, to, kinds) /\ Total(arr, n, giv, new, from, to, kinds)
    BY <1>1, LineSame
  <2>2. n + 1 \in Nat /\ n <= n + 1
    OBVIOUS
  <2> QED
    BY <2>1, <2>2, LineSkips
<1>3. /\ HowMany(arr, 0, n + 1, kinds) =
           HowMany(arr, 0, n, kinds) + IF arr[n + 1].kind \in kinds THEN 1 ELSE 0
      /\ HowMany(new, from, to + 1, kinds) =
           HowMany(new, from, to, kinds) + IF arr[n + 1].kind \in kinds THEN 1 ELSE 0
  <2>1. HowMany(new, from, to + 1, kinds) =
          HowMany(new, from, to, kinds) + IF new[to + 1].kind \in kinds THEN 1 ELSE 0
    BY <1>1, CountLast
  <2>2. HowMany(arr, 0, n + 1, kinds) =
          HowMany(arr, 0, n, kinds) + IF arr[n + 1].kind \in kinds THEN 1 ELSE 0
    BY CountLast
  <2> QED
    BY <1>1, <2>1, <2>2
<1>4. /\ HowMany(arr, 0, n, kinds) \in Nat /\ HowMany(new, from, to, kinds) \in Nat
      /\ OfAll(giv, kinds) \in Nat
  BY <1>1, CountType, LenProperties DEF OfAll
<1>5. HowMany(arr, 0, n + 1, kinds) = OfAll(giv, kinds) + HowMany(new, from, to + 1, kinds)
  <2>1. HowMany(arr, 0, n, kinds) = OfAll(giv, kinds) + HowMany(new, from, to, kinds)
    BY <1>2 DEF Total
  <2> HIDE DEF to
  <2>2. CASE arr[n + 1].kind \in kinds
    BY <1>3, <1>4, <2>1, <2>2
  <2>3. CASE arr[n + 1].kind \notin kinds
    BY <1>3, <1>4, <2>1, <2>3
  <2> QED
    BY <2>2, <2>3
<1>6. ASSUME NEW p \in (from + 1)..(to + 1), new[p].kind \in kinds
      PROVE  \E b \in 1..(n + 1) :
               /\ arr[b] = new[p]
               /\ HowMany(arr, 0, b, kinds) = OfAll(giv, kinds) + HowMany(new, from, p, kinds)
  <2>1. CASE p = to + 1
    <3>1. n + 1 \in 1..(n + 1)
      OBVIOUS
    <3> QED
      BY <1>1, <1>5, <2>1, <3>1
  <2>2. CASE p # to + 1
    <3>1. p \in (from + 1)..to
      BY <1>1, <2>2
    <3> QED
      BY <1>2, <1>6, <3>1 DEF Ranked
  <2> QED
    BY <2>1, <2>2
<1> QED
  BY <1>0, <1>5, <1>6 DEF Ranked, Total

\* next gives the first of the list ...
LEMMA LineGives ==
  ASSUME NEW arr, NEW n, NEW giv \in Seq(Items), NEW list \in Seq(Items), NEW from \in Nat,
         NEW to \in 0..Len(list), from < to, NEW kinds
  PROVE  /\ Ranked(arr, n, giv, list, from, to, kinds)
              => Ranked(arr, n, Append(giv, list[from + 1]), list, from + 1, to, kinds)
         /\ Total(arr, n, giv, list, from, to, kinds)
              => Total(arr, n, Append(giv, list[from + 1]), list, from + 1, to, kinds)
<1>0. PICK new : new = Append(giv, list[from + 1])
  OBVIOUS
<1>1. to \in Nat /\ list[from + 1] \in Items /\ Len(giv) \in Nat
  <2>1. to \in Nat /\ from + 1 \in 1..Len(list)
    BY LenProperties
  <2> QED
    BY <2>1, ElementOfSeq, LenProperties
<1>2. OfAll(new, kinds) = OfAll(giv, kinds) + IF list[from + 1].kind \in kinds THEN 1 ELSE 0
  <2>1. 0 \in 0..Len(giv) /\ Len(new) = Len(giv) + 1
    BY <1>0, <1>1, AppendProperties
  <2>2. HowMany(new, 0, Len(giv) + 1, kinds) =
          HowMany(giv, 0, Len(giv), kinds) + IF list[from + 1].kind \in kinds THEN 1 ELSE 0
    BY <1>0, <1>1, <2>1, CountAppend
  <2> QED
    BY <2>1, <2>2 DEF OfAll
<1>3. OfAll(giv, kinds) \in Nat
  BY <1>1, CountType DEF OfAll
<1>4. ASSUME NEW p \in (from + 1)..to
      PROVE  OfAll(new, kinds) + HowMany(list, from + 1, p, kinds) =
               OfAll(giv, kinds) + HowMany(list, from, p, kinds)
  <2>1. p \in Nat /\ from < p /\ from + 1 \in Nat
    BY <1>1
  <2>2. HowMany(list, from + 1, p, kinds) \in Nat
    BY <2>1, CountType
  <2>3. HowMany(list, from, p, kinds) =
          HowMany(list, from + 1, p, kinds) + IF list[from + 1].kind \in kinds THEN 1 ELSE 0
    BY <2>1, CountFirst
  <2> QED
    BY <1>2, <1>3, <2>2, <2>3
<1>5. to \in (from + 1)..to /\ \A p \in ((from + 1) + 1)..to : p \in (from + 1)..to
  BY <1>1
<1>6. Total(arr, n, giv, list, from, to, kinds) => Total(arr, n, new, list, from + 1, to, kinds)
  BY <1>4, <1>5 DEF Total
<1>7. Ranked(arr, n, giv, list, from, to, kinds) => Ranked(arr, n, new, list, from + 1, to, kinds)
  BY <1>4, <1>5 DEF Ranked
<1> QED
  BY <1>0, <1>6, <1>7

\* ... or of another list.
LEMMA LineWaits ==
  ASSUME NEW arr, NEW n, NEW giv \in Seq(Items), NEW x \in Items, NEW list, NEW from, NEW to,
         NEW kinds, x.kind \notin kinds
  PROVE  /\ Ranked(arr, n, giv, list, from, to, kinds)
              => Ranked(arr, n, Append(giv, x), list, from, to, kinds)
         /\ Total(arr, n, giv, list, from, to, kinds)
              => Total(arr, n, Append(giv, x), list, from, to, kinds)
<1>1. OfAll(Append(giv, x), kinds) = OfAll(giv, kinds)
  <2>0. PICK new : new = Append(giv, x)
    OBVIOUS
  <2>1. 0 \in 0..Len(giv) /\ Len(new) = Len(giv) + 1 /\ Len(giv) \in Nat
    BY <2>0, AppendProperties, LenProperties
  <2>2. HowMany(giv, 0, Len(giv), kinds) \in Nat
    BY <2>1, CountType
  <2>3. HowMany(new, 0, Len(giv) + 1, kinds) = HowMany(giv, 0, Len(giv), kinds) + 0
    BY <2>0, <2>1, CountAppend
  <2> QED
    BY <2>0, <2>1, <2>2, <2>3 DEF OfAll
<1> QED
  BY <1>1 DEF Ranked, Total

\* A list that was read to its end is emptied.
LEMMA LineEmptied ==
  ASSUME NEW arr, NEW n, NEW giv, NEW list, NEW to \in Nat, NEW kinds
  PROVE  /\ Ranked(arr, n, giv, <<>>, 0, 0, kinds)
         /\ Total(arr, n, giv, list, to, to, kinds) => Total(arr, n, giv, <<>>, 0, 0, kinds)
<1>1. HowMany(list, to, to, kinds) = 0 /\ HowMany(<<>>, 0, 0, kinds) = 0
  BY CountEmpty
<1>2. (0 + 1)..0 = {}
  OBVIOUS
<1> QED
  BY <1>1, <1>2 DEF Ranked, Total

\* What was given came in this order.
Ordered(arr, giv, kinds) ==
  \A a \in DOMAIN giv : giv[a].kind \in kinds =>
    \E b \in DOMAIN arr : arr[b] = giv[a] /\ HowMany(arr, 0, b, kinds) = HowMany(giv, 0, a, kinds)

LEMMA OrderGrows ==
  ASSUME NEW arr \in Seq(Items), NEW x \in Items, NEW giv, NEW kinds, Ordered(arr, giv, kinds)
  PROVE  Ordered(Append(arr, x), giv, kinds)
<1>0. PICK new : new = Append(arr, x)
  OBVIOUS
<1>1. /\ \A b \in DOMAIN arr : b \in DOMAIN new /\ new[b] = arr[b] /\ b \in 0..Len(arr)
      /\ 0 \in 0..Len(arr)
  BY <1>0, AppendProperties, LenProperties
<1>2. \A b \in 0..Len(arr) : HowMany(Append(arr, x), 0, b, kinds) = HowMany(arr, 0, b, kinds)
  BY CountKept, ZenonT(40)
<1>3. \A b \in DOMAIN arr : HowMany(new, 0, b, kinds) = HowMany(arr, 0, b, kinds)
  BY <1>0, <1>1, <1>2
<1> QED
  BY <1>0, <1>1, <1>3 DEF Ordered

LEMMA OrderGives ==
  ASSUME NEW arr \in Seq(Items), NEW giv \in Seq(Items), NEW x \in Items, NEW kinds,
         Ordered(arr, giv, kinds),
         x.kind \in kinds => \E b \in DOMAIN arr :
           arr[b] = x /\ HowMany(arr, 0, b, kinds) = OfAll(giv, kinds) + 1
  PROVE  Ordered(arr, Append(giv, x), kinds)
<1>0. PICK new : new = Append(giv, x)
  OBVIOUS
<1> DEFINE n == Len(giv)
<1>1. /\ n \in Nat /\ DOMAIN giv = 1..n /\ DOMAIN new = 1..(n + 1) /\ new[n + 1] = x
      /\ \A a \in 1..n : new[a] = giv[a]
      /\ 0 \in 0..n
  BY <1>0, AppendProperties, LenProperties
<1>2. /\ \A a \in 0..n : HowMany(Append(giv, x), 0, a, kinds) = HowMany(giv, 0, a, kinds)
      /\ HowMany(Append(giv, x), 0, n + 1, kinds) =
           HowMany(giv, 0, n, kinds) + IF x.kind \in kinds THEN 1 ELSE 0
  BY CountKept
<1>3. ASSUME NEW a \in DOMAIN new, new[a].kind \in kinds
      PROVE  \E b \in DOMAIN arr :
               arr[b] = new[a] /\ HowMany(arr, 0, b, kinds) = HowMany(new, 0, a, kinds)
  <2>1. CASE a = n + 1
    <3>1. x.kind \in kinds /\ new[a] = x
      BY <1>1, <1>3, <2>1
    <3>2. HowMany(new, 0, a, kinds) = OfAll(giv, kinds) + 1
      BY <1>0, <1>2, <2>1, <3>1 DEF OfAll
    <3> QED
      BY <3>1, <3>2
  <2>2. CASE a # n + 1
    <3>1. a \in 1..n /\ a \in 0..n
      BY <1>1, <2>2
    <3>2. new[a] = giv[a] /\ HowMany(new, 0, a, kinds) = HowMany(giv, 0, a, kinds)
      BY <1>0, <1>1, <1>2, <3>1
    <3> QED
      BY <1>1, <1>3, <3>1, <3>2 DEF Ordered
  <2> QED
    BY <2>1, <2>2
<1> QED
  BY <1>0, <1>3 DEF Ordered

LEMMA FirstIsNext ==
  ASSUME NEW arr \in Seq(Items), NEW n \in 0..Len(arr), NEW giv, NEW list, NEW from \in Nat,
         NEW to \in Nat, from < to, NEW kinds, Ranked(arr, n, giv, list, from, to, kinds),
         list[from + 1].kind \in kinds
  PROVE  \E b \in DOMAIN arr :
           arr[b] = list[from + 1] /\ HowMany(arr, 0, b, kinds) = OfAll(giv, kinds) + 1
<1>1. from + 1 \in (from + 1)..to /\ from <= from
  OBVIOUS
<1>2. HowMany(list, from, from + 1, kinds) = 1
  <2>1. HowMany(list, from, from, kinds) = 0
    BY <1>1, CountEmpty
  <2>2. HowMany(list, from, from + 1, kinds) = HowMany(list, from, from, kinds) + 1
    BY <1>1, CountLast
  <2> QED
    BY <2>1, <2>2
<1>3. PICK b \in 1..n :
        /\ arr[b] = list[from + 1]
        /\ HowMany(arr, 0, b, kinds) = OfAll(giv, kinds) + HowMany(list, from, from + 1, kinds)
  BY <1>1 DEF Ranked
<1>4. b \in DOMAIN arr
  BY LenProperties
<1> QED
  BY <1>2, <1>3, <1>4

Errors == {"failure", "referral", "closed"}

taken == Len(arrived) - Len(replies)

\* What is in the queue arrived last.
Pending ==
  /\ Len(replies) <= Len(arrived)
  /\ \A q \in 1..Len(replies) : arrived[taken + q] = replies[q]

Lined(list, from, to, kinds) ==
  /\ Ranked(arrived, taken, given, list, from, to, kinds)
  /\ ~abandoned => Total(arrived, taken, given, list, from, to, kinds)

OrderInv ==
  /\ Pending
  /\ \A a \in DOMAIN given : given[a].kind \in Kinds \ {"success"}
  /\ ~referralFollowing =>
       /\ Lined(references, referenceIndex, Len(references), {"reference"})
       /\ Lined(entries, entryIndex, entryCount, {"entry"})
       /\ Lined(entries, entryIndex, entryCount, Errors)
       /\ GivenInOrder

\* Where a step leaves what arrived and what of it was taken.
LEMMA QueueCases ==
  ASSUME ResultsInv, Pending, [Next]_vars
  PROVE  /\ Pending' /\ taken \in 0..Len(arrived) /\ taken' \in 0..Len(arrived')
         /\ \/ /\ UNCHANGED results /\ taken' = taken
               /\ \/ UNCHANGED arrived
                  \/ \E x \in Items : arrived' = Append(arrived, x)
            \/ /\ GetEntry \/ GetReference \/ GetResponse
               /\ UNCHANGED <<arrived, given, abandoned>> /\ ~abandoned
               /\ taken' = taken + 1
               /\ arrived[taken + 1] = Head(replies) /\ Head(replies) \in Items
            \/ /\ Abandon
               /\ UNCHANGED <<arrived, given>> /\ abandoned' /\ taken <= taken'
            \/ /\ \/ HasMore \/ CallNext \/ HasMoreReturns \/ NextReturns \/ AbandonReturns
                  \/ BatchFull \/ GetNull
               /\ UNCHANGED <<arrived, abandoned>> /\ taken' = taken
<1>0. /\ arrived \in Seq(Items) /\ Len(arrived) \in Nat
      /\ replies \in Seq(Items) /\ Len(replies) \in Nat /\ Len(<<>>) = 0
      /\ Len(replies) <= Len(arrived)
      /\ \A q \in 1..Len(replies) : arrived[taken + q] = replies[q]
  <2>1. [kind : Kinds, number : 0..(MaxReplies + 1)] \subseteq Items
    BY QueueAssumption DEF Items, Kinds
  <2> QED
    BY <2>1, SeqMonotonic, LenProperties DEF ResultsInv, TypeOK, QueueTypeOK, Pending
<1>1. taken \in 0..Len(arrived)
  BY <1>0 DEF taken
<1>2. CASE Others
  <2>1. CASE UNCHANGED <<replies, arrived>>
    <3>1. Pending' /\ taken' = taken
      BY <1>0, <2>1 DEF Pending, taken
    <3> QED
      BY <1>1, <1>2, <2>1, <3>1, OthersStep
  <2>2. ASSUME NEW x \in Items, replies' = Append(replies, x), arrived' = Append(arrived, x)
        PROVE  Pending' /\ taken' = taken /\ taken \in 0..Len(arrived')
    <3>1. /\ Len(replies') = Len(replies) + 1 /\ replies'[Len(replies) + 1] = x
          /\ \A q \in 1..Len(replies) : replies'[q] = replies[q]
      BY <1>0, <2>2, AppendProperties
    <3>2. /\ Len(arrived') = Len(arrived) + 1 /\ arrived'[Len(arrived) + 1] = x
          /\ \A b \in 1..Len(arrived) : arrived'[b] = arrived[b]
      BY <1>0, <2>2, AppendProperties
    <3>3. taken' = taken
      BY <1>0, <3>1, <3>2 DEF taken
    <3>4. ASSUME NEW q \in 1..(Len(replies) + 1)
          PROVE  arrived'[taken + q] = replies'[q]
      <4>1. CASE q = Len(replies) + 1
        <5>1. taken + q = Len(arrived) + 1
          BY <1>0, <4>1 DEF taken
        <5> QED
          BY <3>1, <3>2, <4>1, <5>1
      <4>2. CASE q # Len(replies) + 1
        <5>1. q \in 1..Len(replies) /\ taken + q \in 1..Len(arrived)
          BY <1>0, <4>2 DEF taken
        <5> QED
          BY <1>0, <3>1, <3>2, <5>1
      <4> QED
        BY <4>1, <4>2
    <3> QED
      BY <1>0, <1>1, <3>1, <3>2, <3>3, <3>4 DEF Pending
  <2> QED
    BY <1>1, <1>2, <2>1, <2>2, OthersStep
<1>3. CASE (GetEntry \/ GetReference \/ GetResponse) /\ UNCHANGED arrived
  <2>1. TakeReply /\ UNCHANGED <<given, abandoned>>
    BY <1>3 DEF GetEntry, GetReference, GetResponse, history
  <2>2. /\ replies # <<>> /\ replies' = Tail(replies) /\ Head(replies) \in Items /\ inAgent
    BY <2>1, TakeStep
  <2>3. ~abandoned
    BY <2>2 DEF ResultsInv, ListsInv
  <2>4. /\ Len(replies) # 0 /\ Len(replies') = Len(replies) - 1
        /\ Head(replies) = replies[1]
        /\ \A q \in 1..(Len(replies) - 1) : replies'[q] = replies[q + 1]
    BY <1>0, <2>2, HeadTailProperties, EmptySeq
  <2>5. taken' = taken + 1 /\ taken' \in 0..Len(arrived')
    BY <1>0, <1>3, <2>4 DEF taken
  <2>6. arrived[taken + 1] = Head(replies)
    BY <1>0, <2>4
  <2>7. ASSUME NEW q \in 1..(Len(replies) - 1)
        PROVE  arrived[(taken + 1) + q] = replies'[q]
    <3>1. q + 1 \in 1..Len(replies) /\ taken + (q + 1) = (taken + 1) + q
      BY <1>0, <1>1
    <3> QED
      BY <1>0, <2>4, <3>1
  <2>8. Pending'
    BY <1>0, <1>3, <2>4, <2>5, <2>7 DEF Pending
  <2> QED
    BY <1>1, <1>3, <2>1, <2>2, <2>3, <2>5, <2>6, <2>8
<1>4. CASE Abandon /\ UNCHANGED arrived
  <2>1. replies' = <<>> /\ UNCHANGED given /\ abandoned'
    BY <1>4 DEF Abandon, AbandonAll, Leave
  <2>2. taken' = Len(arrived)
    BY <1>0, <1>4, <2>1 DEF taken
  <2>3. Pending'
    BY <1>0, <1>4, <2>1 DEF Pending
  <2>4. taken <= taken' /\ taken' \in 0..Len(arrived')
    BY <1>0, <1>1, <1>4, <2>2
  <2> QED
    BY <1>1, <1>4, <2>1, <2>3, <2>4
<1>5. CASE (\/ HasMore \/ CallNext \/ HasMoreReturns \/ NextReturns \/ AbandonReturns
            \/ BatchFull \/ GetNull) /\ UNCHANGED arrived
  <2>1. UNCHANGED replies
    BY <1>5 DEF HasMore, CallNext, HasMoreReturns, NextReturns, AbandonReturns, BatchFull, GetNull,
       queue, TakeNull, Leave
  <2>2. UNCHANGED abandoned
    BY <1>5 DEF HasMore, CallNext, HasMoreReturns, NextReturns, AbandonReturns, BatchFull, GetNull,
       history
  <2>3. taken' = taken /\ Pending'
    BY <1>0, <1>5, <2>1 DEF taken, Pending
  <2> QED
    BY <1>1, <1>5, <2>2, <2>3
<1>6. CASE UNCHANGED vars
  <2>1. UNCHANGED <<arrived, replies>> /\ UNCHANGED results
    BY <1>6 DEF vars, queue, results
  <2>2. taken' = taken /\ Pending'
    BY <1>0, <2>1 DEF taken, Pending
  <2> QED
    BY <1>1, <2>1, <2>2
<1> QED
  BY <1>2, <1>3, <1>4, <1>5, <1>6, Cases

LEMMA LinedTypes ==
  ASSUME ResultsInv
  PROVE  /\ arrived \in Seq(Items) /\ given \in Seq(Items)
         /\ references \in Seq(Items) /\ Len(references) \in Nat
         /\ referenceIndex \in Nat /\ referenceIndex <= Len(references)
         /\ entries \in Seq(Items) /\ Len(entries) \in Nat
         /\ entryCount \in Nat /\ entryCount <= Len(entries)
         /\ entryIndex \in Nat /\ entryIndex <= entryCount
         /\ \A p \in 1..entryCount : entries[p].kind \in Kinds \ {"success", "reference"}
         /\ \A p \in 1..Len(references) : references[p].kind = "reference"
         /\ \A p \in 1..Len(references) : references[p] \in Items
         /\ \A p \in 1..entryCount : entries[p] \in Items
<1>1. /\ arrived \in Seq(Items) /\ given \in Seq(Items)
      /\ references \in Seq(Items) /\ Len(references) \in Nat
      /\ referenceIndex \in 0..Len(references)
      /\ entries \in Seq(Items) /\ Len(entries) \in Nat
      /\ entryCount \in 0..Len(entries) /\ entryIndex \in 0..entryCount
  BY LenProperties DEF ResultsInv, TypeOK, referenceCount
<1>2. /\ \A p \in 1..entryCount : entries[p].kind \in Kinds \ {"success", "reference"}
      /\ \A p \in 1..Len(references) : references[p].kind = "reference"
  BY DEF ResultsInv, ListsInv, referenceCount
<1>3. \A p \in 1..Len(references) : references[p] \in Items
  BY <1>1, ElementOfSeq
<1>4. \A p \in 1..entryCount : p \in 1..Len(entries)
  BY <1>1
<1>5. \A p \in 1..Len(entries) : entries[p] \in Items
  BY <1>1, ElementOfSeq
<1> QED
  BY <1>1, <1>2, <1>3, <1>4, <1>5

\* The references stay lined up ...
LEMMA ReferencesLined ==
  ASSUME ResultsInv, Pending, [Next]_vars, ~referralFollowing,
         Lined(references, referenceIndex, Len(references), {"reference"})
  PROVE  Lined(references, referenceIndex, Len(references), {"reference"})'
<1> DEFINE K == {"reference"}
           R(arr, n, giv, list, from, to) == Ranked(arr, n, giv, list, from, to, K)
           T(arr, n, giv, list, from, to) == Total(arr, n, giv, list, from, to, K)
<1>0. /\ R(arrived, taken, given, references, referenceIndex, Len(references))
      /\ ~abandoned => T(arrived, taken, given, references, referenceIndex, Len(references))
      /\ taken \in 0..Len(arrived) /\ taken' \in 0..Len(arrived') /\ taken \in Nat /\ Len(<<>>) = 0
  BY QueueCases, LinedTypes, LenProperties DEF Lined
<1> SUFFICES
      /\ R(arrived', taken', given', references', referenceIndex', Len(references'))
      /\ ~abandoned' => T(arrived', taken', given', references', referenceIndex', Len(references'))
  BY DEF Lined
<1> HIDE DEF K
<1>1. CASE UNCHANGED results /\ taken' = taken
  <2>1. UNCHANGED <<references, referenceIndex, given, abandoned>>
    BY <1>1 DEF results, referenceVars, history
  <2>2. CASE UNCHANGED arrived
    BY <1>0, <1>1, <2>1, <2>2
  <2>3. ASSUME NEW x \in Items, arrived' = Append(arrived, x)
        PROVE  /\ R(arrived', taken, given, references, referenceIndex, Len(references))
               /\ ~abandoned => T(arrived', taken, given, references, referenceIndex, Len(references))
    BY <1>0, <2>3, LineGrows, LinedTypes
  <2>4. UNCHANGED arrived \/ \E x \in Items : arrived' = Append(arrived, x)
    BY <1>1, QueueCases, OthersStep, Cases DEF vars
  <2> QED
    BY <1>1, <2>1, <2>2, <2>3, <2>4
<1>2. CASE /\ GetEntry \/ GetReference \/ GetResponse
           /\ UNCHANGED <<arrived, given, abandoned>> /\ ~abandoned
           /\ taken' = taken + 1
           /\ arrived[taken + 1] = Head(replies) /\ Head(replies) \in Items
  <2>1. CASE GetReference
    <3>1. references' = Append(references, arrived[taken + 1]) /\ UNCHANGED referenceIndex
      BY <1>2, <2>1 DEF GetReference
    <3>2. Len(references') = Len(references) + 1
      BY <1>2, <3>1, AppendProperties, LinedTypes
    <3>3. /\ R(arrived, taken + 1, given, references', referenceIndex, Len(references) + 1)
          /\ T(arrived, taken + 1, given, references', referenceIndex, Len(references) + 1)
      BY <1>0, <1>2, <3>1, LineTakes, LinedTypes
    <3> QED
      BY <1>2, <3>1, <3>2, <3>3
  <2>2. CASE GetEntry \/ GetResponse
    <3>1. UNCHANGED <<references, referenceIndex>> /\ Head(replies).kind # "reference"
      BY <2>2 DEF GetEntry, GetResponse, referenceVars, Result
    <3>2. arrived[taken + 1].kind \notin K
      BY <1>2, <3>1 DEF K
    <3>3. taken + 1 \in Nat /\ taken <= taken + 1
      BY <1>0
    <3>4. /\ R(arrived, taken + 1, given, references, referenceIndex, Len(references))
          /\ T(arrived, taken + 1, given, references, referenceIndex, Len(references))
      BY <1>0, <1>2, <3>2, <3>3, LineSkips
    <3> QED
      BY <1>2, <3>1, <3>4
  <2> QED
    BY <1>2, <2>1, <2>2
<1>3. CASE Abandon /\ UNCHANGED <<arrived, given>> /\ abandoned' /\ taken <= taken'
  <2>1. taken' \in Nat
    BY <1>0
  <2>2. R(arrived, taken', given, references, referenceIndex, Len(references))
    BY <1>0, <1>3, <2>1, LineSkips
  <2>3. UNCHANGED referenceVars \/ (references' = <<>> /\ referenceIndex' = 0)
    <3>1. resetVectors("abandon")
      BY <1>3 DEF Abandon
    <3> QED
      BY <3>1, ResetStep
  <2>4. R(arrived, taken', given, <<>>, 0, 0)
    BY LineEmptied
  <2> QED
    BY <1>0, <1>3, <2>2, <2>3, <2>4 DEF referenceVars
<1>4. CASE NextReturns /\ UNCHANGED <<arrived, abandoned>> /\ taken' = taken
  <2>1. UNCHANGED references
    BY <1>4 DEF NextReturns
  <2>2. CASE /\ referenceIndex < Len(references) /\ referenceIndex' = referenceIndex + 1
             /\ given' = Append(given, references[referenceIndex + 1])
    <3>1. /\ R(arrived, taken, given', references, referenceIndex + 1, Len(references))
          /\ ~abandoned => T(arrived, taken, given', references, referenceIndex + 1, Len(references))
      <4>1. Len(references) \in 0..Len(references)
        BY LinedTypes
      <4>2. /\ R(arrived, taken, Append(given, references[referenceIndex + 1]), references,
                 referenceIndex + 1, Len(references))
            /\ ~abandoned => T(arrived, taken, Append(given, references[referenceIndex + 1]),
                               references, referenceIndex + 1, Len(references))
        BY <1>0, <2>2, <4>1, LineGives, LinedTypes
      <4> QED
        BY <2>2, <4>2, Zenon
    <3> QED
      BY <1>4, <2>1, <2>2, <3>1
  <2>3. CASE /\ entryIndex < entryCount /\ UNCHANGED referenceIndex
             /\ given' = Append(given, entries[entryIndex + 1])
    <3>1. entryIndex + 1 \in 1..entryCount
      BY <2>3, LinedTypes
    <3>2. entries[entryIndex + 1] \in Items /\ entries[entryIndex + 1].kind \notin K
      BY <3>1, LinedTypes DEF K
    <3>3. /\ R(arrived, taken, given', references, referenceIndex, Len(references))
          /\ ~abandoned => T(arrived, taken, given', references, referenceIndex, Len(references))
      BY <1>0, <2>3, <3>2, LineWaits, LinedTypes
    <3> QED
      BY <1>4, <2>1, <2>3, <3>3
  <2>4. CASE UNCHANGED <<given, referenceIndex>>
    BY <1>0, <1>4, <2>1, <2>4
  <2> QED
    BY <1>4, <2>2, <2>3, <2>4 DEF NextReturns, referenceCount
<1>5. CASE /\ HasMore \/ CallNext \/ HasMoreReturns \/ AbandonReturns \/ BatchFull \/ GetNull
           /\ UNCHANGED <<arrived, abandoned>> /\ taken' = taken
  <2>1. UNCHANGED given
    BY <1>5 DEF HasMore, CallNext, HasMoreReturns, AbandonReturns, BatchFull, GetNull, history
  <2>2. CASE UNCHANGED <<references, referenceIndex>>
    BY <1>0, <1>5, <2>1, <2>2
  <2>3. CASE referenceIndex = Len(references) /\ references' = <<>> /\ referenceIndex' = 0
    <3>1. /\ R(arrived, taken, given, <<>>, 0, 0)
          /\ ~abandoned => T(arrived, taken, given, <<>>, 0, 0)
      BY <1>0, <2>3, LineEmptied, LinedTypes
    <3> QED
      BY <1>0, <1>5, <2>1, <2>3, <3>1
  <2>4. ~NextReturns /\ ~GetReference
    BY <1>5 DEF HasMore, CallNext, HasMoreReturns, AbandonReturns, BatchFull, GetNull, NextReturns,
       GetReference, InLoop, TakeNull, TakeReply
  <2> QED
    BY <2>2, <2>3, <2>4, ReferencesStep DEF referenceVars
<1> QED
  BY <1>1, <1>2, <1>3, <1>4, <1>5, QueueCases

\* ... and so do the entries and the errors, which share a list.
LEMMA EntriesLined ==
  ASSUME ResultsInv, Pending, [Next]_vars, ~referralFollowing,
         NEW K, "success" \notin K, "reference" \notin K,
         Lined(entries, entryIndex, entryCount, K)
  PROVE  Lined(entries, entryIndex, entryCount, K)'
<1> DEFINE R(arr, n, giv, list, from, to) == Ranked(arr, n, giv, list, from, to, K)
           T(arr, n, giv, list, from, to) == Total(arr, n, giv, list, from, to, K)
<1>0. /\ R(arrived, taken, given, entries, entryIndex, entryCount)
      /\ ~abandoned => T(arrived, taken, given, entries, entryIndex, entryCount)
      /\ taken \in 0..Len(arrived) /\ taken' \in 0..Len(arrived') /\ taken \in Nat
  BY QueueCases, LinedTypes, LenProperties DEF Lined
<1> SUFFICES
      /\ R(arrived', taken', given', entries', entryIndex', entryCount')
      /\ ~abandoned' => T(arrived', taken', given', entries', entryIndex', entryCount')
  BY DEF Lined
<1>1. CASE UNCHANGED results /\ taken' = taken
  <2>1. UNCHANGED <<entries, entryIndex, entryCount, given, abandoned>>
    BY <1>1 DEF results, entryVars, history
  <2>2. CASE UNCHANGED arrived
    BY <1>0, <1>1, <2>1, <2>2
  <2>3. ASSUME NEW x \in Items, arrived' = Append(arrived, x)
        PROVE  /\ R(arrived', taken, given, entries, entryIndex, entryCount)
               /\ ~abandoned => T(arrived', taken, given, entries, entryIndex, entryCount)
    BY <1>0, <2>3, LineGrows, LinedTypes
  <2>4. UNCHANGED arrived \/ \E x \in Items : arrived' = Append(arrived, x)
    BY <1>1, QueueCases, OthersStep, Cases DEF vars
  <2> QED
    BY <1>1, <2>1, <2>2, <2>3, <2>4
<1>2. CASE /\ GetEntry \/ GetReference \/ GetResponse
           /\ UNCHANGED <<arrived, given, abandoned>> /\ ~abandoned
           /\ taken' = taken + 1
           /\ arrived[taken + 1] = Head(replies) /\ Head(replies) \in Items
  <2>1. CASE AddEntry(Head(replies)) /\ UNCHANGED entryIndex
    <3>1. entries' = Append(entries, arrived[taken + 1]) /\ entryCount' = entryCount + 1
      BY <1>2, <2>1 DEF AddEntry
    <3>2. entryCount = Len(entries)
      BY <1>2, TakeStep DEF GetEntry, GetReference, GetResponse
    <3>3. /\ R(arrived, taken, given, entries, entryIndex, Len(entries))
          /\ T(arrived, taken, given, entries, entryIndex, Len(entries))
      BY <1>0, <1>2, <3>2
    <3>4. arrived[taken + 1] \in Items
      BY <1>2
    <3>5. /\ R(arrived, taken + 1, given, Append(entries, arrived[taken + 1]), entryIndex, Len(entries) + 1)
          /\ T(arrived, taken + 1, given, Append(entries, arrived[taken + 1]), entryIndex, Len(entries) + 1)
      BY <1>0, <3>2, <3>3, <3>4, LineTakes, LinedTypes
    <3>6. entryCount' = Len(entries) + 1 /\ UNCHANGED <<arrived, given, abandoned, entryIndex>>
      BY <1>2, <2>1, <3>1, <3>2
    <3> QED
      BY <1>2, <3>1, <3>5, <3>6
  <2>2. CASE Head(replies).kind \in {"success", "reference"} /\ UNCHANGED entryVars
    <3>1. arrived[taken + 1].kind \notin K
      BY <1>2, <2>2
    <3>2. taken + 1 \in Nat /\ taken <= taken + 1
      BY <1>0
    <3>3. /\ R(arrived, taken + 1, given, entries, entryIndex, entryCount)
          /\ T(arrived, taken + 1, given, entries, entryIndex, entryCount)
      BY <1>0, <1>2, <3>1, <3>2, LineSkips
    <3> QED
      BY <1>2, <2>2, <3>3 DEF entryVars
  <2>3. \/ AddEntry(Head(replies)) /\ UNCHANGED entryIndex
        \/ Head(replies).kind \in {"success", "reference"} /\ UNCHANGED entryVars
    <3>1. CASE GetEntry
      BY <3>1 DEF GetEntry
    <3>2. CASE GetReference
      BY <3>2 DEF GetReference
    <3>3. CASE GetResponse
      BY <3>3 DEF GetResponse, entryVars
    <3> QED
      BY <1>2, <3>1, <3>2, <3>3
  <2> QED
    BY <2>1, <2>2, <2>3
<1>3. CASE Abandon /\ UNCHANGED <<arrived, given>> /\ abandoned' /\ taken <= taken'
  <2>1. taken' \in Nat
    BY <1>0
  <2>2. R(arrived, taken', given, entries, entryIndex, entryCount)
    BY <1>0, <1>3, <2>1, LineSkips
  <2>3. UNCHANGED entryVars \/ (entries' = <<>> /\ entryIndex' = 0 /\ entryCount' = 0)
    <3>1. resetVectors("abandon")
      BY <1>3 DEF Abandon
    <3> QED
      BY <3>1, ResetStep
  <2>4. R(arrived, taken', given, <<>>, 0, 0)
    BY LineEmptied
  <2> QED
    BY <1>0, <1>3, <2>2, <2>3, <2>4 DEF entryVars
<1>4. CASE NextReturns /\ UNCHANGED <<arrived, abandoned>> /\ taken' = taken
  <2>1. UNCHANGED <<entries, entryCount>>
    BY <1>4 DEF NextReturns, entryVars
  <2>2. CASE /\ entryIndex < entryCount /\ entryIndex' = entryIndex + 1
             /\ given' = Append(given, entries[entryIndex + 1])
    <3>1. entryCount \in 0..Len(entries)
      BY LinedTypes
    <3>2. /\ R(arrived, taken, Append(given, entries[entryIndex + 1]), entries, entryIndex + 1, entryCount)
          /\ ~abandoned =>
               T(arrived, taken, Append(given, entries[entryIndex + 1]), entries, entryIndex + 1, entryCount)
      BY <1>0, <2>2, <3>1, LineGives, LinedTypes
    <3>3. /\ R(arrived, taken, given', entries, entryIndex + 1, entryCount)
          /\ ~abandoned => T(arrived, taken, given', entries, entryIndex + 1, entryCount)
      BY <2>2, <3>2, Zenon
    <3> QED
      BY <1>4, <2>1, <2>2, <3>3
  <2>3. CASE /\ referenceIndex < Len(references) /\ UNCHANGED entryIndex
             /\ given' = Append(given, references[referenceIndex + 1])
    <3>1. referenceIndex + 1 \in 1..Len(references)
      BY <2>3, LinedTypes
    <3>2. references[referenceIndex + 1] \in Items /\ references[referenceIndex + 1].kind \notin K
      BY <3>1, LinedTypes
    <3>3. /\ R(arrived, taken, given', entries, entryIndex, entryCount)
          /\ ~abandoned => T(arrived, taken, given', entries, entryIndex, entryCount)
      BY <1>0, <2>3, <3>2, LineWaits, LinedTypes
    <3> QED
      BY <1>4, <2>1, <2>3, <3>3
  <2>4. CASE UNCHANGED <<given, entryIndex>>
    BY <1>0, <1>4, <2>1, <2>4
  <2> QED
    BY <1>4, <2>2, <2>3, <2>4 DEF NextReturns, referenceCount, entryVars
<1>5. CASE /\ HasMore \/ CallNext \/ HasMoreReturns \/ AbandonReturns \/ BatchFull \/ GetNull
           /\ UNCHANGED <<arrived, abandoned>> /\ taken' = taken
  <2>1. UNCHANGED given
    BY <1>5 DEF HasMore, CallNext, HasMoreReturns, AbandonReturns, BatchFull, GetNull, history
  <2>2. CASE UNCHANGED entryVars
    BY <1>0, <1>5, <2>1, <2>2 DEF entryVars
  <2>3. CASE entryIndex = entryCount /\ entries' = <<>> /\ entryIndex' = 0 /\ entryCount' = 0
    <3>1. /\ R(arrived, taken, given, <<>>, 0, 0)
          /\ ~abandoned => T(arrived, taken, given, <<>>, 0, 0)
      BY <1>0, <2>3, LineEmptied, LinedTypes
    <3> QED
      BY <1>0, <1>5, <2>1, <2>3, <3>1
  <2>4. CASE entries' = Append(entries, Timeout) /\ UNCHANGED <<entryIndex, entryCount>>
    <3>1. Timeout \in Items
      BY QueueAssumption DEF Timeout, Items
    <3>2. \A p \in 1..Len(entries) : entries'[p] = entries[p]
      BY <2>4, <3>1, AppendProperties, LinedTypes
    <3>3. \A p \in 1..entryCount : entries'[p] = entries[p]
      BY <3>2, LinedTypes
    <3>4. /\ R(arrived, taken, given, entries', entryIndex, entryCount)
          /\ ~abandoned => T(arrived, taken, given, entries', entryIndex, entryCount)
      BY <1>0, <3>3, LineSame, LinedTypes
    <3> QED
      BY <1>5, <2>1, <2>4, <3>4
  <2>5. ~NextReturns
    BY <1>5 DEF HasMore, CallNext, HasMoreReturns, AbandonReturns, BatchFull, GetNull, NextReturns,
       InLoop
  <2>6. CASE TakeReply /\ AddEntry(Head(replies)) /\ UNCHANGED entryIndex
    <3>1. GetNull \/ UNCHANGED <<queue, entryCount>> \/ \E call : resetVectors(call) /\ UNCHANGED queue
      BY <1>5 DEF HasMore, CallNext, HasMoreReturns, AbandonReturns, BatchFull, entryVars
    <3>2. ~GetNull
      BY <2>6 DEF TakeReply, GetNull, TakeNull
    <3>3. replies' # replies
      <4>1. replies \in Seq(Items) /\ replies # <<>> /\ replies' = Tail(replies)
        BY <2>6, TakeStep
      <4>2. Len(replies') = Len(replies) - 1 /\ Len(replies) \in Nat
        BY <4>1, HeadTailProperties, LenProperties
      <4> QED
        BY <4>2
    <3> QED
      BY <3>1, <3>2, <3>3 DEF queue
  <2> QED
    BY <2>2, <2>3, <2>4, <2>5, <2>6, EntriesStep
<1> QED
  BY <1>1, <1>2, <1>3, <1>4, <1>5, QueueCases

\* What next gives is the first of the list it comes from.
LEMMA OrderKept ==
  ASSUME ResultsInv, Pending, [Next]_vars, NEW K, Ordered(arrived, given, K),
         "reference" \in K => Ranked(arrived, taken, given, references, referenceIndex, Len(references), K),
         K # {"reference"} => Ranked(arrived, taken, given, entries, entryIndex, entryCount, K)
  PROVE  Ordered(arrived', given', K)
<1>0. taken \in 0..Len(arrived)
  BY QueueCases
<1>1. CASE UNCHANGED given
  <2>1. UNCHANGED arrived \/ \E x \in Items : arrived' = Append(arrived, x)
    BY QueueCases
  <2> QED
    BY <1>1, <2>1, OrderGrows, LinedTypes
<1>2. CASE /\ NextReturns /\ referenceIndex < Len(references)
           /\ given' = Append(given, references[referenceIndex + 1])
           /\ references[referenceIndex + 1] \in Items
  <2>1. references[referenceIndex + 1].kind = "reference"
    <3>1. referenceIndex + 1 \in 1..Len(references)
      BY <1>2, LinedTypes
    <3> QED
      BY <3>1, LinedTypes
  <2>2. references[referenceIndex + 1].kind \in K =>
          \E b \in DOMAIN arrived :
            /\ arrived[b] = references[referenceIndex + 1]
            /\ HowMany(arrived, 0, b, K) = OfAll(given, K) + 1
    BY <1>0, <1>2, <2>1, FirstIsNext, LinedTypes
  <2>3. Ordered(arrived, given', K)
    BY <1>2, <2>2, OrderGives, LinedTypes
  <2>4. UNCHANGED arrived
    BY <1>2, Cases, OthersStep DEF vars, NextReturns, results, Others
  <2> QED
    BY <2>3, <2>4
<1>3. CASE /\ NextReturns /\ entryIndex < entryCount
           /\ given' = Append(given, entries[entryIndex + 1])
           /\ entries[entryIndex + 1] \in Items
  <2>1. entries[entryIndex + 1].kind # "reference"
    <3>1. entryIndex + 1 \in 1..entryCount
      BY <1>3, LinedTypes
    <3> QED
      BY <3>1, LinedTypes
  <2>2. entries[entryIndex + 1].kind \in K =>
          \E b \in DOMAIN arrived :
            /\ arrived[b] = entries[entryIndex + 1]
            /\ HowMany(arrived, 0, b, K) = OfAll(given, K) + 1
    BY <1>0, <1>3, <2>1, FirstIsNext, LinedTypes
  <2>3. Ordered(arrived, given', K)
    BY <1>3, <2>2, OrderGives, LinedTypes
  <2>4. UNCHANGED arrived
    BY <1>3, Cases, OthersStep DEF vars, NextReturns, results, Others
  <2> QED
    BY <2>3, <2>4
<1> QED
  BY <1>1, <1>2, <1>3, GivenStep

LEMMA GivenKinds ==
  ASSUME ResultsInv, [Next]_vars, \A a \in DOMAIN given : given[a].kind \in Kinds \ {"success"}
  PROVE  \A a \in DOMAIN given' : given'[a].kind \in Kinds \ {"success"}
<1>1. ASSUME NEW x \in Items, x.kind \in Kinds \ {"success"}, given' = Append(given, x)
      PROVE  \A a \in DOMAIN given' : given'[a].kind \in Kinds \ {"success"}
  <2>1. /\ Len(given) \in Nat /\ DOMAIN given = 1..Len(given)
        /\ DOMAIN given' = 1..(Len(given) + 1)
        /\ given'[Len(given) + 1] = x /\ \A a \in 1..Len(given) : given'[a] = given[a]
    BY <1>1, AppendProperties, LenProperties, LinedTypes
  <2>2. ASSUME NEW a \in 1..(Len(given) + 1) PROVE given'[a].kind \in Kinds \ {"success"}
    <3>1. CASE a = Len(given) + 1
      BY <1>1, <2>1, <3>1
    <3>2. CASE a # Len(given) + 1
      BY <2>1, <3>2
    <3> QED
      BY <3>1, <3>2
  <2> QED
    BY <2>1, <2>2
<1>2. CASE /\ referenceIndex < Len(references)
           /\ given' = Append(given, references[referenceIndex + 1])
  <2>1. referenceIndex + 1 \in 1..Len(references)
    BY <1>2, LinedTypes
  <2>2. /\ references[referenceIndex + 1] \in Items
        /\ references[referenceIndex + 1].kind \in Kinds \ {"success"}
    BY <2>1, LinedTypes DEF Kinds
  <2> QED
    BY <1>1, <1>2, <2>2
<1>3. CASE entryIndex < entryCount /\ given' = Append(given, entries[entryIndex + 1])
  <2>1. entryIndex + 1 \in 1..entryCount
    BY <1>3, LinedTypes
  <2>2. /\ entries[entryIndex + 1] \in Items
        /\ entries[entryIndex + 1].kind \in Kinds \ {"success"}
    BY <2>1, LinedTypes
  <2> QED
    BY <1>1, <1>3, <2>2
<1> QED
  BY <1>2, <1>3, GivenStep

\* GivenInOrder, class by class.
LEMMA ClassByClass ==
  GivenInOrder <=> /\ Ordered(arrived, given, {"entry"})
                   /\ Ordered(arrived, given, {"reference"})
                   /\ Ordered(arrived, given, Errors)
<1>1. GivenInOrder <=> \A kinds \in Classes : Ordered(arrived, given, kinds)
  BY Zenon DEF GivenInOrder, Ordered
<1> QED
  BY <1>1, Zenon DEF Classes, Errors

LEMMA OrderPreserved == ResultsInv /\ OrderInv /\ [Next]_vars => OrderInv'
<1> SUFFICES ASSUME ResultsInv, OrderInv, [Next]_vars PROVE OrderInv'
  OBVIOUS
<1>1. Pending' /\ \A a \in DOMAIN given' : given'[a].kind \in Kinds \ {"success"}
  BY QueueCases, GivenKinds DEF OrderInv
<1>2. referralFollowing' = referralFollowing
  BY Cases, OthersStep DEF HasMore, CallNext, Abandon, HasMoreReturns, NextReturns,
     AbandonReturns, BatchFull, GetEntry, GetReference, GetResponse, GetNull, constraints,
     results, vars
<1>3. ASSUME ~referralFollowing
      PROVE  /\ Lined(references, referenceIndex, Len(references), {"reference"})'
             /\ Lined(entries, entryIndex, entryCount, {"entry"})'
             /\ Lined(entries, entryIndex, entryCount, Errors)'
             /\ GivenInOrder'
  <2>1. /\ Lined(references, referenceIndex, Len(references), {"reference"})
        /\ Lined(entries, entryIndex, entryCount, {"entry"})
        /\ Lined(entries, entryIndex, entryCount, Errors)
        /\ GivenInOrder /\ Pending
    BY <1>3 DEF OrderInv
  <2>2. Lined(references, referenceIndex, Len(references), {"reference"})'
    BY <1>3, <2>1, ReferencesLined
  <2>3. Lined(entries, entryIndex, entryCount, {"entry"})'
    BY <1>3, <2>1, EntriesLined
  <2>4. Lined(entries, entryIndex, entryCount, Errors)'
    <3>1. "success" \notin Errors /\ "reference" \notin Errors
      BY DEF Errors
    <3> QED
      BY <1>3, <2>1, <3>1, EntriesLined
  <2>5. /\ Ordered(arrived, given, {"entry"})
        /\ Ordered(arrived, given, {"reference"})
        /\ Ordered(arrived, given, Errors)
    BY <2>1, ClassByClass
  <2>6. /\ Ranked(arrived, taken, given, references, referenceIndex, Len(references), {"reference"})
        /\ Ranked(arrived, taken, given, entries, entryIndex, entryCount, {"entry"})
        /\ Ranked(arrived, taken, given, entries, entryIndex, entryCount, Errors)
    BY <2>1 DEF Lined
  <2>7. Ordered(arrived', given', {"entry"})
    BY <2>1, <2>5, <2>6, OrderKept
  <2>8. Ordered(arrived', given', {"reference"})
    BY <2>1, <2>5, <2>6, OrderKept
  <2>9. Ordered(arrived', given', Errors)
    <3>1. "reference" \notin Errors
      BY DEF Errors
    <3> QED
      BY <2>1, <2>5, <2>6, <3>1, OrderKept
  <2>10. GivenInOrder'
    <3>1. ClassByClass!:'
      BY ClassByClass, PTL
    <3> QED
      BY <2>7, <2>8, <2>9, <3>1
  <2> QED
    BY <2>2, <2>3, <2>4, <2>10
<1> QED
  BY <1>1, <1>2, <1>3 DEF OrderInv

LEMMA InitOrder == Init => OrderInv
<1> SUFFICES ASSUME Init PROVE OrderInv
  OBVIOUS
<1>0. /\ arrived = <<>> /\ replies = <<>> /\ given = <<>> /\ entries = <<>> /\ references = <<>>
      /\ entryIndex = 0 /\ entryCount = 0 /\ referenceIndex = 0
      /\ Len(<<>>) = 0 /\ DOMAIN <<>> = {}
  BY DEF Init, QueueInit
<1>1. Pending /\ taken = 0
  BY <1>0 DEF Pending, taken
<1>2. ASSUME NEW K
      PROVE  /\ Ranked(<<>>, 0, <<>>, <<>>, 0, 0, K) /\ Total(<<>>, 0, <<>>, <<>>, 0, 0, K)
             /\ Ordered(<<>>, <<>>, K)
  <2>1. HowMany(<<>>, 0, 0, K) = 0
    BY CountEmpty
  <2>2. (0 + 1)..0 = {}
    OBVIOUS
  <2> QED
    BY <1>0, <2>1, <2>2 DEF Ranked, Total, Ordered, OfAll
<1>3. /\ Lined(references, referenceIndex, Len(references), {"reference"})
      /\ Lined(entries, entryIndex, entryCount, {"entry"})
      /\ Lined(entries, entryIndex, entryCount, Errors)
  BY <1>0, <1>1, <1>2 DEF Lined
<1>4. GivenInOrder
  BY <1>0, <1>2, ClassByClass
<1> QED
  BY <1>0, <1>1, <1>3, <1>4 DEF OrderInv

\* What next gives as the n-th entry, reference or error is the n-th that arrived,
\* whatever the batch size, and however the calls of the application, the answers
\* of the server and the cuts mix; for references it is to be followed, which are
\* dropped, nothing is claimed.
THEOREM InOrder == Spec => [](~referralFollowing => GivenInOrder)
<1>1. ResultsInv /\ OrderInv => (~referralFollowing => GivenInOrder)
  BY DEF OrderInv
<1> QED
  BY InitResults, ResultsPreserved, InitOrder, OrderPreserved, <1>1, PTL DEF Spec

\* When hasMore has said that there is no more, the application has been given
\* all that arrived, unless it abandoned the search.
THEOREM AllGiven == Spec => [](~referralFollowing => NothingKeptBack)
<1>1. ResultsInv /\ OrderInv => (~referralFollowing => NothingKeptBack)
  <2> SUFFICES ASSUME ResultsInv, OrderInv, ~referralFollowing, said = "no", ~abandoned
               PROVE  Len(given) = OfAll(arrived, Kinds \ {"success"})
    BY DEF NothingKeptBack
  <2>1. ~HasUnread /\ ~inAgent
    BY DEF ResultsInv, ListsInv
  <2>2. replies = <<>> /\ entryIndex = entryCount /\ referenceIndex = Len(references)
    BY <2>1, LinedTypes DEF ResultsInv, QueueInv, HasUnread, referenceCount
  <2>3. taken = Len(arrived) /\ Len(arrived) \in Nat /\ Len(given) \in Nat
    BY <2>2, LenProperties, LinedTypes DEF taken
  <2>4. /\ Total(arrived, Len(arrived), given, references, referenceIndex, referenceIndex, {"reference"})
        /\ Total(arrived, Len(arrived), given, entries, entryIndex, entryIndex, {"entry"})
        /\ Total(arrived, Len(arrived), given, entries, entryIndex, entryIndex, Errors)
    BY <2>2, <2>3 DEF OrderInv, Lined
  <2>5. ASSUME NEW K, NEW list, NEW from \in Nat,
               Total(arrived, Len(arrived), given, list, from, from, K)
        PROVE  HowMany(arrived, 0, Len(arrived), K) = HowMany(given, 0, Len(given), K)
    <3>1. HowMany(list, from, from, K) = 0
      <4>1. from <= from
        OBVIOUS
      <4> QED
        BY <4>1, CountEmpty
    <3>2. HowMany(given, 0, Len(given), K) \in Nat
      BY <2>3, CountType
    <3> QED
      BY <2>5, <3>1, <3>2 DEF Total, OfAll
  <2>6. /\ HowMany(arrived, 0, Len(arrived), {"reference"}) = HowMany(given, 0, Len(given), {"reference"})
        /\ HowMany(arrived, 0, Len(arrived), {"entry"}) = HowMany(given, 0, Len(given), {"entry"})
        /\ HowMany(arrived, 0, Len(arrived), Errors) = HowMany(given, 0, Len(given), Errors)
    BY <2>4, <2>5, LinedTypes
  <2>7. ASSUME NEW s, NEW n \in Nat
        PROVE  HowMany(s, 0, n, Kinds \ {"success"}) =
                 (HowMany(s, 0, n, {"entry"}) + HowMany(s, 0, n, Errors)) + HowMany(s, 0, n, {"reference"})
    <3>1. HowMany(s, 0, n, {"entry"} \cup Errors) = HowMany(s, 0, n, {"entry"}) + HowMany(s, 0, n, Errors)
      <4>1. {"entry"} \cap Errors = {}
        BY DEF Errors
      <4> QED
        BY <4>1, CountUnion
    <3>2. HowMany(s, 0, n, Kinds \ {"success"}) =
            HowMany(s, 0, n, {"entry"} \cup Errors) + HowMany(s, 0, n, {"reference"})
      <4>1. /\ ({"entry"} \cup Errors) \cap {"reference"} = {}
            /\ Kinds \ {"success"} = ({"entry"} \cup Errors) \cup {"reference"}
        BY DEF Errors, Kinds, Result
      <4> QED
        BY <4>1, CountUnion
    <3> QED
      BY <3>1, <3>2
  <2>8. OfAll(arrived, Kinds \ {"success"}) = HowMany(given, 0, Len(given), Kinds \ {"success"})
    BY <2>3, <2>6, <2>7 DEF OfAll
  <2>9. HowMany(given, 0, Len(given), Kinds \ {"success"}) = Len(given)
    <3>1. \A a \in 1..Len(given) : given[a].kind \in Kinds \ {"success"}
      BY LenProperties, LinedTypes DEF OrderInv
    <3> QED
      BY <2>3, <3>1, CountAll
  <2> QED
    BY <2>8, <2>9
<1> QED
  BY InitResults, ResultsPreserved, InitOrder, OrderPreserved, <1>1, PTL DEF Spec
=============================================================================
