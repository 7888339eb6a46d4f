------------------------- MODULE MessageAgentProofs -------------------------
(***************************************************************************)
(* Proofs about MessageAgent, for any number of queues, requests, readers  *)
(* and answers.                                                            *)
(* Monitors and Reach hold whatever a user does; Heard where requests time *)
(* out, or have no time limit and are abandoned one by one; Turns where    *)
(* requests are read to their end, beside timeouts.                        *)
(***************************************************************************)
EXTENDS MessageAgent, SequenceTheorems, FiniteSetTheorems, WellFoundedInduction, TLAPS

InTheMonitor == {"for", "check", "looked", "aim", "pulse"}

\* Where each kind of thread can be, and what it then has in hand.
ReadersOK ==
  \A t \in Readers :
    /\ at[t] \in {"idle", "enter", "wait"} \cup InTheMonitor
    /\ at[t] # "idle" => reader[t].queue # None

TimersOK ==
  \A r \in TimeLimited :
    /\ at[r] \in {"idle", "abandon", "tell", "aim", "pulse", "end"}
    /\ info[r] = r
    /\ at[r] # "idle" => agent[r] # None

PutterOK ==
  /\ at["putter"] \in {"idle", "add", "settle", "aim", "pulse"}
  /\ at["putter"] # "idle" => info["putter"] # None /\ agent[info["putter"]] # None
  /\ at["putter"] = "add" => answered[info["putter"]] > 0

UserOK ==
  /\ at["user"] \in {"idle", "walk", "found", "merge", "name", "aim", "pulse", "threw", "end"}
  /\ at["user"] \in {"found", "merge", "name"} \/ user.list # <<>> => user.queue # None
  /\ at["user"] \in {"merge", "name"} => user.i <= Len(user.list)
  /\ at["user"] = "name" => user.i < Len(user.list)

\* A request that is looked at, found or about to be pulsed for was sent, and
\* only a queue is the target of a pulse.
HandsOK ==
  \A t \in Threads :
    /\ at[t] \in {"check", "aim", "found"} => info[t] # None /\ agent[info[t]] # None
    /\ at[t] = "pulse" => target[t] # None

\* So was each request in a list.
ListedIsSent ==
  /\ \A q \in Queues : \A k \in 1..Len(messages[q]) : agent[messages[q][k]] # None
  /\ \A k \in 1..Len(user.list) : agent[user.list[k]] # None

PlacesInv ==
  ReadersOK /\ TimersOK /\ PutterOK /\ UserOK /\ HandsOK /\ ListedIsSent

-----------------------------------------------------------------------------
\* A request whose replies are wanted is in the list of its agent, and the one that
\* merge has added and not yet named is also in the new list.
ReachInv ==
  /\ \A r \in Requests : agent[r] # None /\ waitForReply[r] =>
       \E k \in 1..Len(messages[agent[r]]) : messages[agent[r]][k] = r
  /\ at["user"] = "name" /\ waitForReply[user.list[user.i + 1]] =>
       \E k \in 1..Len(messages[user.queue]) :
         messages[user.queue][k] = user.list[user.i + 1]
  /\ \A r \in Requests : replies[r] # <<>> => agent[r] # None

-----------------------------------------------------------------------------
\* With a user that abandons single requests at most: a list holds its own requests,
\* each once, and who walks it started after the place that was looked at last, which
\* does not move while it walks.  What was looked at last is still at its place if
\* nobody abandons requests.
HomeInv ==
  /\ at["user"] \in {"idle", "found", "aim", "pulse", "walk", "end"} /\ user.list = <<>>
  /\ at["user"] # "idle" => UserOps # {}
  /\ at["user"] = "found" => agent[info["user"]] = user.queue
  /\ \A q \in Queues : \A k \in 1..Len(messages[q]) : agent[messages[q][k]] = q
  /\ \A q \in Queues : \A j, k \in 1..Len(messages[q]) :
       messages[q][j] = messages[q][k] => j = k
  /\ \A t \in Readers : at[t] \in InTheMonitor =>
       reader[t].next = indexLastRead[reader[t].queue] + 1
  /\ \A t \in Readers : at[t] = "check" =>
       /\ agent[info[t]] = reader[t].queue
       /\ UserOps = {} =>
            /\ reader[t].next <= Len(messages[reader[t].queue])
            /\ messages[reader[t].queue][reader[t].next] = info[t]

\* From place n + 1 on, and from the head of the list again, place j comes before k.
Ahead(j, k, n) == (j > n /\ k <= n) \/ ((j > n <=> k > n) /\ j < k)

\* Without a user, a request that was passed over comes before the one that passed it, in
\* the order in which the next reader looks.
TurnsInv ==
  /\ at["user"] = "idle"
  /\ \A r, s \in Requests : passed[r][s] > 0 => replies[r] # <<>> /\ agent[s] # None
  /\ \A q \in Queues : \A j, k \in 1..Len(messages[q]) :
       messages[q][j] \notin overlooked /\ passed[messages[q][j]][messages[q][k]] > 0 =>
         Ahead(j, k, indexLastRead[q] + 1)
  /\ FairTurns

-----------------------------------------------------------------------------
(* Lists and lines.                                                         *)

\* A set of natural numbers has a least element.
LEMMA LeastElement ==
  ASSUME NEW T \in SUBSET Nat, T # {}
  PROVE  Min(T) \in T /\ \A y \in T : Min(T) <= y
<1>1. PICK x \in T : \A y \in T : ~(<<y, x>> \in OpToRel(<, Nat))
  BY NatLessThanWellFounded, WFMin
<1>2. \A y \in T : ~(y < x)
  BY <1>1 DEF OpToRel
<1>3. \A y \in T : x <= y
  BY <1>2
<1> QED
  BY <1>3 DEF Min

\* RemoveFirst takes out one element, and what is behind it moves up.
LEMMA RemoveFirstMoves ==
  ASSUME NEW S, NEW s \in Seq(S), NEW e, \E i \in 1..Len(s) : s[i] = e
  PROVE  /\ RemoveFirst(s, e) \in Seq(S)
         /\ Len(RemoveFirst(s, e)) = Len(s) - 1
         /\ \E n \in 1..Len(s) :
              /\ s[n] = e
              /\ \A i \in 1..(Len(s) - 1) :
                   RemoveFirst(s, e)[i] = IF i < n THEN s[i] ELSE s[i + 1]
<1> DEFINE I == {i \in 1..Len(s) : s[i] = e}
<1>0. I \in SUBSET Nat /\ I # {}
  OBVIOUS
<1>1. Min(I) \in I
  BY <1>0, LeastElement
<1>2. PICK n \in 1..Len(s) : s[n] = e /\ n = Min(I)
  BY <1>1
<1>3. RemoveFirst(s, e) = SubSeq(s, 1, n - 1) \o SubSeq(s, n + 1, Len(s))
  BY <1>2 DEF RemoveFirst, RemoveAt, SelectInSeq
<1> HIDE DEF I
<1> DEFINE a == SubSeq(s, 1, n - 1)
           b == SubSeq(s, n + 1, Len(s))
<1>4. /\ a \in Seq(S) /\ Len(a) = n - 1 /\ \A i \in 1..(n - 1) : a[i] = s[i]
      /\ b \in Seq(S) /\ Len(b) = Len(s) - n /\ \A i \in 1..(Len(s) - n) : b[i] = s[n + i]
  OBVIOUS
<1>5. /\ RemoveFirst(s, e) \in Seq(S)
      /\ Len(RemoveFirst(s, e)) = Len(s) - 1
      /\ \A i \in 1..(Len(s) - 1) :
           RemoveFirst(s, e)[i] = IF i < n THEN s[i] ELSE s[i + 1]
  <2> HIDE DEF a, b
  <2>1. RemoveFirst(s, e) = a \o b
    BY <1>3 DEF a, b
  <2>2. /\ a \o b \in Seq(S) /\ Len(a \o b) = Len(a) + Len(b)
        /\ \A i \in 1..(Len(a) + Len(b)) :
             (a \o b)[i] = IF i <= Len(a) THEN a[i] ELSE b[i - Len(a)]
    BY <1>4, ConcatProperties
  <2>3. ASSUME NEW i \in 1..(Len(s) - 1)
        PROVE  (a \o b)[i] = IF i < n THEN s[i] ELSE s[i + 1]
    <3>1. CASE i < n
      BY <1>4, <2>2, <3>1
    <3>2. CASE ~(i < n)
      <4>1. i - (n - 1) \in 1..(Len(s) - n) /\ n + (i - (n - 1)) = i + 1
        BY <3>2
      <4>2. (a \o b)[i] = b[i - (n - 1)]
        <5>1. i \in 1..(Len(a) + Len(b)) /\ ~(i <= Len(a)) /\ Len(a) = n - 1
          BY <1>4, <3>2
        <5> QED BY <2>2, <5>1
      <4> QED
        BY <1>4, <3>2, <4>1, <4>2
    <3> QED
      BY <3>1, <3>2
  <2> QED
    BY <1>4, <2>1, <2>2, <2>3
<1> QED
  BY <1>2, <1>5

LEMMA RemoveFirstStays ==
  ASSUME NEW S, NEW s \in Seq(S), NEW e, ~\E i \in 1..Len(s) : s[i] = e
  PROVE  RemoveFirst(s, e) = s
<1>1. CASE ~\E i \in 1..Len(s) : s[i] = e
  BY <1>1 DEF RemoveFirst
<1> QED BY <1>1

\* Nothing comes to a list by a removal, and nothing else goes.
Keeps(s, t, e) ==
  /\ \A k \in 1..Len(t) : \E j \in 1..Len(s) : s[j] = t[k]
  /\ \A j \in 1..Len(s) : s[j] # e => \E k \in 1..Len(t) : t[k] = s[j]

LEMMA RemoveFirstKeeps ==
  ASSUME NEW S, NEW s \in Seq(S), NEW e
  PROVE  RemoveFirst(s, e) \in Seq(S) /\ Keeps(s, RemoveFirst(s, e), e)
<1>1. CASE \E i \in 1..Len(s) : s[i] = e
  <2>1. PICK n \in 1..Len(s) :
          /\ s[n] = e
          /\ \A i \in 1..(Len(s) - 1) : RemoveFirst(s, e)[i] = IF i < n THEN s[i] ELSE s[i + 1]
    BY <1>1, RemoveFirstMoves
  <2>2. RemoveFirst(s, e) \in Seq(S) /\ Len(RemoveFirst(s, e)) = Len(s) - 1
    BY <1>1, RemoveFirstMoves
  <2> DEFINE t == RemoveFirst(s, e)
  <2>3. \A k \in 1..Len(t) : t[k] = s[k] \/ t[k] = s[k + 1]
    BY <2>1, <2>2
  <2>4. ASSUME NEW k \in 1..Len(t) PROVE \E j \in 1..Len(s) : s[j] = t[k]
    <3>1. k \in 1..Len(s) /\ k + 1 \in 1..Len(s)
      BY <2>2
    <3> QED BY <2>3, <3>1
  <2>5. ASSUME NEW j \in 1..Len(s), s[j] # e PROVE \E k \in 1..Len(t) : t[k] = s[j]
    <3>1. CASE j < n
      <4>1. j \in 1..Len(t) /\ t[j] = s[j]
        BY <2>1, <2>2, <3>1
      <4> QED BY <4>1
    <3>2. CASE j > n
      <4>1. j - 1 \in 1..Len(t) /\ ~(j - 1 < n) /\ (j - 1) + 1 = j
        BY <2>2, <3>2
      <4>2. t[j - 1] = s[j]
        BY <2>1, <2>2, <4>1
      <4> QED BY <4>1, <4>2
    <3> QED BY <2>1, <2>5, <3>1, <3>2
  <2> QED BY <2>2, <2>4, <2>5 DEF Keeps
<1>2. CASE ~\E i \in 1..Len(s) : s[i] = e
  <2>1. RemoveFirst(s, e) = s
    BY <1>2, RemoveFirstStays
  <2>2. Keeps(s, s, e)
    BY DEF Keeps
  <2> QED BY <2>1, <2>2
<1> QED BY <1>1, <1>2

LEMMA MinOfTwo ==
  ASSUME NEW a \in Nat, NEW b \in Nat
  PROVE  Min({a, b}) = IF a <= b THEN a ELSE b
BY DEF Min

\* A pulse wakes the first in the line, and leaves the others in it.
LEMMA WakeFacts ==
  ASSUME TypeOK, MonitorsAgree, NEW t \in Threads, NEW q \in Queues, NEW p \in Places,
         NEW n \in Nat, Wake(t, p, q, n)
  PROVE  /\ waiting' \in [Queues -> Seq(Readers)]
         /\ \A o \in Queues \ {q} : waiting'[o] = waiting[o]
         /\ IsInjective(waiting'[q])
         /\ ToSet(waiting'[q]) \subseteq ToSet(waiting[q])
         /\ at' \in [Threads -> Places] /\ at'[t] = p
         /\ \A b \in Threads \ {t} :
              at'[b] = IF b \in ToSet(waiting[q]) \ ToSet(waiting'[q]) THEN "enter" ELSE at[b]
<1> DEFINE w == waiting[q]
           m == Min({n, Len(w)})
           v == SubSeq(w, m + 1, Len(w))
           u == SubSeq(w, 1, m)
<1>1. w \in Seq(Readers) /\ IsInjective(w) /\ Len(w) \in Nat
  BY DEF TypeOK, MonitorsAgree
<1>2. m \in 0..Len(w)
  BY <1>1, MinOfTwo
<1> HIDE DEF m
<1>3. /\ v \in Seq(Readers) /\ Len(v) = Len(w) - m
      /\ \A i \in 1..(Len(w) - m) : v[i] = w[m + i]
  BY <1>1, <1>2
<1>4. u \in Seq(Readers) /\ Len(u) = m /\ \A i \in 1..m : u[i] = w[i]
  BY <1>1, <1>2
<1>5. waiting' = [waiting EXCEPT ![q] = v]
  BY DEF Wake, m
<1>6. at' = [b \in Threads |-> IF b = t THEN p ELSE IF b \in ToSet(u) THEN "enter" ELSE at[b]]
  BY DEF Wake, m
<1> HIDE DEF v, u
<1>7. waiting' \in [Queues -> Seq(Readers)] /\ waiting'[q] = v
  BY <1>3, <1>5 DEF TypeOK
<1>8. IsInjective(v)
  <2>1. DOMAIN v = 1..(Len(w) - m) /\ DOMAIN w = 1..Len(w)
    BY <1>1, <1>3
  <2>2. ASSUME NEW i \in 1..(Len(w) - m), NEW j \in 1..(Len(w) - m), v[i] = v[j] PROVE i = j
    <3>1. m + i \in 1..Len(w) /\ m + j \in 1..Len(w) /\ w[m + i] = w[m + j]
      BY <1>2, <1>3, <2>2
    <3>2. m + i = m + j
      BY <1>1, <2>1, <3>1 DEF IsInjective
    <3> QED BY <1>2, <3>2
  <2> QED BY <2>1, <2>2 DEF IsInjective
<1>9. ToSet(v) \subseteq ToSet(w)
  <2>1. ASSUME NEW i \in 1..(Len(w) - m) PROVE \E j \in 1..Len(w) : w[j] = v[i]
    <3>1. m + i \in 1..Len(w)
      BY <1>2
    <3> QED BY <1>3, <3>1
  <2> QED BY <1>1, <1>3, <2>1 DEF ToSet
<1>10. ToSet(u) = ToSet(w) \ ToSet(v)
  <2>1. DOMAIN v = 1..(Len(w) - m) /\ DOMAIN w = 1..Len(w) /\ DOMAIN u = 1..m
    BY <1>1, <1>3, <1>4
  <2>2. ASSUME NEW x \in ToSet(u) PROVE x \in ToSet(w) /\ x \notin ToSet(v)
    <3>1. PICK i \in 1..m : x = u[i]
      BY <2>1, <2>2 DEF ToSet
    <3>2. i \in 1..Len(w) /\ x = w[i]
      BY <1>2, <1>4, <3>1
    <3>3. ASSUME x \in ToSet(v) PROVE FALSE
      <4>1. PICK j \in 1..(Len(w) - m) : x = v[j]
        BY <2>1, <3>3 DEF ToSet
      <4>2. m + j \in 1..Len(w) /\ w[m + j] = w[i]
        BY <1>2, <1>3, <3>2, <4>1
      <4>3. m + j = i
        BY <1>1, <2>1, <3>2, <4>2 DEF IsInjective
      <4> QED BY <1>2, <4>3
    <3> QED BY <2>1, <3>2, <3>3 DEF ToSet
  <2>3. ASSUME NEW x \in ToSet(w), x \notin ToSet(v) PROVE x \in ToSet(u)
    <3>1. PICK i \in 1..Len(w) : x = w[i]
      BY <2>1, <2>3 DEF ToSet
    <3>2. CASE i <= m
      BY <1>2, <1>4, <2>1, <3>1, <3>2 DEF ToSet
    <3>3. CASE i > m
      <4>1. i - m \in 1..(Len(w) - m) /\ m + (i - m) = i
        BY <1>2, <3>3
      <4>2. v[i - m] = x
        BY <1>3, <3>1, <4>1
      <4> QED BY <2>1, <2>3, <4>1, <4>2 DEF ToSet
    <3> QED BY <1>2, <3>2, <3>3
  <2> QED BY <2>2, <2>3
<1>11. at' \in [Threads -> Places]
  BY <1>6 DEF TypeOK, Places
<1> QED BY <1>5, <1>6, <1>7, <1>8, <1>9, <1>10, <1>11 DEF TypeOK

Fewer(l, m) ==
  \A o \in Queues : \A k \in 1..Len(m[o]) : \E j \in 1..Len(l[o]) : l[o][j] = m[o][k]

Without(l, m, r) ==
  \A o \in Queues : \A j \in 1..Len(l[o]) : l[o][j] # r =>
    \E k \in 1..Len(m[o]) : m[o][k] = l[o][j]

LEMMA RemovalFacts ==
  ASSUME NEW l \in [Queues -> Seq(Requests)], NEW q, NEW r
  PROVE  LET m == [l EXCEPT ![q] = RemoveFirst(@, r)] IN
         m \in [Queues -> Seq(Requests)] /\ Fewer(l, m) /\ Without(l, m, r)
<1> DEFINE m == [l EXCEPT ![q] = RemoveFirst(@, r)]
<1>1. \A o \in Queues : l[o] \in Seq(Requests)
  OBVIOUS
<1>2. \A o \in Queues : m[o] = IF o = q THEN RemoveFirst(l[o], r) ELSE l[o]
  BY Zenon
<1>3. ASSUME NEW o \in Queues PROVE m[o] \in Seq(Requests) /\ Keeps(l[o], m[o], r)
  <2>1. CASE o = q
    <3>1. m[o] = RemoveFirst(l[o], r)
      BY <1>2, <2>1
    <3> HIDE DEF m
    <3> QED BY <1>1, <3>1, RemoveFirstKeeps
  <2>2. CASE o # q
    <3>1. m[o] = l[o]
      BY <1>2, <2>2
    <3> HIDE DEF m
    <3> QED BY <1>1, <3>1 DEF Keeps
  <2> QED BY <2>1, <2>2
<1>4. m \in [Queues -> Seq(Requests)]
  <2>1. m = [o \in Queues |-> m[o]]
    OBVIOUS
  <2> HIDE DEF m
  <2> QED BY <1>3, <2>1
<1> HIDE DEF m
<1>5. Fewer(l, m) /\ Without(l, m, r)
  BY <1>3 DEF Fewer, Without, Keeps
<1> QED BY <1>4, <1>5 DEF m

\* A request is removed from a list and abandoned: no other request leaves a list or
\* loses a reply.
LEMMA AbandonFacts ==
  ASSUME TypeOK, NEW q \in Queues, NEW r \in Requests,
         Abandon(r, [messages EXCEPT ![q] = RemoveFirst(@, r)])
  PROVE  /\ messages' \in [Queues -> Seq(Requests)]
         /\ Fewer(messages, messages') /\ Without(messages, messages', r)
         /\ replies' \in [Requests -> Seq(Replies)]
         /\ {acceptReplies', waitForReply', complete'} \subseteq [Requests -> BOOLEAN]
         /\ UNCHANGED complete
         /\ ~waitForReply'[r]
         /\ \A s \in Requests \ {r} :
              /\ replies'[s] = replies[s]
              /\ acceptReplies'[s] = acceptReplies[s]
              /\ waitForReply'[s] = waitForReply[s]
         /\ replies'[r] \in {replies[r], <<>>}
         /\ acceptReplies'[r] \in {acceptReplies[r], FALSE}
<1> DEFINE rest == [messages EXCEPT ![q] = RemoveFirst(@, r)]
           more == [rest EXCEPT ![agent[r]] = RemoveFirst(@, r)]
<1>0. messages \in [Queues -> Seq(Requests)]
  BY DEF TypeOK
<1>1. rest \in [Queues -> Seq(Requests)] /\ Fewer(messages, rest) /\ Without(messages, rest, r)
  BY <1>0, RemovalFacts
<1>2. Abandon(r, rest)
  OBVIOUS
<1> HIDE DEF rest
<1>3. more \in [Queues -> Seq(Requests)] /\ Fewer(rest, more) /\ Without(rest, more, r)
  BY <1>1, RemovalFacts
<1>4. messages' \in {rest, more}
  BY <1>2 DEF Abandon
<1> HIDE DEF more
<1>5. Fewer(messages, more) /\ Without(messages, more, r)
  <2>1. Fewer(messages, more)
    BY <1>1, <1>3 DEF Fewer
  <2>2. Without(messages, more, r)
    <3> SUFFICES ASSUME NEW o \in Queues, NEW j \in 1..Len(messages[o]), messages[o][j] # r
                 PROVE  \E k \in 1..Len(more[o]) : more[o][k] = messages[o][j]
      BY DEF Without
    <3>1. PICK i \in 1..Len(rest[o]) : rest[o][i] = messages[o][j]
      BY <1>1 DEF Without
    <3>2. PICK k \in 1..Len(more[o]) : more[o][k] = rest[o][i]
      BY <1>3, <3>1 DEF Without
    <3> QED BY <3>1, <3>2
  <2> QED BY <2>1, <2>2
<1>6. /\ messages' \in [Queues -> Seq(Requests)]
      /\ Fewer(messages, messages') /\ Without(messages, messages', r)
  <2>1. CASE messages' = rest
    BY <1>1, <2>1
  <2>2. CASE messages' = more
    BY <1>3, <1>5, <2>2
  <2> QED BY <1>4, <2>1, <2>2
<1>7. CASE waitForReply[r]
  <2>1. /\ acceptReplies' = [acceptReplies EXCEPT ![r] = FALSE]
        /\ waitForReply' = [waitForReply EXCEPT ![r] = FALSE]
        /\ replies' = [replies EXCEPT ![r] = <<>>]
        /\ complete' = complete
    BY <1>2, <1>7 DEF Abandon
  <2>2. {acceptReplies', waitForReply', complete'} \subseteq [Requests -> BOOLEAN]
    BY <2>1 DEF TypeOK
  <2>3. /\ ~waitForReply'[r] /\ acceptReplies'[r] = FALSE
        /\ \A s \in Requests \ {r} :
              acceptReplies'[s] = acceptReplies[s] /\ waitForReply'[s] = waitForReply[s]
    BY <2>1, Zenon DEF TypeOK
  <2>4. /\ replies' \in [Requests -> Seq(Replies)] /\ replies'[r] = <<>>
        /\ \A s \in Requests \ {r} : replies'[s] = replies[s]
    BY <2>1 DEF TypeOK
  <2> QED BY <1>6, <2>1, <2>2, <2>3, <2>4
<1>8. CASE ~waitForReply[r]
  <2>1. UNCHANGED <<acceptReplies, waitForReply, complete, replies>>
    BY <1>2, <1>8 DEF Abandon, flags
  <2> QED BY <1>6, <1>8, <2>1 DEF TypeOK
<1> QED BY <1>7, <1>8

-----------------------------------------------------------------------------
(* Types, places and monitors.                                              *)

BaseInv == TypeOK /\ PlacesInv /\ MonitorsAgree

LEMMA InitBase == Init => BaseInv
<1> SUFFICES ASSUME Init PROVE BaseInv
  OBVIOUS
<1> USE AgentAssumption
    DEF AgentAssumption, Init, Threads
<1>1. TypeOK
  <2>1. {acceptReplies, waitForReply, complete} \subseteq [Requests -> BOOLEAN]
    BY Zenon
  <2>2. at \in [Threads -> Places] /\ reader \in [Readers -> [queue : Queues \cup {None},
          next : Nat, i : Nat, rfcMsg : Replies \cup {NoReply}]]
    BY DEF Places, Nothing
  <2> QED BY <2>1, <2>2 DEF TypeOK
<1>2. PlacesInv
  BY DEF PlacesInv, ReadersOK, TimersOK, PutterOK, UserOK, HandsOK, ListedIsSent
<1>3. MonitorsAgree
  BY DEF MonitorsAgree, ToSet, IsInjective, Nothing
<1> QED BY <1>1, <1>2, <1>3 DEF BaseInv

\* Where a thread goes, and that the others stay.
Moves(t, p) ==
  /\ at' \in [Threads -> Places]
  /\ at'[t] = p
  /\ \A b \in Threads : b # t => at'[b] = at[b]

LEMMA GotoMoves ==
  ASSUME TypeOK, NEW t \in Threads, NEW p \in Places, Goto(t, p)
  PROVE  Moves(t, p)
<1>1. at \in [Threads -> Places] /\ at' = [at EXCEPT ![t] = p]
  BY DEF TypeOK, Goto
<1>2. at' \in [Threads -> Places]
  BY <1>1
<1> QED BY <1>1, <1>2 DEF Moves

LEMMA Kinds ==
  /\ Readers \subseteq Threads /\ TimeLimited \subseteq Threads
  /\ "putter" \in Threads /\ "user" \in Threads /\ "putter" # "user"
  /\ \A t \in Readers : t \notin TimeLimited /\ t # "putter" /\ t # "user"
  /\ \A r \in TimeLimited : r \in Requests /\ r # "putter" /\ r # "user"
  /\ \A t \in Threads : t \in Readers \/ t \in TimeLimited \/ t = "putter" \/ t = "user"
BY AgentAssumption DEF AgentAssumption, Threads

Inside(t) == at[t] \notin {"idle", "enter", "wait"}

\* The monitors are as they were if nobody enters, leaves, waits or is woken.
LEMMA MonitorsFrame ==
  ASSUME MonitorsAgree, UNCHANGED monitors,
         \A t \in Readers :
           /\ reader'[t].queue = reader[t].queue
           /\ Inside(t)' = Inside(t)
           /\ (at'[t] = "wait") = (at[t] = "wait")
  PROVE  MonitorsAgree'
<1>1. UNCHANGED owner /\ UNCHANGED waiting
  BY DEF monitors
<1> QED BY <1>1 DEF MonitorsAgree, Inside

ReaderLocals ==
  [queue : Queues \cup {None}, next : Nat, i : Nat, rfcMsg : Replies \cup {NoReply}]

UserLocals == [queue : Queues \cup {None}, list : Seq(Requests), i : Nat]

LEMMA ReaderFields ==
  ASSUME NEW f \in ReaderLocals
  PROVE  /\ \A q \in Queues \cup {None} : [f EXCEPT !.queue = q] \in ReaderLocals
         /\ \A n \in Nat : [f EXCEPT !.next = n] \in ReaderLocals
         /\ \A n \in Nat : [f EXCEPT !.i = n] \in ReaderLocals
         /\ \A m \in Replies \cup {NoReply} : [f EXCEPT !.rfcMsg = m] \in ReaderLocals
BY DEF ReaderLocals

LEMMA ListedGrows ==
  ASSUME ListedIsSent, messages \in [Queues -> Seq(Requests)],
         NEW q \in Queues, NEW r \in Requests,
         messages' = [messages EXCEPT ![q] = Append(@, r)],
         agent'[r] # None, \A s \in Requests : agent[s] # None => agent'[s] # None,
         UNCHANGED user, user.list \in Seq(Requests)
  PROVE  ListedIsSent'
<1>1. /\ \A k \in 1..Len(user.list) : agent[user.list[k]] # None /\ user.list[k] \in Requests
      /\ \A o \in Queues : \A k \in 1..Len(messages[o]) :
           agent[messages[o][k]] # None /\ messages[o][k] \in Requests
  BY DEF ListedIsSent
<1>2. ASSUME NEW o \in Queues, NEW k \in 1..Len(messages'[o]) PROVE agent'[messages'[o][k]] # None
  <2>1. CASE o = q
    <3>1. messages'[o] = Append(messages[o], r) /\ messages[o] \in Seq(Requests)
      BY <2>1
    <3>2. (k \in 1..Len(messages[o]) /\ messages'[o][k] = messages[o][k]) \/ messages'[o][k] = r
      BY <3>1
    <3> QED BY <1>1, <3>2
  <2>2. CASE o # q
    <3>1. messages'[o] = messages[o]
      BY <2>2
    <3> QED BY <1>1, <3>1
  <2> QED BY <2>1, <2>2
<1> QED BY <1>1, <1>2 DEF ListedIsSent

\* A thread that is in a line nowhere joins it.
LEMMA AppendToLine ==
  ASSUME NEW S, NEW w \in Seq(S), NEW t \in S, t \notin ToSet(w), IsInjective(w)
  PROVE  ToSet(Append(w, t)) = ToSet(w) \cup {t} /\ IsInjective(Append(w, t))
<1> DEFINE v == Append(w, t)
<1>1. /\ v \in Seq(S) /\ Len(v) = Len(w) + 1 /\ v[Len(w) + 1] = t
      /\ \A i \in 1..Len(w) : v[i] = w[i]
  OBVIOUS
<1> HIDE DEF v
<1>2. DOMAIN v = 1..(Len(w) + 1) /\ DOMAIN w = 1..Len(w) /\ Len(w) \in Nat
  BY <1>1
<1>3. ToSet(v) = ToSet(w) \cup {t}
  BY <1>1, <1>2 DEF ToSet
<1>4. \A i \in 1..Len(w) : w[i] # t
  BY <1>2 DEF ToSet
<1>5. ASSUME NEW i \in DOMAIN v, NEW j \in DOMAIN v, v[i] = v[j] PROVE i = j
  <2>1. CASE i = Len(w) + 1 \/ j = Len(w) + 1
    BY <1>1, <1>2, <1>4, <1>5, <2>1
  <2>2. CASE i \in 1..Len(w) /\ j \in 1..Len(w)
    <3>1. w[i] = w[j]
      BY <1>1, <1>5, <2>2
    <3> QED BY <1>2, <2>2, <3>1 DEF IsInjective
  <2> QED BY <1>2, <2>1, <2>2
<1> QED BY <1>3, <1>5 DEF v, IsInjective

\* What is listed was sent, also after a removal and after an addition.
LEMMA ListedShrinks ==
  ASSUME ListedIsSent, Fewer(messages, messages'), UNCHANGED agent, user'.list = user.list
  PROVE  ListedIsSent'
BY DEF ListedIsSent, Fewer

LEMMA BaseAim ==
  ASSUME BaseInv, NEW t \in Threads, Aim(t)
  PROVE  BaseInv'
<1>1. Moves(t, "pulse")
  BY GotoMoves, Kinds DEF BaseInv, Aim, Places
<1>2. UNCHANGED <<messages, indexLastRead, owner, waiting, agent, replies, acceptReplies,
                waitForReply, complete, answered, info, reader, user, passed, overlooked>>
  BY DEF Aim, flags, history, lists, locals, monitors
<1>3. /\ at[t] = "aim" /\ info[t] # None /\ agent[info[t]] # None
      /\ target'[t] = agent[info[t]]
      /\ \A b \in Threads : b # t => target'[b] = target[b]
      /\ agent[info[t]] \in Queues
  BY Kinds DEF BaseInv, TypeOK, Aim, PlacesInv, HandsOK
<1>4. target' \in [Threads -> Queues \cup {None}]
  BY <1>3, Kinds DEF BaseInv, TypeOK, Aim
<1>5. TypeOK'
  BY <1>1, <1>2, <1>4
  DEF BaseInv, TypeOK, Moves, ReaderLocals, UserLocals
<1>6. ReadersOK'
  BY <1>1, <1>2, <1>3, Kinds DEF BaseInv, PlacesInv, ReadersOK, Moves, InTheMonitor
<1>7. TimersOK'
  BY <1>1, <1>2, <1>3, Kinds DEF BaseInv, PlacesInv, TimersOK, Moves
<1>8. PutterOK'
  BY <1>1, <1>2, <1>3, Kinds DEF BaseInv, PlacesInv, PutterOK, Moves
<1>9. UserOK'
  BY <1>1, <1>2, <1>3, Kinds DEF BaseInv, PlacesInv, UserOK, Moves
<1>10. HandsOK'
  BY <1>1, <1>2, <1>3, Kinds DEF BaseInv, PlacesInv, HandsOK, Moves
<1>11. ListedIsSent'
  BY <1>1, <1>2, <1>3, Kinds DEF BaseInv, PlacesInv, ListedIsSent, Moves
<1>12. MonitorsAgree'
  <2>1. \A b \in Readers : /\ reader'[b].queue = reader[b].queue
                           /\ Inside(b)' = Inside(b)
                           /\ (at'[b] = "wait") = (at[b] = "wait")
    BY <1>1, <1>2, <1>3, Kinds DEF Moves, Inside
  <2>2. UNCHANGED monitors
    BY <1>2 DEF monitors
  <2> QED BY <2>1, <2>2, MonitorsFrame DEF BaseInv
<1> QED BY <1>5, <1>6, <1>7, <1>8, <1>9, <1>10, <1>11, <1>12 DEF BaseInv, PlacesInv

LEMMA BaseGet ==
  ASSUME BaseInv, NEW t \in Readers, NEW q \in Queues, Get(t, q)
  PROVE  BaseInv'
<1>1. Moves(t, "enter")
  BY GotoMoves, Kinds DEF BaseInv, Get, Places
<1>2. UNCHANGED <<messages, indexLastRead, owner, waiting, agent, replies, acceptReplies,
                waitForReply, complete, answered, info, target, user, passed, overlooked>>
  BY DEF Get, flags, history, lists, locals, monitors
<1>3. /\ at[t] = "idle" /\ q # None
      /\ reader'[t].queue = q
      /\ \A b \in Readers : b # t => reader'[b] = reader[b]
  BY Kinds, AgentAssumption DEF BaseInv, TypeOK, Get, AgentAssumption
<1>4. reader' \in [Readers -> ReaderLocals]
  <2>1. reader'[t] \in ReaderLocals
    BY ReaderFields, Kinds DEF BaseInv, TypeOK, Get, ReaderLocals
  <2>2. reader' = [b \in Readers |-> IF b = t THEN reader'[t] ELSE reader[b]]
    BY Kinds DEF BaseInv, TypeOK, Get
  <2>3. \A b \in Readers : reader[b] \in ReaderLocals
    BY DEF BaseInv, TypeOK, ReaderLocals
  <2> QED BY <2>1, <2>2, <2>3
<1>5. TypeOK'
  BY <1>1, <1>2, <1>4
  DEF BaseInv, TypeOK, Moves, ReaderLocals, UserLocals
<1>6. ReadersOK'
  BY <1>1, <1>2, <1>3, Kinds DEF BaseInv, PlacesInv, ReadersOK, Moves, InTheMonitor
<1>7. TimersOK'
  BY <1>1, <1>2, <1>3, Kinds DEF BaseInv, PlacesInv, TimersOK, Moves
<1>8. PutterOK'
  BY <1>1, <1>2, <1>3, Kinds DEF BaseInv, PlacesInv, PutterOK, Moves
<1>9. UserOK'
  BY <1>1, <1>2, <1>3, Kinds DEF BaseInv, PlacesInv, UserOK, Moves
<1>10. HandsOK'
  BY <1>1, <1>2, <1>3, Kinds DEF BaseInv, PlacesInv, HandsOK, Moves
<1>11. ListedIsSent'
  BY <1>1, <1>2, <1>3, Kinds DEF BaseInv, PlacesInv, ListedIsSent, Moves
<1>12. MonitorsAgree'
  BY <1>1, <1>2, <1>3, Kinds, AgentAssumption
  DEF BaseInv, PlacesInv, ReadersOK, MonitorsAgree, Moves, AgentAssumption
<1> QED BY <1>5, <1>6, <1>7, <1>8, <1>9, <1>10, <1>11, <1>12 DEF BaseInv, PlacesInv

LEMMA BaseEnter ==
  ASSUME BaseInv, NEW t \in Readers, Enter(t)
  PROVE  BaseInv'
<1>1. Moves(t, "for")
  BY GotoMoves, Kinds DEF BaseInv, Enter, Places
<1>2. UNCHANGED <<messages, indexLastRead, waiting, agent, replies, acceptReplies, waitForReply,
                complete, answered, info, target, user, passed, overlooked>>
  BY DEF Enter, flags, history, lists, locals, monitors
<1>3. /\ at[t] = "enter" /\ reader[t].queue \in Queues
      /\ reader'[t].queue = reader[t].queue
      /\ \A b \in Readers : b # t => reader'[b] = reader[b]
      /\ owner[reader[t].queue] = None /\ owner'[reader[t].queue] = t
      /\ \A q \in Queues : q # reader[t].queue => owner'[q] = owner[q]
  BY Kinds DEF BaseInv, TypeOK, Enter, PlacesInv, ReadersOK
<1>4. owner' \in [Queues -> Readers \cup {None}]
  BY Kinds DEF BaseInv, TypeOK, Enter
<1>5. reader' \in [Readers -> ReaderLocals]
  <2>1. reader'[t] \in ReaderLocals
    <3>1. reader[t] \in ReaderLocals /\ indexLastRead[reader[t].queue] + 1 \in Nat
      BY <1>3 DEF BaseInv, TypeOK, ReaderLocals
    <3>2. [reader[t] EXCEPT !.next = indexLastRead[reader[t].queue] + 1] \in ReaderLocals
      BY <3>1, ReaderFields
    <3>3. reader'[t] = [[reader[t] EXCEPT !.next = indexLastRead[reader[t].queue] + 1] EXCEPT !.i = 0]
      BY DEF BaseInv, TypeOK, Enter
    <3> QED BY <3>2, <3>3, ReaderFields, ZenonT(40)
  <2>2. reader' = [b \in Readers |-> IF b = t THEN reader'[t] ELSE reader[b]]
    BY Kinds DEF BaseInv, TypeOK, Enter
  <2>3. \A b \in Readers : reader[b] \in ReaderLocals
    BY DEF BaseInv, TypeOK, ReaderLocals
  <2> QED BY <2>1, <2>2, <2>3
<1>6. TypeOK'
  BY <1>1, <1>2, <1>4, <1>5
  DEF BaseInv, TypeOK, Moves, ReaderLocals, UserLocals
<1>7. ReadersOK'
  BY <1>1, <1>2, <1>3, Kinds DEF BaseInv, PlacesInv, ReadersOK, Moves, InTheMonitor
<1>8. TimersOK'
  BY <1>1, <1>2, <1>3, Kinds DEF BaseInv, PlacesInv, TimersOK, Moves
<1>9. PutterOK'
  BY <1>1, <1>2, <1>3, Kinds DEF BaseInv, PlacesInv, PutterOK, Moves
<1>10. UserOK'
  BY <1>1, <1>2, <1>3, Kinds DEF BaseInv, PlacesInv, UserOK, Moves
<1>11. HandsOK'
  BY <1>1, <1>2, <1>3, Kinds DEF BaseInv, PlacesInv, HandsOK, Moves
<1>12. ListedIsSent'
  BY <1>1, <1>2, <1>3, Kinds DEF BaseInv, PlacesInv, ListedIsSent, Moves
<1>13. MonitorsAgree'
  BY <1>1, <1>2, <1>3, Kinds, AgentAssumption
  DEF BaseInv, PlacesInv, ReadersOK, MonitorsAgree, Moves, AgentAssumption
<1> QED BY <1>6, <1>7, <1>8, <1>9, <1>10, <1>11, <1>12, <1>13 DEF BaseInv, PlacesInv

LEMMA BaseKeep ==
  ASSUME BaseInv, NEW t \in Readers, Keep(t)
  PROVE  BaseInv'
<1>1. Moves(t, "for") \/ Moves(t, "idle")
  BY GotoMoves, Kinds DEF BaseInv, Keep, GoOn, Places
<1>2. UNCHANGED <<messages, indexLastRead, waiting, agent, replies, acceptReplies, waitForReply,
                complete, answered, target, user, passed, overlooked>>
  BY DEF Keep, GoOn, flags, history, lists, locals, monitors
<1>3. /\ at[t] = "check" /\ reader[t].queue \in Queues
      /\ info'[t] = None
      /\ \A b \in Threads : b # t => info'[b] = info[b]
      /\ \A b \in Readers : b # t => reader'[b] = reader[b]
      /\ \/ reader'[t].queue = reader[t].queue /\ owner' = owner /\ at'[t] = "for"
         \/ /\ reader'[t].queue = None /\ at'[t] = "idle"
            /\ owner'[reader[t].queue] = None
            /\ \A q \in Queues : q # reader[t].queue => owner'[q] = owner[q]
  BY Kinds DEF BaseInv, TypeOK, Keep, GoOn, Goto, Nothing, PlacesInv, ReadersOK
<1>4. owner' \in [Queues -> Readers \cup {None}]
  BY Kinds DEF BaseInv, TypeOK, Keep, GoOn, Nothing
<1>5. info' \in [Threads -> Requests \cup {None}]
  BY Kinds DEF BaseInv, TypeOK, Keep, GoOn, Nothing
<1>6. reader' \in [Readers -> ReaderLocals]
  <2>1. reader'[t] \in ReaderLocals
    <3>1. reader[t] \in ReaderLocals /\ reader[t].i \in Nat /\ Nothing \in ReaderLocals
      BY DEF BaseInv, TypeOK, ReaderLocals, Nothing
    <3>2. reader'[t] = Nothing \/ reader'[t] = [reader[t] EXCEPT !.i = reader[t].i + 1]
      BY DEF BaseInv, TypeOK, Keep, GoOn
    <3>3. reader[t].i + 1 \in Nat
      BY <3>1
    <3>4. [reader[t] EXCEPT !.i = reader[t].i + 1] \in ReaderLocals
      BY <3>1, <3>3, ReaderFields
    <3> QED BY <3>1, <3>2, <3>4
  <2>2. reader' = [b \in Readers |-> IF b = t THEN reader'[t] ELSE reader[b]]
    BY Kinds DEF BaseInv, TypeOK, Keep, GoOn
  <2>3. \A b \in Readers : reader[b] \in ReaderLocals
    BY DEF BaseInv, TypeOK, ReaderLocals
  <2> QED BY <2>1, <2>2, <2>3
<1>7. TypeOK'
  BY <1>1, <1>2, <1>4, <1>5, <1>6
  DEF BaseInv, TypeOK, Moves, ReaderLocals, UserLocals
<1>8. ReadersOK'
  BY <1>1, <1>2, <1>3, Kinds DEF BaseInv, PlacesInv, ReadersOK, Moves, InTheMonitor
<1>9. TimersOK'
  BY <1>1, <1>2, <1>3, Kinds DEF BaseInv, PlacesInv, TimersOK, Moves
<1>10. PutterOK'
  BY <1>1, <1>2, <1>3, Kinds DEF BaseInv, PlacesInv, PutterOK, Moves
<1>11. UserOK'
  BY <1>1, <1>2, <1>3, Kinds DEF BaseInv, PlacesInv, UserOK, Moves
<1>12. HandsOK'
  BY <1>1, <1>2, <1>3, Kinds DEF BaseInv, PlacesInv, HandsOK, Moves
<1>13. ListedIsSent'
  BY <1>1, <1>2, <1>3, Kinds DEF BaseInv, PlacesInv, ListedIsSent, Moves
<1>14. MonitorsAgree'
  BY <1>1, <1>2, <1>3, Kinds, AgentAssumption
  DEF BaseInv, PlacesInv, ReadersOK, MonitorsAgree, Moves, AgentAssumption
<1> QED BY <1>7, <1>8, <1>9, <1>10, <1>11, <1>12, <1>13, <1>14 DEF BaseInv, PlacesInv

LEMMA BaseDropped ==
  ASSUME BaseInv, NEW t \in Readers, Dropped(t)
  PROVE  BaseInv'
<1>1. Moves(t, "for") \/ Moves(t, "idle")
  BY GotoMoves, Kinds DEF BaseInv, Dropped, GoOn, Places
<1>2. UNCHANGED <<messages, indexLastRead, waiting, agent, replies, acceptReplies, waitForReply,
                complete, answered, target, user, passed, overlooked>>
  BY DEF Dropped, GoOn, flags, history, lists, locals, monitors
<1>3. /\ at[t] = "looked" /\ reader[t].queue \in Queues
      /\ info'[t] = None
      /\ \A b \in Threads : b # t => info'[b] = info[b]
      /\ \A b \in Readers : b # t => reader'[b] = reader[b]
      /\ \/ reader'[t].queue = reader[t].queue /\ owner' = owner /\ at'[t] = "for"
         \/ /\ reader'[t].queue = None /\ at'[t] = "idle"
            /\ owner'[reader[t].queue] = None
            /\ \A q \in Queues : q # reader[t].queue => owner'[q] = owner[q]
  BY Kinds DEF BaseInv, TypeOK, Dropped, GoOn, Goto, Nothing, PlacesInv, ReadersOK
<1>4. owner' \in [Queues -> Readers \cup {None}]
  BY Kinds DEF BaseInv, TypeOK, Dropped, GoOn, Nothing
<1>5. info' \in [Threads -> Requests \cup {None}]
  BY Kinds DEF BaseInv, TypeOK, Dropped, GoOn, Nothing
<1>6. reader' \in [Readers -> ReaderLocals]
  <2>1. reader'[t] \in ReaderLocals
    <3>1. reader[t] \in ReaderLocals /\ reader[t].i \in Nat /\ Nothing \in ReaderLocals
      BY DEF BaseInv, TypeOK, ReaderLocals, Nothing
    <3>2. reader'[t] = Nothing \/ reader'[t] = [reader[t] EXCEPT !.i = reader[t].i]
      BY DEF BaseInv, TypeOK, Dropped, GoOn
    <3>3. reader[t].i \in Nat
      BY <3>1
    <3>4. [reader[t] EXCEPT !.i = reader[t].i] \in ReaderLocals
      BY <3>1, <3>3, ReaderFields
    <3> QED BY <3>1, <3>2, <3>4
  <2>2. reader' = [b \in Readers |-> IF b = t THEN reader'[t] ELSE reader[b]]
    BY Kinds DEF BaseInv, TypeOK, Dropped, GoOn
  <2>3. \A b \in Readers : reader[b] \in ReaderLocals
    BY DEF BaseInv, TypeOK, ReaderLocals
  <2> QED BY <2>1, <2>2, <2>3
<1>7. TypeOK'
  BY <1>1, <1>2, <1>4, <1>5, <1>6
  DEF BaseInv, TypeOK, Moves, ReaderLocals, UserLocals
<1>8. ReadersOK'
  BY <1>1, <1>2, <1>3, Kinds DEF BaseInv, PlacesInv, ReadersOK, Moves, InTheMonitor
<1>9. TimersOK'
  BY <1>1, <1>2, <1>3, Kinds DEF BaseInv, PlacesInv, TimersOK, Moves
<1>10. PutterOK'
  BY <1>1, <1>2, <1>3, Kinds DEF BaseInv, PlacesInv, PutterOK, Moves
<1>11. UserOK'
  BY <1>1, <1>2, <1>3, Kinds DEF BaseInv, PlacesInv, UserOK, Moves
<1>12. HandsOK'
  BY <1>1, <1>2, <1>3, Kinds DEF BaseInv, PlacesInv, HandsOK, Moves
<1>13. ListedIsSent'
  BY <1>1, <1>2, <1>3, Kinds DEF BaseInv, PlacesInv, ListedIsSent, Moves
<1>14. MonitorsAgree'
  BY <1>1, <1>2, <1>3, Kinds, AgentAssumption
  DEF BaseInv, PlacesInv, ReadersOK, MonitorsAgree, Moves, AgentAssumption
<1> QED BY <1>7, <1>8, <1>9, <1>10, <1>11, <1>12, <1>13, <1>14 DEF BaseInv, PlacesInv

LEMMA BaseReceive ==
  ASSUME BaseInv, NEW r \in Requests, Receive(r)
  PROVE  BaseInv'
<1>1. Moves("putter", "add")
  BY GotoMoves, Kinds DEF BaseInv, Receive, Places
<1>2. UNCHANGED <<messages, indexLastRead, owner, waiting, agent, replies, acceptReplies,
                waitForReply, complete, target, reader, user, passed, overlooked>>
  BY DEF Receive, flags, history, lists, locals, monitors
<1>3. /\ at["putter"] = "idle" /\ r # None /\ agent[r] # None
      /\ info'["putter"] = r
      /\ \A b \in Threads : b # "putter" => info'[b] = info[b]
      /\ answered'[r] > 0
  BY Kinds, AgentAssumption DEF BaseInv, TypeOK, Receive, AgentAssumption, Sent
<1>4. answered' \in [Requests -> 0..Answers]
  BY <1>3, Kinds, AgentAssumption DEF BaseInv, TypeOK, Receive, AgentAssumption
<1>5. info' \in [Threads -> Requests \cup {None}]
  BY Kinds DEF BaseInv, TypeOK, Receive
<1>6. TypeOK'
  BY <1>1, <1>2, <1>4, <1>5
  DEF BaseInv, TypeOK, Moves, ReaderLocals, UserLocals
<1>7. ReadersOK'
  BY <1>1, <1>2, <1>3, Kinds DEF BaseInv, PlacesInv, ReadersOK, Moves, InTheMonitor
<1>8. TimersOK'
  BY <1>1, <1>2, <1>3, Kinds DEF BaseInv, PlacesInv, TimersOK, Moves
<1>9. PutterOK'
  BY <1>1, <1>2, <1>3, Kinds DEF BaseInv, PlacesInv, PutterOK, Moves
<1>10. UserOK'
  BY <1>1, <1>2, <1>3, Kinds DEF BaseInv, PlacesInv, UserOK, Moves
<1>11. HandsOK'
  BY <1>1, <1>2, <1>3, Kinds DEF BaseInv, PlacesInv, HandsOK, Moves
<1>12. ListedIsSent'
  BY <1>1, <1>2, <1>3, Kinds DEF BaseInv, PlacesInv, ListedIsSent, Moves
<1>13. MonitorsAgree'
  <2>1. \A b \in Readers : /\ reader'[b].queue = reader[b].queue
                           /\ Inside(b)' = Inside(b)
                           /\ (at'[b] = "wait") = (at[b] = "wait")
    BY <1>1, <1>2, <1>3, Kinds DEF Moves, Inside
  <2>2. UNCHANGED monitors
    BY <1>2 DEF monitors
  <2> QED BY <2>1, <2>2, MonitorsFrame DEF BaseInv
<1> QED BY <1>6, <1>7, <1>8, <1>9, <1>10, <1>11, <1>12, <1>13 DEF BaseInv, PlacesInv

LEMMA BaseAddReply ==
  ASSUME BaseInv, AddReply
  PROVE  BaseInv'
<1>1. Moves("putter", "settle") \/ Moves("putter", "aim")
  BY GotoMoves, Kinds DEF BaseInv, AddReply, Places
<1>2. UNCHANGED <<messages, indexLastRead, owner, waiting, agent, acceptReplies, waitForReply,
                complete, answered, info, target, reader, user, passed, overlooked>>
  BY DEF AddReply, flags, history, lists, locals, monitors
<1>3. /\ at["putter"] = "add" /\ info["putter"] \in Requests /\ info["putter"] # None
      /\ agent[info["putter"]] # None /\ answered[info["putter"]] \in 1..Answers
  BY Kinds DEF BaseInv, TypeOK, AddReply, PlacesInv, PutterOK
<1>4. replies' \in [Requests -> Seq(Replies)]
  BY <1>3, Kinds DEF BaseInv, TypeOK, AddReply, Replies, TimedOut
<1>5. TypeOK'
  BY <1>1, <1>2, <1>4
  DEF BaseInv, TypeOK, Moves, ReaderLocals, UserLocals
<1>6. ReadersOK'
  BY <1>1, <1>2, <1>3, Kinds DEF BaseInv, PlacesInv, ReadersOK, Moves, InTheMonitor
<1>7. TimersOK'
  BY <1>1, <1>2, <1>3, Kinds DEF BaseInv, PlacesInv, TimersOK, Moves
<1>8. PutterOK'
  BY <1>1, <1>2, <1>3, Kinds DEF BaseInv, PlacesInv, PutterOK, Moves
<1>9. UserOK'
  BY <1>1, <1>2, <1>3, Kinds DEF BaseInv, PlacesInv, UserOK, Moves
<1>10. HandsOK'
  BY <1>1, <1>2, <1>3, Kinds DEF BaseInv, PlacesInv, HandsOK, Moves
<1>11. ListedIsSent'
  BY <1>1, <1>2, <1>3, Kinds DEF BaseInv, PlacesInv, ListedIsSent, Moves
<1>12. MonitorsAgree'
  <2>1. \A b \in Readers : /\ reader'[b].queue = reader[b].queue
                           /\ Inside(b)' = Inside(b)
                           /\ (at'[b] = "wait") = (at[b] = "wait")
    BY <1>1, <1>2, <1>3, Kinds DEF Moves, Inside
  <2>2. UNCHANGED monitors
    BY <1>2 DEF monitors
  <2> QED BY <2>1, <2>2, MonitorsFrame DEF BaseInv
<1> QED BY <1>5, <1>6, <1>7, <1>8, <1>9, <1>10, <1>11, <1>12 DEF BaseInv, PlacesInv

LEMMA BaseSettle ==
  ASSUME BaseInv, Settle
  PROVE  BaseInv'
<1>1. Moves("putter", "aim")
  BY GotoMoves, Kinds DEF BaseInv, Settle, Places
<1>2. UNCHANGED <<messages, indexLastRead, owner, waiting, agent, replies, waitForReply,
                answered, info, target, reader, user, passed, overlooked>>
  BY DEF Settle, flags, history, lists, locals, monitors
<1>3. /\ at["putter"] = "settle" /\ info["putter"] \in Requests /\ info["putter"] # None
      /\ agent[info["putter"]] # None
  BY Kinds DEF BaseInv, TypeOK, Settle, PlacesInv, PutterOK
<1>4. acceptReplies' \in [Requests -> BOOLEAN]
  BY Kinds DEF BaseInv, TypeOK, Settle
<1>5. complete' \in [Requests -> BOOLEAN]
  BY Kinds DEF BaseInv, TypeOK, Settle
<1>6. TypeOK'
  BY <1>1, <1>2, <1>4, <1>5
  DEF BaseInv, TypeOK, Moves, ReaderLocals, UserLocals
<1>7. ReadersOK'
  BY <1>1, <1>2, <1>3, Kinds DEF BaseInv, PlacesInv, ReadersOK, Moves, InTheMonitor
<1>8. TimersOK'
  BY <1>1, <1>2, <1>3, Kinds DEF BaseInv, PlacesInv, TimersOK, Moves
<1>9. PutterOK'
  BY <1>1, <1>2, <1>3, Kinds DEF BaseInv, PlacesInv, PutterOK, Moves
<1>10. UserOK'
  BY <1>1, <1>2, <1>3, Kinds DEF BaseInv, PlacesInv, UserOK, Moves
<1>11. HandsOK'
  BY <1>1, <1>2, <1>3, Kinds DEF BaseInv, PlacesInv, HandsOK, Moves
<1>12. ListedIsSent'
  BY <1>1, <1>2, <1>3, Kinds DEF BaseInv, PlacesInv, ListedIsSent, Moves
<1>13. MonitorsAgree'
  <2>1. \A b \in Readers : /\ reader'[b].queue = reader[b].queue
                           /\ Inside(b)' = Inside(b)
                           /\ (at'[b] = "wait") = (at[b] = "wait")
    BY <1>1, <1>2, <1>3, Kinds DEF Moves, Inside
  <2>2. UNCHANGED monitors
    BY <1>2 DEF monitors
  <2> QED BY <2>1, <2>2, MonitorsFrame DEF BaseInv
<1> QED BY <1>6, <1>7, <1>8, <1>9, <1>10, <1>11, <1>12, <1>13 DEF BaseInv, PlacesInv

LEMMA BaseFire ==
  ASSUME BaseInv, NEW r \in TimeLimited, Fire(r)
  PROVE  BaseInv'
<1>1. Moves(r, "abandon")
  BY GotoMoves, Kinds DEF BaseInv, Fire, Places
<1>2. UNCHANGED <<messages, indexLastRead, owner, waiting, agent, replies, waitForReply,
                complete, answered, info, target, reader, user, passed, overlooked>>
  BY DEF Fire, flags, history, lists, locals, monitors
<1>3. /\ at[r] = "idle" /\ agent[r] # None
  BY Kinds DEF BaseInv, TypeOK, Fire, Sent
<1>4. acceptReplies' \in [Requests -> BOOLEAN]
  BY Kinds DEF BaseInv, TypeOK, Fire
<1>5. TypeOK'
  BY <1>1, <1>2, <1>4
  DEF BaseInv, TypeOK, Moves, ReaderLocals, UserLocals
<1>6. ReadersOK'
  BY <1>1, <1>2, <1>3, Kinds DEF BaseInv, PlacesInv, ReadersOK, Moves, InTheMonitor
<1>7. TimersOK'
  BY <1>1, <1>2, <1>3, Kinds DEF BaseInv, PlacesInv, TimersOK, Moves
<1>8. PutterOK'
  BY <1>1, <1>2, <1>3, Kinds DEF BaseInv, PlacesInv, PutterOK, Moves
<1>9. UserOK'
  BY <1>1, <1>2, <1>3, Kinds DEF BaseInv, PlacesInv, UserOK, Moves
<1>10. HandsOK'
  BY <1>1, <1>2, <1>3, Kinds DEF BaseInv, PlacesInv, HandsOK, Moves
<1>11. ListedIsSent'
  BY <1>1, <1>2, <1>3, Kinds DEF BaseInv, PlacesInv, ListedIsSent, Moves
<1>12. MonitorsAgree'
  <2>1. \A b \in Readers : /\ reader'[b].queue = reader[b].queue
                           /\ Inside(b)' = Inside(b)
                           /\ (at'[b] = "wait") = (at[b] = "wait")
    BY <1>1, <1>2, <1>3, Kinds DEF Moves, Inside
  <2>2. UNCHANGED monitors
    BY <1>2 DEF monitors
  <2> QED BY <2>1, <2>2, MonitorsFrame DEF BaseInv
<1> QED BY <1>5, <1>6, <1>7, <1>8, <1>9, <1>10, <1>11, <1>12 DEF BaseInv, PlacesInv

LEMMA BaseAbandonInforming ==
  ASSUME BaseInv, NEW r \in TimeLimited, AbandonInforming(r)
  PROVE  BaseInv'
<1>1. Moves(r, "tell") \/ Moves(r, "end")
  BY GotoMoves, Kinds DEF BaseInv, AbandonInforming, Places
<1>2. UNCHANGED <<messages, indexLastRead, owner, waiting, agent, replies, acceptReplies,
                complete, answered, info, target, reader, user, passed, overlooked>>
  BY DEF AbandonInforming, flags, history, lists, locals, monitors
<1>3. /\ at[r] = "abandon"
  BY Kinds DEF BaseInv, TypeOK, AbandonInforming
<1>4. waitForReply' \in [Requests -> BOOLEAN]
  BY Kinds DEF BaseInv, TypeOK, AbandonInforming
<1>5. TypeOK'
  BY <1>1, <1>2, <1>4
  DEF BaseInv, TypeOK, Moves, ReaderLocals, UserLocals
<1>6. ReadersOK'
  BY <1>1, <1>2, <1>3, Kinds DEF BaseInv, PlacesInv, ReadersOK, Moves, InTheMonitor
<1>7. TimersOK'
  BY <1>1, <1>2, <1>3, Kinds DEF BaseInv, PlacesInv, TimersOK, Moves
<1>8. PutterOK'
  BY <1>1, <1>2, <1>3, Kinds DEF BaseInv, PlacesInv, PutterOK, Moves
<1>9. UserOK'
  BY <1>1, <1>2, <1>3, Kinds DEF BaseInv, PlacesInv, UserOK, Moves
<1>10. HandsOK'
  BY <1>1, <1>2, <1>3, Kinds DEF BaseInv, PlacesInv, HandsOK, Moves
<1>11. ListedIsSent'
  BY <1>1, <1>2, <1>3, Kinds DEF BaseInv, PlacesInv, ListedIsSent, Moves
<1>12. MonitorsAgree'
  <2>1. \A b \in Readers : /\ reader'[b].queue = reader[b].queue
                           /\ Inside(b)' = Inside(b)
                           /\ (at'[b] = "wait") = (at[b] = "wait")
    BY <1>1, <1>2, <1>3, Kinds DEF Moves, Inside
  <2>2. UNCHANGED monitors
    BY <1>2 DEF monitors
  <2> QED BY <2>1, <2>2, MonitorsFrame DEF BaseInv
<1> QED BY <1>5, <1>6, <1>7, <1>8, <1>9, <1>10, <1>11, <1>12 DEF BaseInv, PlacesInv

LEMMA BaseTell ==
  ASSUME BaseInv, NEW r \in TimeLimited, Tell(r)
  PROVE  BaseInv'
<1>1. Moves(r, "aim")
  BY GotoMoves, Kinds DEF BaseInv, Tell, Places
<1>2. UNCHANGED <<messages, indexLastRead, owner, waiting, agent, acceptReplies, waitForReply,
                complete, answered, info, target, reader, user, passed, overlooked>>
  BY DEF Tell, flags, history, lists, locals, monitors
<1>3. /\ at[r] = "tell" /\ info[r] = r /\ r \in Requests /\ r # None /\ agent[r] # None
  BY Kinds, AgentAssumption DEF BaseInv, TypeOK, Tell, PlacesInv, TimersOK, AgentAssumption
<1>4. replies' \in [Requests -> Seq(Replies)]
  <2>1. replies \in [Requests -> Seq(Replies)] /\ TimedOut \in Replies
    BY DEF BaseInv, TypeOK, Replies, TimedOut
  <2>2. Append(replies[r], TimedOut) \in Seq(Replies)
    BY <1>3, <2>1
  <2>3. replies' = [replies EXCEPT ![r] = Append(replies[r], TimedOut)]
    BY DEF Tell
  <2> QED BY <2>1, <2>2, <2>3
<1>5. TypeOK'
  BY <1>1, <1>2, <1>4
  DEF BaseInv, TypeOK, Moves, ReaderLocals, UserLocals
<1>6. ReadersOK'
  BY <1>1, <1>2, <1>3, Kinds DEF BaseInv, PlacesInv, ReadersOK, Moves, InTheMonitor
<1>7. TimersOK'
  BY <1>1, <1>2, <1>3, Kinds DEF BaseInv, PlacesInv, TimersOK, Moves
<1>8. PutterOK'
  BY <1>1, <1>2, <1>3, Kinds DEF BaseInv, PlacesInv, PutterOK, Moves
<1>9. UserOK'
  BY <1>1, <1>2, <1>3, Kinds DEF BaseInv, PlacesInv, UserOK, Moves
<1>10. HandsOK'
  BY <1>1, <1>2, <1>3, Kinds DEF BaseInv, PlacesInv, HandsOK, Moves
<1>11. ListedIsSent'
  BY <1>1, <1>2, <1>3, Kinds DEF BaseInv, PlacesInv, ListedIsSent, Moves
<1>12. MonitorsAgree'
  <2>1. \A b \in Readers : /\ reader'[b].queue = reader[b].queue
                           /\ Inside(b)' = Inside(b)
                           /\ (at'[b] = "wait") = (at[b] = "wait")
    BY <1>1, <1>2, <1>3, Kinds DEF Moves, Inside
  <2>2. UNCHANGED monitors
    BY <1>2 DEF monitors
  <2> QED BY <2>1, <2>2, MonitorsFrame DEF BaseInv
<1> QED BY <1>5, <1>6, <1>7, <1>8, <1>9, <1>10, <1>11, <1>12 DEF BaseInv, PlacesInv

LEMMA BaseMergeName ==
  ASSUME BaseInv, MergeName
  PROVE  BaseInv'
<1>1. Moves("user", "merge")
  BY GotoMoves, Kinds DEF BaseInv, MergeName, Places
<1>2. UNCHANGED <<messages, indexLastRead, owner, waiting, replies, acceptReplies, waitForReply,
                complete, answered, info, target, reader, passed, overlooked>>
  BY DEF MergeName, flags, history, lists, locals, monitors
<1>3. /\ at["user"] = "name" /\ user.queue \in Queues /\ user.queue # None /\ user.i < Len(user.list)
      /\ \A r \in Requests : agent'[r] \in {agent[r], user.queue}
      /\ user'.queue = user.queue /\ user'.list = user.list /\ user'.i = user.i + 1
      /\ user.i \in Nat /\ Len(user.list) \in Nat
      /\ \A t \in Threads : info[t] \in Requests \cup {None}
      /\ \A q \in Queues : \A k \in 1..Len(messages[q]) : messages[q][k] \in Requests
      /\ \A k \in 1..Len(user.list) : user.list[k] \in Requests
  <2>1. /\ at["user"] = "name" /\ user.queue \in Queues /\ user.queue # None /\ user.i < Len(user.list)
        /\ \A r \in Requests : agent'[r] \in {agent[r], user.queue}
        /\ user'.queue = user.queue /\ user'.list = user.list /\ user'.i = user.i + 1
        /\ user.i \in Nat /\ Len(user.list) \in Nat
    BY Kinds DEF BaseInv, TypeOK, MergeName, PlacesInv, UserOK
  <2>2. /\ \A t \in Threads : info[t] \in Requests \cup {None}
        /\ \A q \in Queues : \A k \in 1..Len(messages[q]) : messages[q][k] \in Requests
        /\ \A k \in 1..Len(user.list) : user.list[k] \in Requests
    BY DEF BaseInv, TypeOK
  <2> QED BY <2>1, <2>2
<1>4. agent' \in [Requests -> Queues \cup {None}]
  BY <1>3, Kinds DEF BaseInv, TypeOK, MergeName
<1>5. user' \in UserLocals
  <2>1. user \in UserLocals /\ user' = [user EXCEPT !.i = user.i + 1]
    BY DEF BaseInv, TypeOK, UserLocals, MergeName
  <2> QED BY <2>1 DEF UserLocals
<1>6. TypeOK'
  BY <1>1, <1>2, <1>4, <1>5
  DEF BaseInv, TypeOK, Moves, ReaderLocals, UserLocals
<1>7. ReadersOK'
  BY <1>1, <1>2, <1>3, Kinds DEF BaseInv, PlacesInv, ReadersOK, Moves, InTheMonitor
<1>8. TimersOK'
  BY <1>1, <1>2, <1>3, Kinds DEF BaseInv, PlacesInv, TimersOK, Moves
<1>9. PutterOK'
  BY <1>1, <1>2, <1>3, Kinds DEF BaseInv, PlacesInv, PutterOK, Moves
<1>10. UserOK'
  BY <1>1, <1>2, <1>3, Kinds DEF BaseInv, PlacesInv, UserOK, Moves
<1>11. HandsOK'
  BY <1>1, <1>2, <1>3, Kinds DEF BaseInv, PlacesInv, HandsOK, Moves
<1>12. ListedIsSent'
  <2>1. \A r \in Requests : agent[r] # None => agent'[r] # None
    BY <1>3
  <2>2. \A q \in Queues : \A k \in 1..Len(messages[q]) :
          messages[q][k] \in Requests /\ agent[messages[q][k]] # None
    BY <1>3 DEF BaseInv, PlacesInv, ListedIsSent
  <2>3. \A k \in 1..Len(user.list) : user.list[k] \in Requests /\ agent[user.list[k]] # None
    BY <1>3 DEF BaseInv, PlacesInv, ListedIsSent
  <2>4. messages' = messages /\ user'.list = user.list
    BY <1>2, <1>3 DEF lists
  <2> QED BY <2>1, <2>2, <2>3, <2>4 DEF ListedIsSent
<1>13. MonitorsAgree'
  <2>1. \A b \in Readers : /\ reader'[b].queue = reader[b].queue
                           /\ Inside(b)' = Inside(b)
                           /\ (at'[b] = "wait") = (at[b] = "wait")
    BY <1>1, <1>2, <1>3, Kinds DEF Moves, Inside
  <2>2. UNCHANGED monitors
    BY <1>2 DEF monitors
  <2> QED BY <2>1, <2>2, MonitorsFrame DEF BaseInv
<1> QED BY <1>6, <1>7, <1>8, <1>9, <1>10, <1>11, <1>12, <1>13 DEF BaseInv, PlacesInv

LEMMA LookFacts ==
  ASSUME BaseInv, NEW t \in Readers, Look(t)
  PROVE  LET q == reader[t].queue
             n == InTurn(t)
             r == messages[q][n + 1] IN
         /\ q \in Queues
         /\ n \in Nat /\ n + 1 \in 1..Len(messages[q])
         /\ n = reader[t].next \/ (n = 0 /\ reader[t].next >= Len(messages[q]))
         /\ r \in Requests /\ r # None /\ agent[r] # None
<1> DEFINE q == reader[t].queue
           n == InTurn(t)
           r == messages[q][n + 1]
<1>1. at[t] = "for" /\ reader[t].i < Len(messages[q])
  BY DEF Look
<1>2. q \in Queues /\ reader[t].next \in Nat /\ reader[t].i \in Nat
  BY <1>1, Kinds DEF BaseInv, TypeOK, PlacesInv, ReadersOK
<1>3. messages[q] \in Seq(Requests)
  BY <1>2 DEF BaseInv, TypeOK
<1>4. /\ n \in Nat /\ n + 1 \in 1..Len(messages[q])
      /\ n = reader[t].next \/ (n = 0 /\ reader[t].next >= Len(messages[q]))
  BY <1>1, <1>2, <1>3 DEF InTurn
<1> HIDE DEF n
<1>5. r \in Requests /\ agent[r] # None
  BY <1>2, <1>3, <1>4 DEF BaseInv, PlacesInv, ListedIsSent
<1> QED BY <1>2, <1>4, <1>5, AgentAssumption DEF n, AgentAssumption

LEMMA BaseLook ==
  ASSUME BaseInv, NEW t \in Readers, Look(t)
  PROVE  BaseInv'
<1>1. Moves(t, "check")
  BY GotoMoves, Kinds DEF BaseInv, Look, Places
<1>2. UNCHANGED <<messages, owner, waiting, agent, acceptReplies, waitForReply, complete,
                answered, target, user>>
  BY DEF Look, flags, lists, locals, monitors
<1>3. /\ at[t] = "for"
      /\ info'[t] \in Requests /\ info'[t] # None /\ agent[info'[t]] # None
      /\ \A b \in Threads : b # t => info'[b] = info[b]
      /\ reader'[t].queue = reader[t].queue
      /\ \A b \in Readers : b # t => reader'[b] = reader[b]
  BY Kinds, LookFacts, ZenonT(40) DEF BaseInv, TypeOK, Look
<1>4. indexLastRead' \in [Queues -> Nat]
  BY LookFacts DEF BaseInv, TypeOK, Look
<1>5. replies' \in [Requests -> Seq(Replies)]
  <2> DEFINE r == messages[reader[t].queue][InTurn(t) + 1]
  <2>1. r \in Requests /\ replies[r] \in Seq(Replies)
    BY LookFacts DEF BaseInv, TypeOK
  <2>2. replies[r] # <<>> => Tail(replies[r]) \in Seq(Replies)
    BY <2>1
  <2> QED BY <2>1, <2>2 DEF BaseInv, TypeOK, Look
<1>6. info' \in [Threads -> Requests \cup {None}]
  BY <1>3, Kinds DEF BaseInv, TypeOK, Look
<1>7. reader' \in [Readers -> ReaderLocals]
  <2>1. reader'[t] \in ReaderLocals
    <3>1. reader[t] \in ReaderLocals /\ InTurn(t) + 1 \in Nat
      BY LookFacts DEF BaseInv, TypeOK, ReaderLocals
    <3> DEFINE r == messages[reader[t].queue][InTurn(t) + 1]
               f == IF replies[r] # <<>> THEN Head(replies[r]) ELSE NoReply
               g == [reader[t] EXCEPT !.next = InTurn(t) + 1]
    <3>2. f \in Replies \cup {NoReply}
      <4>1. replies[r] \in Seq(Replies)
        BY LookFacts DEF BaseInv, TypeOK
      <4> QED BY <4>1
    <3>3. reader'[t] = [g EXCEPT !.rfcMsg = f]
      BY DEF BaseInv, TypeOK, Look
    <3>4. g \in ReaderLocals
      BY <3>1, ReaderFields
    <3> HIDE DEF f, g
    <3> QED BY <3>2, <3>3, <3>4, ReaderFields
  <2>2. reader' = [b \in Readers |-> IF b = t THEN reader'[t] ELSE reader[b]]
    BY Kinds DEF BaseInv, TypeOK, Look
  <2>3. \A b \in Readers : reader[b] \in ReaderLocals
    BY DEF BaseInv, TypeOK, ReaderLocals
  <2> QED BY <2>1, <2>2, <2>3
<1>8. passed' \in [Requests -> [Requests -> Nat]]
  <2> DEFINE r == messages[reader[t].queue][InTurn(t) + 1]
  <2>1. r \in Requests /\ passed \in [Requests -> [Requests -> Nat]]
    BY LookFacts DEF BaseInv, TypeOK
  <2>2. \A s \in Requests : [passed[s] EXCEPT ![r] = @ + 1] \in [Requests -> Nat]
    BY <2>1
  <2>3. [o \in Requests |-> 0] \in [Requests -> Nat]
    OBVIOUS
  <2>4. \/ passed' = passed
        \/ \E S \in SUBSET Requests : passed' = [s \in Requests |->
                       IF s = r THEN [o \in Requests |-> 0]
                       ELSE IF s \in S THEN [passed[s] EXCEPT ![r] = @ + 1]
                       ELSE passed[s]]
    <3> DEFINE S == {s \in Requests :
                       s \in ToSet(messages[reader[t].queue]) /\ replies[s] # <<>>}
    <3>1. \A s \in Requests : s \in S <=>
            s \in {x \in ToSet(messages[reader[t].queue]) : replies[x] # <<>>}
      OBVIOUS
    <3>2. S \in SUBSET Requests
      OBVIOUS
    <3> QED BY <3>1, <3>2 DEF Look
  <2> HIDE DEF r
  <2>5. ASSUME NEW S \in SUBSET Requests,
               passed' = [s \in Requests |->
                            IF s = r THEN [o \in Requests |-> 0]
                            ELSE IF s \in S THEN [passed[s] EXCEPT ![r] = @ + 1]
                            ELSE passed[s]]
        PROVE  passed' \in [Requests -> [Requests -> Nat]]
    <3>1. \A s \in Requests : passed[s] \in [Requests -> Nat]
      BY <2>1
    <3>2. \A s \in Requests : (IF s = r THEN [o \in Requests |-> 0]
                               ELSE IF s \in S THEN [passed[s] EXCEPT ![r] = @ + 1]
                               ELSE passed[s]) \in [Requests -> Nat]
      BY <2>2, <2>3, <3>1
    <3> QED BY <2>5, <3>2
  <2> QED BY <2>1, <2>4, <2>5
<1>9. overlooked' \subseteq Requests
  BY DEF BaseInv, TypeOK, Look
<1>10. TypeOK'
  BY <1>1, <1>2, <1>4, <1>5, <1>6, <1>7, <1>8, <1>9
  DEF BaseInv, TypeOK, Moves, ReaderLocals, UserLocals
<1>11. ReadersOK'
  BY <1>1, <1>2, <1>3, Kinds DEF BaseInv, PlacesInv, ReadersOK, Moves, InTheMonitor
<1>12. TimersOK'
  BY <1>1, <1>2, <1>3, Kinds DEF BaseInv, PlacesInv, TimersOK, Moves
<1>13. PutterOK'
  BY <1>1, <1>2, <1>3, Kinds DEF BaseInv, PlacesInv, PutterOK, Moves
<1>14. UserOK'
  BY <1>1, <1>2, <1>3, Kinds DEF BaseInv, PlacesInv, UserOK, Moves
<1>15. HandsOK'
  BY <1>1, <1>2, <1>3, Kinds DEF BaseInv, PlacesInv, HandsOK, Moves
<1>16. ListedIsSent'
  BY <1>1, <1>2, <1>3, Kinds DEF BaseInv, PlacesInv, ListedIsSent, Moves
<1>17. MonitorsAgree'
  <2>1. \A b \in Readers : /\ reader'[b].queue = reader[b].queue
                           /\ Inside(b)' = Inside(b)
                           /\ (at'[b] = "wait") = (at[b] = "wait")
    BY <1>1, <1>2, <1>3, Kinds DEF Moves, Inside
  <2>2. UNCHANGED monitors
    BY <1>2 DEF monitors
  <2> QED BY <2>1, <2>2, MonitorsFrame DEF BaseInv
<1> QED BY <1>10, <1>11, <1>12, <1>13, <1>14, <1>15, <1>16, <1>17 DEF BaseInv, PlacesInv

LEMMA BaseDrop ==
  ASSUME BaseInv, NEW t \in Readers, Drop(t)
  PROVE  BaseInv'
<1>1. Moves(t, "aim") \/ Moves(t, "looked")
  BY GotoMoves, Kinds DEF BaseInv, Drop, Places
<1>2. UNCHANGED <<indexLastRead, owner, waiting, agent, answered, info, target, reader, user,
                passed>>
  BY DEF Drop, history, lists, locals, monitors
<1>3. /\ at[t] = "check" /\ info[t] \in Requests /\ info[t] # None /\ agent[info[t]] # None
      /\ reader[t].queue \in Queues
      /\ Fewer(messages, messages')
      /\ messages' \in [Queues -> Seq(Requests)]
      /\ replies' \in [Requests -> Seq(Replies)]
      /\ {acceptReplies', waitForReply', complete'} \subseteq [Requests -> BOOLEAN]
  <2>1. /\ at[t] = "check" /\ info[t] \in Requests /\ info[t] # None /\ agent[info[t]] # None
        /\ reader[t].queue \in Queues
    BY Kinds DEF BaseInv, TypeOK, Drop, PlacesInv, ReadersOK, HandsOK
  <2>2. Abandon(info[t], [messages EXCEPT ![reader[t].queue] = RemoveFirst(@, info[t])])
    BY DEF Drop
  <2> QED BY <2>1, <2>2, AbandonFacts DEF BaseInv
<1>4. messages' \in [Queues -> Seq(Requests)]
  BY <1>3
<1>5. replies' \in [Requests -> Seq(Replies)]
  BY <1>3
<1>6. acceptReplies' \in [Requests -> BOOLEAN]
  BY <1>3
<1>7. waitForReply' \in [Requests -> BOOLEAN]
  BY <1>3
<1>8. complete' \in [Requests -> BOOLEAN]
  BY <1>3
<1>9. overlooked' \subseteq Requests
  <2>1. messages[reader[t].queue] \in Seq(Requests)
    BY <1>3 DEF BaseInv, TypeOK
  <2> QED BY <2>1 DEF BaseInv, TypeOK, Drop
<1>10. TypeOK'
  BY <1>1, <1>2, <1>4, <1>5, <1>6, <1>7, <1>8, <1>9
  DEF BaseInv, TypeOK, Moves, ReaderLocals, UserLocals
<1>11. ReadersOK'
  BY <1>1, <1>2, <1>3, Kinds DEF BaseInv, PlacesInv, ReadersOK, Moves, InTheMonitor
<1>12. TimersOK'
  BY <1>1, <1>2, <1>3, Kinds DEF BaseInv, PlacesInv, TimersOK, Moves
<1>13. PutterOK'
  BY <1>1, <1>2, <1>3, Kinds DEF BaseInv, PlacesInv, PutterOK, Moves
<1>14. UserOK'
  BY <1>1, <1>2, <1>3, Kinds DEF BaseInv, PlacesInv, UserOK, Moves
<1>15. HandsOK'
  BY <1>1, <1>2, <1>3, Kinds DEF BaseInv, PlacesInv, HandsOK, Moves
<1>16. ListedIsSent'
  BY <1>2, <1>3, ListedShrinks DEF BaseInv, PlacesInv
<1>17. MonitorsAgree'
  <2>1. \A b \in Readers : /\ reader'[b].queue = reader[b].queue
                           /\ Inside(b)' = Inside(b)
                           /\ (at'[b] = "wait") = (at[b] = "wait")
    BY <1>1, <1>2, <1>3, Kinds DEF Moves, Inside
  <2>2. UNCHANGED monitors
    BY <1>2 DEF monitors
  <2> QED BY <2>1, <2>2, MonitorsFrame DEF BaseInv
<1> QED BY <1>10, <1>11, <1>12, <1>13, <1>14, <1>15, <1>16, <1>17 DEF BaseInv, PlacesInv

LEMMA BaseWait ==
  ASSUME BaseInv, NEW t \in Readers, Wait(t)
  PROVE  BaseInv'
<1>1. Moves(t, "wait") \/ Moves(t, "idle")
  BY GotoMoves, Kinds DEF BaseInv, Wait, Places
<1>2. UNCHANGED <<messages, indexLastRead, agent, replies, acceptReplies, waitForReply, complete,
                answered, info, target, user, passed, overlooked>>
  BY DEF Wait, flags, history, lists, locals
<1>3. /\ at[t] = "for" /\ reader[t].queue \in Queues
      /\ \A b \in Readers : b # t => reader'[b] = reader[b]
      /\ owner'[reader[t].queue] = None
      /\ \A q \in Queues : q # reader[t].queue => owner'[q] = owner[q]
      /\ \/ /\ at'[t] = "idle" /\ waiting' = waiting /\ reader'[t].queue = None
         \/ /\ at'[t] = "wait" /\ waiting' = [waiting EXCEPT ![reader[t].queue] = Append(@, t)]
            /\ reader'[t].queue = reader[t].queue
  <2>1. at[t] = "for" /\ reader[t].queue \in Queues
    BY Kinds DEF BaseInv, TypeOK, Wait, PlacesInv, ReadersOK
  <2>2. /\ \A b \in Readers : b # t => reader'[b] = reader[b]
        /\ owner'[reader[t].queue] = None
        /\ \A q \in Queues : q # reader[t].queue => owner'[q] = owner[q]
    BY <2>1 DEF BaseInv, TypeOK, Wait
  <2>3. CASE messages[reader[t].queue] = <<>>
    BY <2>1, <2>2, <2>3, Kinds DEF BaseInv, TypeOK, Wait, Goto, Nothing
  <2>4. CASE messages[reader[t].queue] # <<>>
    BY <2>1, <2>2, <2>4, Kinds, SMTT(30) DEF BaseInv, TypeOK, Wait, Goto, Nothing
  <2> QED BY <2>3, <2>4
<1>4. owner' \in [Queues -> Readers \cup {None}]
  BY Kinds DEF BaseInv, TypeOK, Wait
<1>5. waiting' \in [Queues -> Seq(Readers)]
  <2>1. waiting[reader[t].queue] \in Seq(Readers)
    BY <1>3 DEF BaseInv, TypeOK
  <2>2. Append(waiting[reader[t].queue], t) \in Seq(Readers)
    BY <2>1
  <2> QED BY <1>3, <2>2 DEF BaseInv, TypeOK
<1>6. reader' \in [Readers -> ReaderLocals]
  <2>1. reader'[t] \in ReaderLocals
    <3>1. Nothing \in ReaderLocals /\ reader[t].queue \in Queues
      BY <1>3 DEF Nothing, ReaderLocals
    <3>2. reader'[t] \in {Nothing, [Nothing EXCEPT !.queue = reader[t].queue]}
      BY DEF BaseInv, TypeOK, Wait
    <3>3. [Nothing EXCEPT !.queue = reader[t].queue] \in ReaderLocals
      BY <3>1, ReaderFields
    <3> QED BY <3>1, <3>2, <3>3
  <2>2. reader' = [b \in Readers |-> IF b = t THEN reader'[t] ELSE reader[b]]
    BY Kinds DEF BaseInv, TypeOK, Wait
  <2>3. \A b \in Readers : reader[b] \in ReaderLocals
    BY DEF BaseInv, TypeOK, ReaderLocals
  <2> QED BY <2>1, <2>2, <2>3
<1>7. TypeOK'
  BY <1>1, <1>2, <1>4, <1>5, <1>6
  DEF BaseInv, TypeOK, Moves, ReaderLocals, UserLocals
<1>8. ReadersOK'
  BY <1>1, <1>2, <1>3, Kinds DEF BaseInv, PlacesInv, ReadersOK, Moves, InTheMonitor
<1>9. TimersOK'
  BY <1>1, <1>2, <1>3, Kinds DEF BaseInv, PlacesInv, TimersOK, Moves
<1>10. PutterOK'
  BY <1>1, <1>2, <1>3, Kinds DEF BaseInv, PlacesInv, PutterOK, Moves
<1>11. UserOK'
  BY <1>1, <1>2, <1>3, Kinds DEF BaseInv, PlacesInv, UserOK, Moves
<1>12. HandsOK'
  BY <1>1, <1>2, <1>3, Kinds DEF BaseInv, PlacesInv, HandsOK, Moves
<1>13. ListedIsSent'
  BY <1>1, <1>2, <1>3, Kinds DEF BaseInv, PlacesInv, ListedIsSent, Moves
<1>14. MonitorsAgree'
  <2>1. CASE at'[t] = "idle"
    BY <1>1, <1>2, <1>3, <2>1, Kinds, AgentAssumption
    DEF BaseInv, PlacesInv, ReadersOK, MonitorsAgree, Moves, AgentAssumption
  <2>2. CASE at'[t] = "wait"
    <3> DEFINE q == reader[t].queue
    <3>1. q \in Queues /\ waiting[q] \in Seq(Readers) /\ t \notin ToSet(waiting[q])
      BY <1>3 DEF BaseInv, TypeOK, MonitorsAgree
    <3>2. ToSet(waiting'[q]) = ToSet(waiting[q]) \cup {t} /\ IsInjective(waiting'[q])
      <4>1. waiting'[q] = Append(waiting[q], t)
        BY <1>3, <2>2, <3>1 DEF BaseInv, TypeOK
      <4>2. IsInjective(waiting[q])
        BY <3>1 DEF BaseInv, MonitorsAgree
      <4> QED BY <3>1, <4>1, <4>2, AppendToLine
    <3>3. \A o \in Queues : o # q => waiting'[o] = waiting[o]
      BY <1>3, <2>2 DEF BaseInv, TypeOK
    <3>4. /\ \A b \in Readers : reader'[b].queue = reader[b].queue
          /\ \A o \in Queues : o # q => owner'[o] = owner[o]
          /\ owner'[q] = None
      BY <1>3, <2>2
    <3> HIDE DEF q
    <3>5. reader[t].queue = q /\ at[t] = "for"
      BY <1>3 DEF q
    <3>6. \A b \in Readers, o \in Queues :
            owner'[o] = b <=> reader'[b].queue = o /\ at'[b] \notin {"idle", "enter", "wait"}
      <4>1. /\ \A b \in Readers, o \in Queues :
                 owner[o] = b <=> reader[b].queue = o /\ at[b] \notin {"idle", "enter", "wait"}
            /\ None \notin Readers
        BY AgentAssumption DEF BaseInv, MonitorsAgree, AgentAssumption
      <4>2. owner[q] = t
        BY <3>1, <3>5, <4>1
      <4>3. at'[t] = "wait" /\ \A b \in Readers : b # t => at'[b] = at[b]
        BY <1>1, <2>2, Kinds DEF Moves
      <4> QED BY <3>1, <3>4, <3>5, <4>1, <4>2, <4>3
    <3>7. \A b \in Readers, o \in Queues :
            b \in ToSet(waiting'[o]) <=> reader'[b].queue = o /\ at'[b] = "wait"
      BY <1>1, <2>2, <3>1, <3>2, <3>3, <3>4, <3>5, Kinds DEF BaseInv, MonitorsAgree, Moves
    <3>8. \A o \in Queues : IsInjective(waiting'[o])
      BY <3>2, <3>3 DEF BaseInv, MonitorsAgree
    <3> QED BY <3>6, <3>7, <3>8 DEF MonitorsAgree
  <2> QED BY <1>1, <2>1, <2>2 DEF Moves
<1> QED BY <1>7, <1>8, <1>9, <1>10, <1>11, <1>12, <1>13, <1>14 DEF BaseInv, PlacesInv

LEMMA BaseFind ==
  ASSUME BaseInv, NEW r \in Requests, Find(r)
  PROVE  BaseInv'
<1>1. Moves("user", "found")
  BY GotoMoves, Kinds DEF BaseInv, Find, Places
<1>2. UNCHANGED <<messages, indexLastRead, owner, waiting, agent, replies, acceptReplies,
                waitForReply, complete, answered, target, reader, passed, overlooked>>
  BY DEF Find, flags, history, lists, locals, monitors
<1>3. /\ at["user"] = "idle" /\ r # None /\ agent[r] # None /\ agent[r] \in Queues
      /\ info'["user"] = r
      /\ \A b \in Threads : b # "user" => info'[b] = info[b]
      /\ user'.queue # None /\ user'.list = <<>> /\ user'.i = 0
      /\ user'.queue \in Queues
  BY Kinds, AgentAssumption DEF BaseInv, TypeOK, Find, Sent, AgentAssumption
<1>4. info' \in [Threads -> Requests \cup {None}]
  BY Kinds DEF BaseInv, TypeOK, Find
<1>5. user' \in UserLocals
  BY <1>3 DEF Find, UserLocals
<1>8. TypeOK'
  BY <1>1, <1>2, <1>4, <1>5 DEF BaseInv, TypeOK, Moves, UserLocals
<1>9. ReadersOK'
  BY <1>1, <1>2, <1>3, Kinds DEF BaseInv, PlacesInv, ReadersOK, Moves, InTheMonitor
<1>10. TimersOK'
  BY <1>1, <1>2, <1>3, Kinds DEF BaseInv, PlacesInv, TimersOK, Moves
<1>11. PutterOK'
  BY <1>1, <1>2, <1>3, Kinds DEF BaseInv, PlacesInv, PutterOK, Moves
<1>12. UserOK'
  BY <1>1, <1>2, <1>3, Kinds DEF BaseInv, PlacesInv, UserOK, Moves
<1>13. HandsOK'
  BY <1>1, <1>2, <1>3, Kinds DEF BaseInv, PlacesInv, HandsOK, Moves
<1>14. ListedIsSent'
  BY <1>2, <1>3 DEF BaseInv, PlacesInv, ListedIsSent
<1>15. MonitorsAgree'
  <2>1. \A b \in Readers : /\ reader'[b].queue = reader[b].queue
                           /\ Inside(b)' = Inside(b)
                           /\ (at'[b] = "wait") = (at[b] = "wait")
    BY <1>1, <1>2, Kinds DEF Moves, Inside
  <2>2. UNCHANGED monitors
    BY <1>2 DEF monitors
  <2> QED BY <2>1, <2>2, MonitorsFrame DEF BaseInv
<1> QED BY <1>8, <1>9, <1>10, <1>11, <1>12, <1>13, <1>14, <1>15 DEF BaseInv, PlacesInv

\* Who has found a request has it in hand, with the queue it was found in.
LEMMA FoundOne ==
  ASSUME BaseInv, at["user"] = "found"
  PROVE  /\ user.queue \in Queues
         /\ info["user"] \in Requests /\ info["user"] # None
         /\ agent[info["user"]] \in Queues /\ agent[info["user"]] # None
BY Kinds, AgentAssumption
DEF BaseInv, TypeOK, PlacesInv, UserOK, HandsOK, AgentAssumption

LEMMA BaseAbandonOne ==
  ASSUME BaseInv, AbandonOne
  PROVE  BaseInv'
<1> DEFINE r == info["user"]
           q == user.queue
<1>1. Moves("user", "aim") \/ Moves("user", "walk")
  BY GotoMoves, Kinds DEF BaseInv, AbandonOne, UserDrops, Places
<1>2. UNCHANGED <<indexLastRead, owner, waiting, agent, answered, target, reader, user, passed,
                overlooked>>
  BY DEF AbandonOne, UserDrops, history, lists, locals, monitors
<1>3. /\ at["user"] = "found" /\ r \in Requests /\ r # None /\ agent[r] # None
      /\ info'["user"] = r
      /\ \A b \in Threads : b # "user" => info'[b] = info[b]
      /\ Fewer(messages, messages')
      /\ messages' \in [Queues -> Seq(Requests)]
      /\ replies' \in [Requests -> Seq(Replies)]
      /\ {acceptReplies', waitForReply', complete'} \subseteq [Requests -> BOOLEAN]
  <2>1. /\ at["user"] = "found" /\ r \in Requests /\ r # None /\ agent[r] # None
        /\ agent[r] \in Queues /\ q \in Queues
    BY FoundOne DEF AbandonOne
  <2>2. Abandon(r, [messages EXCEPT ![q] = RemoveFirst(@, r)])
    BY DEF AbandonOne, UserDrops
  <2>3. info'["user"] = r /\ \A b \in Threads : b # "user" => info'[b] = info[b]
    BY Kinds DEF BaseInv, TypeOK, AbandonOne, UserDrops
  <2> HIDE DEF q, r
  <2> QED BY <2>1, <2>2, <2>3, AbandonFacts DEF BaseInv
<1>4. messages' \in [Queues -> Seq(Requests)]
  BY <1>3
<1>5. replies' \in [Requests -> Seq(Replies)]
  BY <1>3
<1>6. acceptReplies' \in [Requests -> BOOLEAN]
  BY <1>3
<1>7. waitForReply' \in [Requests -> BOOLEAN]
  BY <1>3
<1>8. complete' \in [Requests -> BOOLEAN]
  BY <1>3
<1>9. info' \in [Threads -> Requests \cup {None}]
  BY <1>3, Kinds DEF BaseInv, TypeOK, AbandonOne, UserDrops
<1>10. TypeOK'
  BY <1>1, <1>2, <1>4, <1>5, <1>6, <1>7, <1>8, <1>9
  DEF BaseInv, TypeOK, Moves, ReaderLocals, UserLocals
<1>11. ReadersOK'
  BY <1>1, <1>2, <1>3, Kinds DEF BaseInv, PlacesInv, ReadersOK, Moves, InTheMonitor
<1>12. TimersOK'
  BY <1>1, <1>2, <1>3, Kinds, SMTT(30) DEF BaseInv, PlacesInv, TimersOK, Moves
<1>13. PutterOK'
  BY <1>1, <1>2, <1>3, Kinds DEF BaseInv, PlacesInv, PutterOK, Moves
<1>14. UserOK'
  BY <1>1, <1>2, <1>3, Kinds DEF BaseInv, PlacesInv, UserOK, Moves
<1>15. HandsOK'
  BY <1>1, <1>2, <1>3, Kinds DEF BaseInv, PlacesInv, HandsOK, Moves
<1>16. ListedIsSent'
  BY <1>2, <1>3, ListedShrinks DEF BaseInv, PlacesInv
<1>17. MonitorsAgree'
  <2>1. \A b \in Readers : /\ reader'[b].queue = reader[b].queue
                           /\ Inside(b)' = Inside(b)
                           /\ (at'[b] = "wait") = (at[b] = "wait")
    BY <1>1, <1>2, <1>3, Kinds DEF Moves, Inside
  <2>2. UNCHANGED monitors
    BY <1>2 DEF monitors
  <2> QED BY <2>1, <2>2, MonitorsFrame DEF BaseInv
<1> QED BY <1>10, <1>11, <1>12, <1>13, <1>14, <1>15, <1>16, <1>17 DEF BaseInv, PlacesInv

LEMMA BaseBegin ==
  ASSUME BaseInv, NEW op, NEW from \in Queues, NEW to \in Queues,
         NEW place \in {"walk", "merge"}, Begin(op, from, to, place)
  PROVE  BaseInv'
<1>1. Moves("user", "walk") \/ Moves("user", "merge")
  BY GotoMoves, Kinds DEF BaseInv, Begin, Places
<1>2. UNCHANGED <<messages, indexLastRead, owner, waiting, agent, replies, acceptReplies,
                waitForReply, complete, answered, info, target, reader, passed, overlooked>>
  BY DEF Begin, flags, history, lists, locals, monitors
<1>3. /\ at["user"] = "idle" /\ to \in Queues /\ to # None
      /\ user' = [queue |-> to, list |-> messages[from], i |-> 0]
      /\ user'.queue = to /\ user'.list = messages[from] /\ user'.i = 0
      /\ messages[from] \in Seq(Requests)
      /\ \A k \in 1..Len(messages[from]) : agent[messages[from][k]] # None
  BY AgentAssumption DEF BaseInv, TypeOK, Begin, PlacesInv, ListedIsSent, AgentAssumption
<1>4. user' \in UserLocals
  BY <1>3 DEF UserLocals
<1>5. TypeOK'
  BY <1>1, <1>2, <1>4
  DEF BaseInv, TypeOK, Moves, ReaderLocals, UserLocals
<1>6. ReadersOK'
  BY <1>1, <1>2, <1>3, Kinds DEF BaseInv, PlacesInv, ReadersOK, Moves, InTheMonitor
<1>7. TimersOK'
  BY <1>1, <1>2, <1>3, Kinds DEF BaseInv, PlacesInv, TimersOK, Moves
<1>8. PutterOK'
  BY <1>1, <1>2, <1>3, Kinds DEF BaseInv, PlacesInv, PutterOK, Moves
<1>9. UserOK'
  BY <1>1, <1>2, <1>3, Kinds DEF BaseInv, PlacesInv, UserOK, Moves
<1>10. HandsOK'
  BY <1>1, <1>2, <1>3, Kinds DEF BaseInv, PlacesInv, HandsOK, Moves
<1>11. ListedIsSent'
  BY <1>1, <1>2, <1>3, Kinds DEF BaseInv, PlacesInv, ListedIsSent, Moves
<1>12. MonitorsAgree'
  <2>1. \A b \in Readers : /\ reader'[b].queue = reader[b].queue
                           /\ Inside(b)' = Inside(b)
                           /\ (at'[b] = "wait") = (at[b] = "wait")
    BY <1>1, <1>2, <1>3, Kinds DEF Moves, Inside
  <2>2. UNCHANGED monitors
    BY <1>2 DEF monitors
  <2> QED BY <2>1, <2>2, MonitorsFrame DEF BaseInv
<1> QED BY <1>5, <1>6, <1>7, <1>8, <1>9, <1>10, <1>11, <1>12 DEF BaseInv, PlacesInv

LEMMA BaseMergeAdd ==
  ASSUME BaseInv, MergeAdd
  PROVE  BaseInv'
<1>1. Moves("user", "name")
  BY GotoMoves, Kinds DEF BaseInv, MergeAdd, Places
<1>2. UNCHANGED <<indexLastRead, owner, waiting, agent, replies, acceptReplies, waitForReply,
                complete, answered, info, target, reader, user, passed, overlooked>>
  BY DEF MergeAdd, flags, history, lists, locals, monitors
<1>3. /\ at["user"] = "merge" /\ user.queue \in Queues /\ user.queue # None /\ user.i < Len(user.list)
      /\ messages' = [messages EXCEPT ![user.queue] = Append(@, user.list[user.i + 1])]
      /\ user.list[user.i + 1] \in Requests /\ agent[user.list[user.i + 1]] # None
  <2>1. at["user"] = "merge" /\ user.i < Len(user.list)
    BY DEF MergeAdd
  <2>2. user.queue \in Queues /\ user.queue # None
    BY <2>1 DEF BaseInv, TypeOK, PlacesInv, UserOK
  <2>3. user.i + 1 \in 1..Len(user.list) /\ user.list \in Seq(Requests)
    <3>1. user.i \in Nat /\ user.list \in Seq(Requests)
      BY DEF BaseInv, TypeOK
    <3> QED BY <2>1, <3>1
  <2>4. user.list[user.i + 1] \in Requests /\ agent[user.list[user.i + 1]] # None
    BY <2>3 DEF BaseInv, PlacesInv, ListedIsSent
  <2> QED BY <2>1, <2>2, <2>4 DEF MergeAdd
<1>4. messages' \in [Queues -> Seq(Requests)]
  <2>1. Append(messages[user.queue], user.list[user.i + 1]) \in Seq(Requests)
    BY <1>3 DEF BaseInv, TypeOK
  <2> QED BY <1>3, <2>1 DEF BaseInv, TypeOK
<1>5. TypeOK'
  BY <1>1, <1>2, <1>4
  DEF BaseInv, TypeOK, Moves, ReaderLocals, UserLocals
<1>6. ReadersOK'
  BY <1>1, <1>2, <1>3, Kinds DEF BaseInv, PlacesInv, ReadersOK, Moves, InTheMonitor
<1>7. TimersOK'
  BY <1>1, <1>2, <1>3, Kinds DEF BaseInv, PlacesInv, TimersOK, Moves
<1>8. PutterOK'
  BY <1>1, <1>2, <1>3, Kinds DEF BaseInv, PlacesInv, PutterOK, Moves
<1>9. UserOK'
  BY <1>1, <1>2, <1>3, Kinds DEF BaseInv, PlacesInv, UserOK, Moves
<1>10. HandsOK'
  BY <1>1, <1>2, <1>3, Kinds DEF BaseInv, PlacesInv, HandsOK, Moves
<1>11. ListedIsSent'
  BY <1>2, <1>3, ListedGrows DEF BaseInv, TypeOK, PlacesInv
<1>12. MonitorsAgree'
  <2>1. \A b \in Readers : /\ reader'[b].queue = reader[b].queue
                           /\ Inside(b)' = Inside(b)
                           /\ (at'[b] = "wait") = (at[b] = "wait")
    BY <1>1, <1>2, <1>3, Kinds DEF Moves, Inside
  <2>2. UNCHANGED monitors
    BY <1>2 DEF monitors
  <2> QED BY <2>1, <2>2, MonitorsFrame DEF BaseInv
<1> QED BY <1>5, <1>6, <1>7, <1>8, <1>9, <1>10, <1>11, <1>12 DEF BaseInv, PlacesInv

LEMMA BaseWalk ==
  ASSUME BaseInv, Walk
  PROVE  BaseInv'
<1>1. Moves("user", "aim") \/ Moves("user", "walk") \/ Moves("user", "threw") \/ Moves("user", "end")
  BY GotoMoves, Kinds DEF BaseInv, Walk, UserDrops, Places
<1>2. UNCHANGED <<indexLastRead, owner, waiting, agent, answered, target, reader, passed,
                overlooked>>
  BY DEF Walk, history, lists, locals, monitors
<1>3. /\ at["user"] = "walk"
      /\ at'["user"] = "aim" => info'["user"] # None /\ agent[info'["user"]] # None
      /\ \A b \in Threads : b # "user" => info'[b] = info[b]
      /\ user'.queue = user.queue /\ user'.list = user.list
      /\ Fewer(messages, messages')
      /\ info' \in [Threads -> Requests \cup {None}] /\ user' \in UserLocals
      /\ messages' \in [Queues -> Seq(Requests)]
      /\ replies' \in [Requests -> Seq(Replies)]
      /\ {acceptReplies', waitForReply', complete'} \subseteq [Requests -> BOOLEAN]
  <2> DEFINE q == user.queue
             r == messages[q][user.i + 1]
  <2>0. /\ at["user"] = "walk" /\ user \in UserLocals
        /\ info \in [Threads -> Requests \cup {None}] /\ "user" \in Threads
    BY Kinds DEF BaseInv, TypeOK, Walk, UserLocals
  <2>1. CASE user.i < Len(user.list) /\ user.i < Len(messages[q])
    <3>1. q \in Queues
      <4>1. user.list # <<>>
        BY <2>0, <2>1 DEF UserLocals
      <4> QED BY <2>0, <4>1 DEF BaseInv, PlacesInv, UserOK, UserLocals
    <3>2. messages[q] \in Seq(Requests) /\ user.i + 1 \in 1..Len(messages[q])
      <4>1. messages[q] \in Seq(Requests) /\ user.i \in Nat
        BY <2>0, <3>1 DEF BaseInv, TypeOK, UserLocals
      <4> HIDE DEF q
      <4> QED BY <2>1, <4>1
    <3>3. r \in Requests /\ r # None /\ agent[r] # None
      BY <3>1, <3>2, AgentAssumption DEF BaseInv, PlacesInv, ListedIsSent, AgentAssumption
    <3>4. UserDrops(q, r) /\ user' = [user EXCEPT !.i = @ + 1]
      BY <2>1 DEF Walk
    <3> HIDE DEF q, r
    <3>5. Abandon(r, [messages EXCEPT ![q] = RemoveFirst(@, r)]) /\ info' = [info EXCEPT !["user"] = r]
      BY <3>4 DEF UserDrops
    <3>6. /\ info' \in [Threads -> Requests \cup {None}] /\ info'["user"] = r
          /\ \A b \in Threads : b # "user" => info'[b] = info[b]
      BY <2>0, <3>3, <3>5
    <3>7. user' \in UserLocals /\ user'.queue = user.queue /\ user'.list = user.list
      BY <2>0, <3>4, SMTT(30) DEF UserLocals
    <3>8. /\ Fewer(messages, messages')
          /\ messages' \in [Queues -> Seq(Requests)] /\ replies' \in [Requests -> Seq(Replies)]
          /\ {acceptReplies', waitForReply', complete'} \subseteq [Requests -> BOOLEAN]
      BY <3>1, <3>3, <3>5, AbandonFacts DEF BaseInv
    <3> QED BY <2>0, <3>3, <3>6, <3>7, <3>8
  <2>2. CASE ~(user.i < Len(user.list) /\ user.i < Len(messages[q]))
    <3>1. /\ UNCHANGED <<messages, replies, flags, info, user>>
          /\ \/ Goto("user", "threw")
             \/ Goto("user", "end")
      BY <2>2 DEF Walk
    <3>2. at'["user"] # "aim"
      BY <2>0, <3>1 DEF Goto, BaseInv, TypeOK
    <3>3. Fewer(messages, messages') /\ messages' = messages /\ info' = info /\ user' = user
      BY <3>1 DEF Fewer
    <3>4. /\ messages' \in [Queues -> Seq(Requests)] /\ replies' \in [Requests -> Seq(Replies)]
          /\ {acceptReplies', waitForReply', complete'} \subseteq [Requests -> BOOLEAN]
      BY <3>1 DEF BaseInv, TypeOK, flags
    <3> QED BY <2>0, <3>2, <3>3, <3>4
  <2> QED BY <2>1, <2>2
<1>4. messages' \in [Queues -> Seq(Requests)]
  BY <1>3
<1>5. replies' \in [Requests -> Seq(Replies)]
  BY <1>3
<1>6. acceptReplies' \in [Requests -> BOOLEAN]
  BY <1>3
<1>7. waitForReply' \in [Requests -> BOOLEAN]
  BY <1>3
<1>8. complete' \in [Requests -> BOOLEAN]
  BY <1>3
<1>9. info' \in [Threads -> Requests \cup {None}]
  BY <1>3
<1>10. user' \in UserLocals
  BY <1>3
<1>11. TypeOK'
  BY <1>1, <1>2, <1>4, <1>5, <1>6, <1>7, <1>8, <1>9, <1>10
  DEF BaseInv, TypeOK, Moves, ReaderLocals, UserLocals
<1>12. ReadersOK'
  BY <1>1, <1>2, <1>3, Kinds DEF BaseInv, PlacesInv, ReadersOK, Moves, InTheMonitor
<1>13. TimersOK'
  BY <1>1, <1>2, <1>3, Kinds, SMTT(30) DEF BaseInv, PlacesInv, TimersOK, Moves
<1>14. PutterOK'
  BY <1>1, <1>2, <1>3, Kinds DEF BaseInv, PlacesInv, PutterOK, Moves
<1>15. UserOK'
  BY <1>1, <1>2, <1>3, Kinds DEF BaseInv, PlacesInv, UserOK, Moves
<1>16. HandsOK'
  BY <1>1, <1>2, <1>3, Kinds DEF BaseInv, PlacesInv, HandsOK, Moves
<1>17. ListedIsSent'
  BY <1>2, <1>3, ListedShrinks DEF BaseInv, PlacesInv
<1>18. MonitorsAgree'
  <2>1. \A b \in Readers : /\ reader'[b].queue = reader[b].queue
                           /\ Inside(b)' = Inside(b)
                           /\ (at'[b] = "wait") = (at[b] = "wait")
    BY <1>1, <1>2, <1>3, Kinds DEF Moves, Inside
  <2>2. UNCHANGED monitors
    BY <1>2 DEF monitors
  <2> QED BY <2>1, <2>2, MonitorsFrame DEF BaseInv
<1> QED BY <1>11, <1>12, <1>13, <1>14, <1>15, <1>16, <1>17, <1>18 DEF BaseInv, PlacesInv

LEMMA BaseSend ==
  ASSUME BaseInv, NEW r \in Requests, NEW q \in Queues, Send(r, q)
  PROVE  BaseInv'
<1>1. UNCHANGED <<indexLastRead, owner, waiting, replies, acceptReplies, waitForReply, complete,
                  answered, at, info, target, reader, user, passed, overlooked>>
  BY DEF Send, flags, history, locals, monitors
<1>2. /\ messages' = [messages EXCEPT ![q] = Append(@, r)]
      /\ agent'[r] = q /\ q # None
      /\ \A s \in Requests : s # r => agent'[s] = agent[s]
      /\ agent' \in [Requests -> Queues \cup {None}]
      /\ \A s \in Requests : agent[s] # None => agent'[s] # None
  BY AgentAssumption DEF BaseInv, TypeOK, Send, AgentAssumption
<1>3. messages' \in [Queues -> Seq(Requests)]
  <2>1. Append(messages[q], r) \in Seq(Requests)
    BY DEF BaseInv, TypeOK
  <2> QED BY <1>2, <2>1 DEF BaseInv, TypeOK
<1>4. TypeOK'
  BY <1>1, <1>2, <1>3 DEF BaseInv, TypeOK
<1>5. \A t \in Threads : info[t] \in Requests \cup {None}
  BY DEF BaseInv, TypeOK
<1>6. PlacesInv'
  <2>1. ReadersOK'
    BY <1>1 DEF BaseInv, PlacesInv, ReadersOK
  <2>2. TimersOK'
    BY <1>1, <1>2, Kinds DEF BaseInv, PlacesInv, TimersOK
  <2>3. PutterOK'
    BY <1>1, <1>2, <1>5, Kinds DEF BaseInv, PlacesInv, PutterOK
  <2>4. UserOK'
    BY <1>1 DEF BaseInv, PlacesInv, UserOK
  <2>5. HandsOK'
    BY <1>1, <1>2, <1>5 DEF BaseInv, PlacesInv, HandsOK
  <2>6. ListedIsSent'
    BY <1>1, <1>2, ListedGrows DEF BaseInv, TypeOK, PlacesInv
  <2> QED BY <2>1, <2>2, <2>3, <2>4, <2>5, <2>6 DEF PlacesInv
<1>7. MonitorsAgree'
  BY <1>1, MonitorsFrame DEF BaseInv, monitors, Inside
<1> QED BY <1>4, <1>6, <1>7 DEF BaseInv

\* A thread that pulses, in a monitor or not, and those that it wakes.
LEMMA BaseWake ==
  ASSUME BaseInv, NEW t \in Threads, NEW q \in Queues, NEW p \in Places, NEW n \in Nat,
         Wake(t, p, q, n),
         at[t] \in {"pulse", "merge"},
         t \in Readers => p = "looked",
         t \in TimeLimited => p = "end",
         t = "putter" => p = "idle",
         t = "user" => p \in {"walk", "end"},
         UNCHANGED <<messages, indexLastRead, owner, agent, replies, acceptReplies, waitForReply,
                     complete, answered, info, reader, user, passed, overlooked>>,
         target' \in [Threads -> Queues \cup {None}],
         \A b \in Threads : b # t => target'[b] = target[b]
  PROVE  BaseInv'
<1> DEFINE Woken == ToSet(waiting[q]) \ ToSet(waiting'[q])
<1>1. /\ waiting' \in [Queues -> Seq(Readers)]
      /\ \A o \in Queues \ {q} : waiting'[o] = waiting[o]
      /\ IsInjective(waiting'[q])
      /\ ToSet(waiting'[q]) \subseteq ToSet(waiting[q])
      /\ at' \in [Threads -> Places] /\ at'[t] = p
      /\ \A b \in Threads \ {t} : at'[b] = IF b \in Woken THEN "enter" ELSE at[b]
  BY WakeFacts DEF BaseInv
<1>2. TypeOK'
  BY <1>1 DEF BaseInv, TypeOK
<1>3. \A b \in Woken : b \in Readers /\ at[b] = "wait" /\ reader[b].queue = q
  <2>1. waiting[q] \in Seq(Readers)
    BY DEF BaseInv, TypeOK
  <2>2. \A b \in ToSet(waiting[q]) : b \in Readers
    BY <2>1 DEF ToSet
  <2> QED BY <2>2 DEF BaseInv, MonitorsAgree
<1>4. t \notin Woken
  BY <1>3
<1>5. Woken = ToSet(waiting[q]) \ ToSet(waiting'[q])
  OBVIOUS
<1> HIDE DEF Woken
<1>6. \A b \in Threads : b # t => at'[b] = at[b] \/ (at'[b] = "enter" /\ at[b] = "wait" /\ b \in Readers)
  <2> SUFFICES ASSUME NEW b \in Threads, b # t
               PROVE  at'[b] = at[b] \/ (at'[b] = "enter" /\ at[b] = "wait" /\ b \in Readers)
    OBVIOUS
  <2>1. at'[b] = IF b \in Woken THEN "enter" ELSE at[b]
    BY <1>1
  <2>2. CASE b \in Woken
    BY <1>3, <2>1, <2>2
  <2>3. CASE b \notin Woken
    BY <2>1, <2>3
  <2> QED BY <2>2, <2>3
<1>7. ReadersOK'
  BY <1>1, <1>6, Kinds DEF BaseInv, PlacesInv, ReadersOK, InTheMonitor
<1>8. TimersOK'
  BY <1>1, <1>6, Kinds DEF BaseInv, PlacesInv, TimersOK
<1>9. PutterOK'
  BY <1>1, <1>6, Kinds DEF BaseInv, PlacesInv, PutterOK
<1>10. UserOK'
  BY <1>1, <1>6, Kinds DEF BaseInv, PlacesInv, UserOK
<1>11. HandsOK'
  BY <1>1, <1>6, Kinds DEF BaseInv, PlacesInv, HandsOK
<1>12. ListedIsSent'
  BY DEF BaseInv, PlacesInv, ListedIsSent
<1>13. MonitorsAgree'
  <2>1. \A b \in Readers, o \in Queues :
          owner'[o] = b <=> reader'[b].queue = o /\ at'[b] \notin {"idle", "enter", "wait"}
    <3>1. \A b \in Readers : at'[b] \notin {"idle", "enter", "wait"} <=>
                             at[b] \notin {"idle", "enter", "wait"}
      BY <1>1, <1>6, Kinds
    <3> QED BY <3>1 DEF BaseInv, MonitorsAgree
  <2>2. ASSUME NEW b \in Readers, NEW o \in Queues
        PROVE  b \in ToSet(waiting'[o]) <=> reader'[b].queue = o /\ at'[b] = "wait"
    <3>1. b \in ToSet(waiting[o]) <=> reader[b].queue = o /\ at[b] = "wait"
      BY DEF BaseInv, MonitorsAgree
    <3>2. at'[b] = "wait" <=> at[b] = "wait" /\ b \notin Woken
      BY <1>1, <1>4, Kinds
    <3>3. b \in Woken => reader[b].queue = q
      BY <1>3
    <3>4. CASE o = q
      BY <1>1, <1>5, <3>1, <3>2, <3>4
    <3>5. CASE o # q
      BY <1>1, <3>1, <3>2, <3>3, <3>5
    <3> QED BY <3>4, <3>5
  <2>3. \A o \in Queues : IsInjective(waiting'[o])
    BY <1>1 DEF BaseInv, MonitorsAgree
  <2> QED BY <2>1, <2>2, <2>3 DEF MonitorsAgree
<1> QED BY <1>2, <1>7, <1>8, <1>9, <1>10, <1>11, <1>12, <1>13 DEF BaseInv, PlacesInv

LEMMA BasePulse ==
  ASSUME BaseInv, NEW t \in Threads, Pulse(t)
  PROVE  BaseInv'
<1>1. at[t] = "pulse" /\ Wake(t, AfterPulse(t), target[t], 1)
  BY DEF Pulse
<1>2. target[t] \in Queues
  BY <1>1 DEF BaseInv, TypeOK, PlacesInv, HandsOK
<1>3. AfterPulse(t) \in Places
  BY Kinds DEF AfterPulse, Places
<1>4. /\ t \in Readers => AfterPulse(t) = "looked"
      /\ t \in TimeLimited => AfterPulse(t) = "end"
      /\ t = "putter" => AfterPulse(t) = "idle"
      /\ t = "user" => AfterPulse(t) \in {"walk", "end"}
  BY Kinds DEF AfterPulse
<1>5. UNCHANGED <<messages, indexLastRead, owner, agent, replies, acceptReplies, waitForReply,
                  complete, answered, info, reader, user, passed, overlooked>>
  BY DEF Pulse, lists, flags, locals, history
<1>6. /\ target' \in [Threads -> Queues \cup {None}]
      /\ \A b \in Threads : b # t => target'[b] = target[b]
  BY DEF BaseInv, TypeOK, Pulse
<1> QED BY <1>1, <1>2, <1>3, <1>4, <1>5, <1>6, BaseWake

LEMMA BaseMergePulse ==
  ASSUME BaseInv, MergePulse
  PROVE  BaseInv'
<1> DEFINE q == user.queue
           n == IF user.i > 1 THEN Len(waiting[q]) ELSE user.i
<1>1. at["user"] = "merge" /\ Wake("user", "end", q, n)
  BY DEF MergePulse
<1>2. q \in Queues
  BY <1>1 DEF BaseInv, TypeOK, PlacesInv, UserOK
<1>3. n \in Nat
  <2>1. user.i \in Nat /\ waiting[q] \in Seq(Readers)
    BY <1>2 DEF BaseInv, TypeOK
  <2> QED BY <2>1
<1>4. UNCHANGED <<messages, indexLastRead, owner, agent, replies, acceptReplies, waitForReply,
                  complete, answered, info, target, reader, user, passed, overlooked>>
  BY DEF MergePulse, lists, flags, locals, history
<1>5. target' \in [Threads -> Queues \cup {None}] /\ "end" \in Places
  BY <1>4 DEF BaseInv, TypeOK, Places
<1> HIDE DEF q, n
<1> QED BY <1>1, <1>2, <1>3, <1>4, <1>5, Kinds, BaseWake

LEMMA BaseStep == BaseInv /\ [Next]_vars => BaseInv'
<1> SUFFICES ASSUME BaseInv, [Next]_vars PROVE BaseInv'
  OBVIOUS
<1>1. CASE UNCHANGED vars
  <2>1. UNCHANGED <<messages, indexLastRead, owner, waiting, agent, replies, acceptReplies,
                    waitForReply, complete, answered, at, info, target, reader, user, passed,
                    overlooked>>
    BY <1>1 DEF vars, lists, monitors, flags, locals, history
  <2>2. TypeOK'
    BY <2>1 DEF BaseInv, TypeOK
  <2>3. PlacesInv'
    BY <2>1 DEF BaseInv, PlacesInv, ReadersOK, TimersOK, PutterOK, UserOK, HandsOK, ListedIsSent
  <2>4. MonitorsAgree'
    BY <2>1 DEF BaseInv, MonitorsAgree
  <2> QED BY <2>2, <2>3, <2>4 DEF BaseInv
<1>2. CASE \E r \in Requests, q \in Queues : Send(r, q)
  BY <1>2, BaseSend
<1>3. CASE \E t \in Readers, q \in Queues : Get(t, q)
  BY <1>3, BaseGet
<1>4. CASE \E r \in Requests : Receive(r) \/ Find(r)
  BY <1>4, BaseReceive, BaseFind
<1>5. CASE \E r \in TimeLimited : Fire(r)
  BY <1>5, BaseFire
<1>6. CASE \E q \in Queues : BeginAbandonAll(q) \/ \E from \in Queues : BeginMerge(from, q)
  BY <1>6, BaseBegin DEF BeginAbandonAll, BeginMerge
<1>7. ASSUME NEW t \in Readers, Reading(t) PROVE BaseInv'
  BY <1>7, BaseEnter, BaseLook, BaseKeep, BaseDrop, BaseDropped, BaseWait DEF Reading
<1>8. CASE Putting
  BY <1>8, BaseAddReply, BaseSettle DEF Putting
<1>9. ASSUME NEW r \in TimeLimited, Informing(r) PROVE BaseInv'
  BY <1>9, BaseAbandonInforming, BaseTell DEF Informing
<1>10. CASE Using
  BY <1>10, BaseAbandonOne, BaseWalk, BaseMergeAdd, BaseMergeName, BaseMergePulse DEF Using
<1>11. ASSUME NEW t \in Threads, Aim(t) \/ Pulse(t) PROVE BaseInv'
  BY <1>11, BaseAim, BasePulse
<1>12. CASE \E t \in Threads : Step(t)
  BY <1>7, <1>8, <1>9, <1>10, <1>11, <1>12 DEF Step
<1> QED
  BY <1>1, <1>2, <1>3, <1>4, <1>5, <1>6, <1>12 DEF Next

LEMMA BaseAlways == Spec => []BaseInv
BY InitBase, BaseStep, PTL DEF Spec

\* The types, and the monitors: one thread at most is in each, the one that thinks so,
\* and the threads in the line of a monitor are those that are asleep in it, each once.
THEOREM Monitors == Spec => []Inv
<1>1. BaseInv => Inv
  BY DEF BaseInv, Inv
<1> QED
  BY <1>1, BaseAlways, PTL

-----------------------------------------------------------------------------
(* Replies within reach.                                                    *)

Listed(l, q, r) == \E k \in 1..Len(l[q]) : l[q][k] = r

LEMMA ReachFrame ==
  ASSUME BaseInv, ReachInv, UNCHANGED messages, UNCHANGED agent,
         \A r \in Requests : waitForReply'[r] => waitForReply[r],
         at'["user"] = "name" => at["user"] = "name" /\ user' = user,
         \A r \in Requests : replies'[r] # <<>> => agent[r] # None
  PROVE  ReachInv'
<1>1. ASSUME at'["user"] = "name" PROVE user.list[user.i + 1] \in Requests
  <2>1. user.i \in Nat /\ user.list \in Seq(Requests) /\ user.i < Len(user.list)
    BY <1>1 DEF BaseInv, TypeOK, PlacesInv, UserOK
  <2> QED BY <2>1
<1> QED BY <1>1 DEF ReachInv

\* A request that leaves a list does not wait for a reply any more.
LEMMA ReachRemoval ==
  ASSUME BaseInv, ReachInv, NEW q \in Queues, NEW r \in Requests,
         Abandon(r, [messages EXCEPT ![q] = RemoveFirst(@, r)]),
         UNCHANGED agent,
         at'["user"] = "name" => at["user"] = "name" /\ user' = user
  PROVE  ReachInv'
<1>1. /\ Without(messages, messages', r)
      /\ ~waitForReply'[r]
      /\ \A s \in Requests \ {r} : waitForReply'[s] = waitForReply[s] /\ replies'[s] = replies[s]
      /\ replies'[r] \in {replies[r], <<>>}
  BY AbandonFacts DEF BaseInv
<1>2. \A o \in Queues, s \in Requests : s # r /\ Listed(messages, o, s) => Listed(messages', o, s)
  BY <1>1 DEF Without, Listed
<1>3. ASSUME NEW s \in Requests, agent'[s] # None, waitForReply'[s]
      PROVE  Listed(messages', agent'[s], s)
  <2>1. s # r /\ waitForReply[s] /\ agent[s] \in Queues
    BY <1>1, <1>3 DEF BaseInv, TypeOK
  <2>2. Listed(messages, agent[s], s)
    BY <1>3, <2>1 DEF ReachInv, Listed
  <2> QED BY <1>2, <2>1, <2>2
<1>4. ASSUME at'["user"] = "name", waitForReply'[user'.list[user'.i + 1]]
      PROVE  Listed(messages', user'.queue, user'.list[user'.i + 1])
  <2>1. at["user"] = "name" /\ user' = user
    BY <1>4
  <2> DEFINE s == user.list[user.i + 1]
  <2>2. user.queue \in Queues /\ s \in Requests
    <3>1. user.i \in Nat /\ user.list \in Seq(Requests) /\ user.i < Len(user.list)
      BY <2>1 DEF BaseInv, TypeOK, PlacesInv, UserOK
    <3>2. user.queue \in Queues
      BY <2>1 DEF BaseInv, TypeOK, PlacesInv, UserOK
    <3> QED BY <3>1, <3>2
  <2>3. s # r /\ waitForReply[s]
    BY <1>1, <1>4, <2>1, <2>2
  <2>4. Listed(messages, user.queue, s)
    BY <2>1, <2>3 DEF ReachInv, Listed
  <2> QED BY <1>2, <2>1, <2>2, <2>3, <2>4
<1>5. \A s \in Requests : replies'[s] # <<>> => agent'[s] # None
  BY <1>1 DEF ReachInv
<1> QED BY <1>3, <1>4, <1>5 DEF ReachInv, Listed

LEMMA AppendLists ==
  ASSUME messages \in [Queues -> Seq(Requests)], NEW q \in Queues, NEW r \in Requests,
         messages' = [messages EXCEPT ![q] = Append(@, r)]
  PROVE  /\ Listed(messages', q, r)
         /\ \A o \in Queues, s \in Requests : Listed(messages, o, s) => Listed(messages', o, s)
<1>1. /\ messages[q] \in Seq(Requests)
      /\ messages'[q] = Append(messages[q], r)
      /\ \A o \in Queues : o # q => messages'[o] = messages[o]
  OBVIOUS
<1>2. Len(messages[q]) + 1 \in 1..Len(messages'[q]) /\ messages'[q][Len(messages[q]) + 1] = r
  BY <1>1
<1>3. \A k \in 1..Len(messages[q]) : k \in 1..Len(messages'[q]) /\ messages'[q][k] = messages[q][k]
  BY <1>1
<1>4. Listed(messages', q, r)
  BY <1>2 DEF Listed
<1>5. ASSUME NEW o \in Queues, NEW s \in Requests, Listed(messages, o, s)
      PROVE  Listed(messages', o, s)
  <2>1. CASE o = q
    BY <1>3, <1>5, <2>1 DEF Listed
  <2>2. CASE o # q
    BY <1>1, <1>5, <2>2 DEF Listed
  <2> QED BY <2>1, <2>2
<1> QED BY <1>4, <1>5

LEMMA ReachSend ==
  ASSUME BaseInv, ReachInv, NEW r \in Requests, NEW q \in Queues, Send(r, q)
  PROVE  ReachInv'
<1>1. /\ UNCHANGED <<waitForReply, replies, at, user>>
      /\ messages' = [messages EXCEPT ![q] = Append(@, r)]
      /\ agent'[r] = q /\ \A s \in Requests : s # r => agent'[s] = agent[s]
      /\ messages \in [Queues -> Seq(Requests)] /\ q # None
      /\ agent \in [Requests -> Queues \cup {None}]
  BY AgentAssumption DEF Send, BaseInv, TypeOK, flags, locals, AgentAssumption
<1>2. /\ Listed(messages', q, r)
      /\ \A o \in Queues, s \in Requests : Listed(messages, o, s) => Listed(messages', o, s)
  BY <1>1, AppendLists
<1>3. ASSUME NEW s \in Requests, agent'[s] # None, waitForReply'[s]
      PROVE  Listed(messages', agent'[s], s)
  <2>1. CASE s = r
    BY <1>1, <1>2, <2>1
  <2>2. CASE s # r
    <3>1. agent'[s] = agent[s] /\ agent[s] \in Queues /\ waitForReply[s]
      BY <1>1, <1>3, <2>2
    <3>2. Listed(messages, agent[s], s)
      BY <3>1, <1>3 DEF ReachInv, Listed
    <3> QED BY <1>2, <3>1, <3>2
  <2> QED BY <2>1, <2>2
<1>4. ASSUME at["user"] = "name", waitForReply[user.list[user.i + 1]]
      PROVE  Listed(messages', user.queue, user.list[user.i + 1])
  <2>1. Listed(messages, user.queue, user.list[user.i + 1])
    BY <1>4 DEF ReachInv, Listed
  <2>2. user.i \in Nat /\ user.list \in Seq(Requests) /\ user.i < Len(user.list)
    BY <1>4 DEF BaseInv, TypeOK, PlacesInv, UserOK
  <2>3. user.queue \in Queues /\ user.list[user.i + 1] \in Requests
    <3>1. user.list[user.i + 1] \in Requests
      BY <2>2
    <3> QED BY <1>4, <3>1 DEF BaseInv, TypeOK, PlacesInv, UserOK
  <2> QED BY <1>2, <2>1, <2>3
<1>5. \A s \in Requests : replies[s] # <<>> => agent'[s] # None
  BY <1>1 DEF ReachInv
<1> QED BY <1>1, <1>3, <1>4, <1>5, SMTT(30) DEF ReachInv, Listed

LEMMA ReachMergeAdd ==
  ASSUME BaseInv, ReachInv, MergeAdd
  PROVE  ReachInv'
<1> DEFINE r == user.list[user.i + 1]
           q == user.queue
<1>1. /\ at["user"] = "merge" /\ user.i < Len(user.list)
      /\ UNCHANGED <<waitForReply, replies, agent, user>>
      /\ messages' = [messages EXCEPT ![q] = Append(@, r)]
      /\ messages \in [Queues -> Seq(Requests)]
      /\ agent \in [Requests -> Queues \cup {None}]
  BY DEF MergeAdd, BaseInv, TypeOK, flags, locals
<1>2. q \in Queues /\ r \in Requests
  <2>1. user.i \in Nat /\ user.list \in Seq(Requests)
    BY DEF BaseInv, TypeOK
  <2>2. r \in Requests
    BY <1>1, <2>1
  <2> QED BY <1>1, <2>2 DEF BaseInv, TypeOK, PlacesInv, UserOK
<1> HIDE DEF r, q
<1>3. /\ Listed(messages', q, r)
      /\ \A o \in Queues, s \in Requests : Listed(messages, o, s) => Listed(messages', o, s)
  BY <1>1, <1>2, AppendLists
<1>4. ASSUME NEW s \in Requests, agent[s] # None, waitForReply[s]
      PROVE  Listed(messages', agent[s], s)
  <2>1. Listed(messages, agent[s], s) /\ agent[s] \in Queues
    BY <1>1, <1>4 DEF ReachInv, Listed
  <2> QED BY <1>3, <2>1
<1>5. Listed(messages', user'.queue, user'.list[user'.i + 1])
  BY <1>1, <1>3 DEF q, r
<1>6. \A s \in Requests : replies'[s] # <<>> => agent'[s] # None
  BY <1>1 DEF ReachInv
<1> QED BY <1>1, <1>4, <1>5, <1>6 DEF ReachInv, Listed

LEMMA ReachMergeName ==
  ASSUME BaseInv, ReachInv, MergeName
  PROVE  ReachInv'
<1> DEFINE r == user.list[user.i + 1]
           q == user.queue
<1>1. /\ at["user"] = "name" /\ at'["user"] = "merge"
      /\ UNCHANGED <<waitForReply, replies, messages>>
      /\ agent' = [agent EXCEPT ![r] = q]
      /\ agent \in [Requests -> Queues \cup {None}]
  BY Kinds DEF MergeName, Goto, BaseInv, TypeOK, flags, lists
<1>2. q \in Queues /\ q # None
  BY <1>1 DEF BaseInv, TypeOK, PlacesInv, UserOK
<1>3. waitForReply[r] => Listed(messages, q, r)
  BY <1>1 DEF ReachInv, Listed
<1> HIDE DEF r, q
<1>4. ASSUME NEW s \in Requests, agent'[s] # None, waitForReply[s]
      PROVE  Listed(messages, agent'[s], s)
  <2>1. CASE s = r
    BY <1>1, <1>3, <1>4, <2>1
  <2>2. CASE s # r
    BY <1>1, <1>4, <2>2 DEF ReachInv, Listed
  <2> QED BY <2>1, <2>2
<1>5. \A s \in Requests : replies'[s] # <<>> => agent'[s] # None
  BY <1>1, <1>2 DEF ReachInv
<1> QED BY <1>1, <1>4, <1>5 DEF ReachInv, Listed

LEMMA ReachStep == BaseInv /\ ReachInv /\ [Next]_vars => ReachInv'
<1> SUFFICES ASSUME BaseInv, ReachInv, [Next]_vars PROVE ReachInv'
  OBVIOUS
<1>0. \A r \in Requests : replies[r] # <<>> => agent[r] # None
  BY DEF ReachInv
<1>1. CASE UNCHANGED vars
  BY <1>0, <1>1, ReachFrame DEF vars, lists, flags, locals
<1>2. CASE \E r \in Requests, q \in Queues : Send(r, q)
  BY <1>2, ReachSend
<1>3. CASE \E t \in Readers, q \in Queues : Get(t, q)
  <2> SUFFICES ASSUME NEW t \in Readers, NEW q \in Queues, Get(t, q) PROVE ReachInv'
    BY <1>3
  <2>1. Moves(t, "enter")
    BY GotoMoves, Kinds DEF BaseInv, Get, Places
  <2> QED BY <1>0, <2>1, ReachFrame, Kinds DEF Get, Moves, lists, flags
<1>4. CASE \E r \in Requests : Receive(r) \/ Find(r)
  <2>1. ASSUME NEW r \in Requests, Receive(r) PROVE ReachInv'
    <3>1. Moves("putter", "add")
      BY <2>1, GotoMoves, Kinds DEF BaseInv, Receive, Places
    <3> QED BY <1>0, <2>1, <3>1, ReachFrame, Kinds DEF Receive, Moves, lists, flags, locals
  <2>2. ASSUME NEW r \in Requests, Find(r) PROVE ReachInv'
    <3>1. Moves("user", "found")
      BY <2>2, GotoMoves, Kinds DEF BaseInv, Find, Places
    <3> QED BY <1>0, <2>2, <3>1, ReachFrame DEF Find, Moves, lists, flags
  <2> QED BY <1>4, <2>1, <2>2
<1>5. CASE \E r \in TimeLimited : Fire(r)
  <2> SUFFICES ASSUME NEW r \in TimeLimited, Fire(r) PROVE ReachInv'
    BY <1>5
  <2>1. Moves(r, "abandon")
    BY GotoMoves, Kinds DEF BaseInv, Fire, Places
  <2> QED BY <1>0, <2>1, ReachFrame, Kinds DEF Fire, Moves, lists, locals
<1>6. CASE \E q \in Queues : BeginAbandonAll(q) \/ \E from \in Queues : BeginMerge(from, q)
  <2> SUFFICES ASSUME NEW op, NEW from, NEW to, NEW place \in {"walk", "merge"},
                      Begin(op, from, to, place)
               PROVE  ReachInv'
    BY <1>6 DEF BeginAbandonAll, BeginMerge
  <2>1. Moves("user", place)
    BY GotoMoves, Kinds DEF BaseInv, Begin, Places
  <2> QED BY <1>0, <2>1, ReachFrame, Kinds DEF Begin, Moves, lists, flags
<1>7. ASSUME NEW t \in Readers, Reading(t) PROVE ReachInv'
  <2>1. CASE Enter(t)
    <3>1. Moves(t, "for")
      BY <2>1, GotoMoves, Kinds DEF BaseInv, Enter, Places
    <3> QED BY <1>0, <2>1, <3>1, ReachFrame, Kinds DEF Enter, Moves, lists, flags
  <2>2. CASE Look(t)
    <3>1. Moves(t, "check")
      BY <2>2, GotoMoves, Kinds DEF BaseInv, Look, Places
    <3>2. \A r \in Requests : replies'[r] # <<>> => agent[r] # None
      <4> DEFINE l == messages[reader[t].queue][InTurn(t) + 1]
      <4>1. agent[l] # None
        BY <2>2, LookFacts
      <4>2. \A r \in Requests : r # l => replies'[r] = replies[r]
        BY <2>2 DEF Look, BaseInv, TypeOK
      <4> QED BY <1>0, <4>1, <4>2
    <3> QED BY <2>2, <3>1, <3>2, ReachFrame, Kinds DEF Look, Moves, flags
  <2>3. CASE Keep(t) \/ Dropped(t)
    <3>1. Moves(t, "for") \/ Moves(t, "idle")
      BY <2>3, GotoMoves, Kinds DEF BaseInv, Keep, Dropped, GoOn, Places
    <3> QED BY <1>0, <2>3, <3>1, ReachFrame, Kinds DEF Keep, Dropped, Moves, lists, flags
  <2>4. CASE Drop(t)
    <3>1. Moves(t, "aim") \/ Moves(t, "looked")
      BY <2>4, GotoMoves, Kinds DEF BaseInv, Drop, Places
    <3>2. at'["user"] = at["user"] /\ user' = user /\ agent' = agent
      BY <2>4, <3>1, Kinds DEF Drop, Moves, locals
    <3>3. info[t] \in Requests /\ reader[t].queue \in Queues
      BY <2>4, Kinds DEF Drop, BaseInv, TypeOK, PlacesInv, ReadersOK, HandsOK
    <3>4. Abandon(info[t], [messages EXCEPT ![reader[t].queue] = RemoveFirst(@, info[t])])
      BY <2>4 DEF Drop
    <3> QED BY <3>2, <3>3, <3>4, ReachRemoval
  <2>5. CASE Wait(t)
    <3>1. Moves(t, "wait") \/ Moves(t, "idle")
      BY <2>5, GotoMoves, Kinds DEF BaseInv, Wait, Places
    <3> QED BY <1>0, <2>5, <3>1, ReachFrame, Kinds DEF Wait, Moves, lists, flags
  <2> QED BY <1>7, <2>1, <2>2, <2>3, <2>4, <2>5 DEF Reading
<1>8. CASE Putting
  <2>1. CASE AddReply
    <3>1. Moves("putter", "settle") \/ Moves("putter", "aim")
      BY <2>1, GotoMoves, Kinds DEF BaseInv, AddReply, Places
    <3>2. \A r \in Requests : replies'[r] # <<>> => agent[r] # None
      <4>1. agent[info["putter"]] # None
        BY <2>1 DEF AddReply, BaseInv, PlacesInv, PutterOK
      <4>2. \A r \in Requests : r # info["putter"] => replies'[r] = replies[r]
        BY <2>1 DEF AddReply, BaseInv, TypeOK
      <4> QED BY <1>0, <4>1, <4>2
    <3> QED BY <2>1, <3>1, <3>2, ReachFrame, Kinds DEF AddReply, Moves, lists, flags, locals
  <2>2. CASE Settle
    <3>1. Moves("putter", "aim")
      BY <2>2, GotoMoves, Kinds DEF BaseInv, Settle, Places
    <3> QED BY <1>0, <2>2, <3>1, ReachFrame, Kinds DEF Settle, Moves, lists, locals
  <2> QED BY <1>8, <2>1, <2>2 DEF Putting
<1>9. ASSUME NEW r \in TimeLimited, Informing(r) PROVE ReachInv'
  <2>1. CASE AbandonInforming(r)
    <3>1. Moves(r, "tell") \/ Moves(r, "end")
      BY <2>1, GotoMoves, Kinds DEF BaseInv, AbandonInforming, Places
    <3>2. \A s \in Requests : waitForReply'[s] => waitForReply[s]
      BY <2>1 DEF AbandonInforming, BaseInv, TypeOK
    <3> QED BY <1>0, <2>1, <3>1, <3>2, ReachFrame, Kinds DEF AbandonInforming, Moves, lists, locals
  <2>2. CASE Tell(r)
    <3>1. Moves(r, "aim")
      BY <2>2, GotoMoves, Kinds DEF BaseInv, Tell, Places
    <3>2. \A s \in Requests : replies'[s] # <<>> => agent[s] # None
      <4>1. agent[r] # None
        BY <2>2 DEF Tell, BaseInv, PlacesInv, TimersOK
      <4>2. \A s \in Requests : s # r => replies'[s] = replies[s]
        BY <2>2 DEF Tell, BaseInv, TypeOK
      <4> QED BY <1>0, <4>1, <4>2
    <3> QED BY <2>2, <3>1, <3>2, ReachFrame, Kinds DEF Tell, Moves, lists, flags, locals
  <2> QED BY <1>9, <2>1, <2>2 DEF Informing
<1>10. CASE Using
  <2>1. CASE Walk
    <3>1. at'["user"] # "name" /\ agent' = agent
      BY <2>1, Kinds DEF Walk, UserDrops, Goto, BaseInv, TypeOK
    <3>2. CASE user.i < Len(user.list) /\ user.i < Len(messages[user.queue])
      <4>1. user.i \in Nat /\ user.list \in Seq(Requests)
        BY DEF BaseInv, TypeOK
      <4>2. user.queue \in Queues
        <5>1. user.list # <<>>
          BY <3>2, <4>1
        <5> QED BY <5>1 DEF BaseInv, TypeOK, PlacesInv, UserOK
      <4>3. messages[user.queue] \in Seq(Requests)
        BY <4>2 DEF BaseInv, TypeOK
      <4>4. messages[user.queue][user.i + 1] \in Requests
        BY <3>2, <4>1, <4>3
      <4> QED BY <2>1, <3>1, <3>2, <4>2, <4>4, ReachRemoval DEF Walk, UserDrops
    <3>3. CASE ~(user.i < Len(user.list) /\ user.i < Len(messages[user.queue]))
      <4>1. UNCHANGED <<messages, replies, flags>>
        BY <2>1, <3>3 DEF Walk
      <4> QED BY <1>0, <3>1, <4>1, ReachFrame DEF flags
    <3> QED BY <3>2, <3>3
  <2>2. CASE MergePulse
    <3>1. at'["user"] # "name"
      BY <2>2, Kinds DEF MergePulse, Wake
    <3> QED BY <1>0, <2>2, <3>1, ReachFrame DEF MergePulse, lists, flags, locals
  <2>3. CASE AbandonOne
    <3>1. at'["user"] # "name" /\ agent' = agent
      BY <2>3, Kinds DEF AbandonOne, UserDrops, Goto, BaseInv, TypeOK
    <3>2. user.queue \in Queues /\ info["user"] \in Requests
      BY <2>3, FoundOne DEF AbandonOne
    <3> QED BY <2>3, <3>1, <3>2, ReachRemoval DEF AbandonOne, UserDrops
  <2> QED BY <1>10, <2>1, <2>2, <2>3, ReachMergeAdd, ReachMergeName DEF Using
<1>11. ASSUME NEW t \in Threads, Aim(t) \/ Pulse(t) PROVE ReachInv'
  <2>1. CASE Aim(t)
    <3>1. Moves(t, "pulse")
      BY <2>1, GotoMoves, Kinds DEF BaseInv, Aim, Places
    <3> QED BY <1>0, <2>1, <3>1, ReachFrame, Kinds DEF Aim, Moves, lists, flags, locals
  <2>2. CASE Pulse(t)
    <3>1. at'["user"] = "name" => at["user"] = "name"
      BY <2>2, Kinds DEF Pulse, Wake, AfterPulse
    <3> QED BY <1>0, <2>2, <3>1, ReachFrame DEF Pulse, lists, flags, locals
  <2> QED BY <1>11, <2>1, <2>2
<1>12. CASE \E t \in Threads : Step(t)
  BY <1>7, <1>8, <1>9, <1>10, <1>11, <1>12 DEF Step
<1> QED
  BY <1>1, <1>2, <1>3, <1>4, <1>5, <1>6, <1>12 DEF Next

\* A reply that is still wanted is in a list whose readers are told of it: also between
\* the two steps of a merge, in which a request is in two lists and has the name of the
\* old one, and whatever abandons, drops or times out in between.
THEOREM Reach == Spec => []ReplyIsInReach
<1>1. Init => ReachInv
  BY Kinds DEF Init, ReachInv
<1>2. BaseInv /\ ReachInv => ReplyIsInReach
  <2> SUFFICES ASSUME BaseInv, ReachInv, NEW r \in Requests, replies[r] # <<>>, waitForReply[r]
               PROVE  r \in ToSet(messages[agent[r]])
    BY DEF ReplyIsInReach
  <2>1. agent[r] \in Queues /\ Listed(messages, agent[r], r)
    BY DEF BaseInv, TypeOK, ReachInv, Listed
  <2>2. messages[agent[r]] \in Seq(Requests)
    BY <2>1 DEF BaseInv, TypeOK
  <2> QED BY <2>1, <2>2 DEF Listed, ToSet
<1> QED
  BY <1>1, <1>2, BaseAlways, ReachStep, PTL DEF Spec

-----------------------------------------------------------------------------
(* Turns.                                                                   *)

\* The request that is looked at goes behind all others, and its turn is not between
\* those of two others.
LEMMA AheadTurns ==
  ASSUME NEW l \in Nat, NEW m \in Nat, NEW n \in Nat,
         n = m \/ (n = 0 /\ m >= l), n + 1 \in 1..l,
         NEW j \in 1..l, NEW k \in 1..l
  PROVE  /\ j # n + 1 => Ahead(j, n + 1, n + 1)
         /\ ~Ahead(j, n + 1, m)
         /\ j # n + 1 /\ k # n + 1 /\ Ahead(j, k, m) => Ahead(j, k, n + 1)
BY DEF Ahead

\* Those behind a place at which one is dropped move up, and keep their order, except
\* the one that takes this place.
LEMMA AheadDrop ==
  ASSUME NEW p \in Nat, NEW j \in Nat, NEW k \in Nat, j # p,
         Ahead(IF j < p THEN j ELSE j + 1, IF k < p THEN k ELSE k + 1, p)
  PROVE  Ahead(j, k, p)
<1>1. CASE j < p
  BY <1>1 DEF Ahead
<1>2. CASE ~(j < p)
  BY <1>2 DEF Ahead
<1> QED BY <1>1, <1>2

LEMMA HomeFrame ==
  ASSUME HomeInv, UNCHANGED messages, UNCHANGED indexLastRead, UNCHANGED agent,
         \/ at'["user"] = at["user"]
         \/ at["user"] # "idle" /\ at'["user"] \in {"pulse", "walk", "end"},
         UNCHANGED user, info'["user"] = info["user"],
         \A t \in Readers : at'[t] \in InTheMonitor =>
           /\ at[t] \in InTheMonitor
           /\ reader'[t].queue = reader[t].queue /\ reader'[t].next = reader[t].next
           /\ at'[t] = "check" => at[t] = "check" /\ info'[t] = info[t]
  PROVE  HomeInv'
<1>1. ASSUME NEW t \in Readers, at'[t] \in InTheMonitor
      PROVE  reader'[t].next = indexLastRead'[reader'[t].queue] + 1
  BY <1>1 DEF HomeInv
<1>2. ASSUME NEW t \in Readers, at'[t] = "check"
      PROVE  /\ agent'[info'[t]] = reader'[t].queue
             /\ UserOps = {} =>
                  /\ reader'[t].next <= Len(messages'[reader'[t].queue])
                  /\ messages'[reader'[t].queue][reader'[t].next] = info'[t]
  <2>1. at'[t] \in InTheMonitor
    BY <1>2 DEF InTheMonitor
  <2>2. /\ at[t] = "check" /\ info'[t] = info[t]
        /\ reader'[t].queue = reader[t].queue /\ reader'[t].next = reader[t].next
    BY <1>2, <2>1
  <2> QED BY <2>2 DEF HomeInv
<1>3. /\ at'["user"] \in {"idle", "found", "aim", "pulse", "walk", "end"} /\ user'.list = <<>>
      /\ at'["user"] # "idle" => UserOps # {}
      /\ at'["user"] = "found" => agent'[info'["user"]] = user'.queue
  BY DEF HomeInv
<1>4. /\ \A q \in Queues : \A k \in 1..Len(messages'[q]) : agent'[messages'[q][k]] = q
      /\ \A q \in Queues : \A j, k \in 1..Len(messages'[q]) :
           messages'[q][j] = messages'[q][k] => j = k
  BY DEF HomeInv
<1> QED BY <1>1, <1>2, <1>3, <1>4 DEF HomeInv

LEMMA TurnsFrame ==
  ASSUME TurnsInv, UNCHANGED messages, UNCHANGED indexLastRead, UNCHANGED agent,
         UNCHANGED passed, UNCHANGED overlooked, at'["user"] = at["user"],
         \A r \in Requests : replies[r] # <<>> => replies'[r] # <<>>
  PROVE  TurnsInv'
BY DEF TurnsInv, FairTurns

\* Two readers in the monitor of one queue are one.
LEMMA AloneInTheMonitor ==
  ASSUME BaseInv, NEW t \in Readers, NEW u \in Readers,
         at[t] \in InTheMonitor, at[u] \in InTheMonitor, reader[t].queue = reader[u].queue
  PROVE  t = u
<1>1. reader[t].queue \in Queues
  BY DEF BaseInv, TypeOK, PlacesInv, ReadersOK, InTheMonitor
<1>2. owner[reader[t].queue] = t /\ owner[reader[t].queue] = u
  BY <1>1 DEF BaseInv, MonitorsAgree, InTheMonitor
<1> QED BY <1>2

LEMMA InitHome == Init => HomeInv
BY Kinds DEF Init, HomeInv, InTheMonitor

LEMMA HomeEnter ==
  ASSUME BaseInv, HomeInv, NEW t \in Readers, Enter(t)
  PROVE  HomeInv'
<1>1. Moves(t, "for")
  BY GotoMoves, Kinds DEF BaseInv, Enter, Places
<1>2. /\ UNCHANGED <<messages, indexLastRead, agent, info, user>>
      /\ reader'[t].next = indexLastRead[reader[t].queue] + 1
      /\ reader'[t].queue = reader[t].queue
      /\ \A b \in Readers : b # t => reader'[b] = reader[b]
  BY DEF Enter, lists, BaseInv, TypeOK
<1>3. at'["user"] = at["user"] /\ \A b \in Readers : b # t => at'[b] = at[b]
  BY <1>1, Kinds DEF Moves
<1>4. at'[t] = "for"
  BY <1>1 DEF Moves
<1> QED BY <1>2, <1>3, <1>4 DEF HomeInv

LEMMA HomeLook ==
  ASSUME BaseInv, HomeInv, NEW t \in Readers, Look(t)
  PROVE  HomeInv'
<1> DEFINE q == reader[t].queue
           n == InTurn(t)
<1>1. Moves(t, "check") /\ at[t] = "for"
  BY GotoMoves, Kinds DEF BaseInv, Look, Places
<1>2. q \in Queues /\ n \in Nat /\ n + 1 \in 1..Len(messages[q])
  BY LookFacts
<1>3. /\ UNCHANGED messages /\ UNCHANGED agent /\ UNCHANGED user
      /\ indexLastRead'[q] = n /\ \A o \in Queues : o # q => indexLastRead'[o] = indexLastRead[o]
      /\ info'[t] = messages[q][n + 1] /\ \A b \in Threads : b # t => info'[b] = info[b]
  BY <1>2, Kinds DEF Look, BaseInv, TypeOK
<1>4. /\ reader'[t].next = n + 1 /\ reader'[t].queue = q
      /\ \A b \in Readers : b # t => reader'[b] = reader[b]
  BY DEF Look, BaseInv, TypeOK
<1> HIDE DEF n
<1>5. at'["user"] = at["user"] /\ at'[t] = "check" /\ \A b \in Readers : b # t => at'[b] = at[b]
  BY <1>1, Kinds DEF Moves
<1>6. ASSUME NEW u \in Readers, u # t, at[u] \in InTheMonitor
      PROVE  reader[u].queue # q /\ reader[u].queue \in Queues
  <2>1. reader[u].queue \in Queues
    BY <1>6 DEF BaseInv, TypeOK, PlacesInv, ReadersOK, InTheMonitor
  <2> QED BY <1>1, <1>6, <2>1, AloneInTheMonitor DEF InTheMonitor
<1>7. ASSUME NEW u \in Readers, at'[u] \in InTheMonitor
      PROVE  /\ reader'[u].next = indexLastRead'[reader'[u].queue] + 1
             /\ at'[u] = "check" =>
                  /\ agent'[info'[u]] = reader'[u].queue
                  /\ UserOps = {} =>
                       /\ reader'[u].next <= Len(messages'[reader'[u].queue])
                       /\ messages'[reader'[u].queue][reader'[u].next] = info'[u]
  <2>1. CASE u = t
    <3>1. agent[messages[q][n + 1]] = q
      BY <1>2 DEF HomeInv
    <3> QED BY <1>2, <1>3, <1>4, <2>1, <3>1
  <2>2. CASE u # t
    <3>1. at[u] \in InTheMonitor /\ at'[u] = at[u] /\ reader'[u] = reader[u] /\ info'[u] = info[u]
      BY <1>3, <1>4, <1>5, <1>7, <2>2, Kinds
    <3>2. reader[u].queue # q /\ reader[u].queue \in Queues
      BY <1>6, <2>2, <3>1
    <3> HIDE DEF q
    <3> QED BY <1>3, <3>1, <3>2 DEF HomeInv
  <2> QED BY <2>1, <2>2
<1>8. /\ at'["user"] \in {"idle", "found", "aim", "pulse", "walk", "end"} /\ user'.list = <<>>
      /\ at'["user"] # "idle" => UserOps # {}
      /\ at'["user"] = "found" => agent'[info'["user"]] = user'.queue
      /\ "check" \in InTheMonitor
  BY <1>3, <1>5, Kinds DEF HomeInv, InTheMonitor
<1> QED BY <1>3, <1>7, <1>8 DEF HomeInv

\* The removal of a request from its list: it leaves its place, and is at no other.
Removal(q, p) ==
  LET s == messages[q] IN
  /\ messages' \in [Queues -> Seq(Requests)]
  /\ Len(messages'[q]) = Len(s) - 1
  /\ \A i \in 1..(Len(s) - 1) : messages'[q][i] = IF i < p THEN s[i] ELSE s[i + 1]
  /\ \A o \in Queues : o # q => messages'[o] = messages[o]

LEMMA RemovalPlaces ==
  ASSUME BaseInv, HomeInv, NEW q \in Queues, NEW p \in 1..Len(messages[q]),
         Abandon(messages[q][p], [messages EXCEPT ![q] = RemoveFirst(@, messages[q][p])])
  PROVE  Removal(q, p)
<1> DEFINE s == messages[q]
           r == s[p]
           rest == [messages EXCEPT ![q] = RemoveFirst(@, r)]
<1>1. Abandon(r, rest)
  OBVIOUS
<1>2. p \in Nat
  OBVIOUS
<1>3. s \in Seq(Requests) /\ messages \in [Queues -> Seq(Requests)]
  BY DEF BaseInv, TypeOK
<1>4. s[p] = r
  OBVIOUS
<1>5. p \in 1..Len(s)
  OBVIOUS
<1>6. agent[r] = q /\ \A i, j \in 1..Len(s) : s[i] = s[j] => i = j
  BY DEF HomeInv
<1>7. /\ \A o \in Queues : o # q => rest[o] = messages[o]
      /\ rest[q] = RemoveFirst(s, r) /\ rest \in [Queues -> Seq(Requests)]
  <2>1. rest \in [Queues -> Seq(Requests)]
    BY <1>3, RemovalFacts
  <2>2. (\A o \in Queues : o # q => rest[o] = messages[o]) /\ rest[q] = RemoveFirst(messages[q], r)
    BY <1>3, Zenon
  <2> QED BY <2>1, <2>2
<1> HIDE DEF rest, s, r
<1>8. /\ RemoveFirst(s, r) \in Seq(Requests) /\ Len(RemoveFirst(s, r)) = Len(s) - 1
      /\ \A i \in 1..(Len(s) - 1) : RemoveFirst(s, r)[i] = IF i < p THEN s[i] ELSE s[i + 1]
  <2>0. s \in Seq(Requests) /\ \E i \in 1..Len(s) : s[i] = r
    BY <1>3, <1>4, <1>5
  <2>1. PICK m \in 1..Len(s) :
          /\ s[m] = r
          /\ \A i \in 1..(Len(s) - 1) : RemoveFirst(s, r)[i] = IF i < m THEN s[i] ELSE s[i + 1]
    BY <2>0, RemoveFirstMoves
  <2>2. m = p
    BY <1>4, <1>5, <1>6, <2>1
  <2>3. RemoveFirst(s, r) \in Seq(Requests) /\ Len(RemoveFirst(s, r)) = Len(s) - 1
    BY <1>3, <2>0, RemoveFirstMoves
  <2> QED BY <2>1, <2>2, <2>3
<1>9. RemoveFirst(rest[q], r) = rest[q]
  <2> DEFINE v == RemoveFirst(s, r)
  <2>1. ASSUME NEW i \in 1..Len(v) PROVE v[i] # r
    <3> HIDE DEF v
    <3>1. i \in 1..Len(s) /\ i + 1 \in 1..Len(s) /\ i \in 1..(Len(s) - 1)
      BY <1>3, <1>8 DEF v
    <3>2. v[i] = IF i < p THEN s[i] ELSE s[i + 1]
      BY <1>8, <3>1 DEF v
    <3>3. CASE i < p
      BY <1>4, <1>5, <1>6, <3>1, <3>2, <3>3
    <3>4. CASE ~(i < p)
      <4>1. i + 1 # p
        BY <1>2, <3>1, <3>4
      <4> QED BY <1>4, <1>5, <1>6, <3>1, <3>2, <3>4, <4>1
    <3> QED BY <3>3, <3>4
  <2>2. v \in Seq(Requests)
    BY <1>8
  <2> HIDE DEF v
  <2>3. RemoveFirst(v, r) = v
    BY <2>1, <2>2, RemoveFirstStays
  <2> QED BY <1>7, <2>3 DEF v
<1>10. messages' = rest
  <2>1. messages' = rest \/ messages' = [rest EXCEPT ![q] = RemoveFirst(@, r)]
    BY <1>1, <1>6 DEF Abandon
  <2>2. [rest EXCEPT ![q] = RemoveFirst(@, r)] = [rest EXCEPT ![q] = rest[q]]
    BY <1>9
  <2>3. [rest EXCEPT ![q] = rest[q]] = rest
    BY <1>7
  <2> QED BY <2>1, <2>2, <2>3
<1> QED BY <1>7, <1>8, <1>10 DEF Removal, s

\* A request that is removed from its list and abandoned leaves its place, if it is
\* there still.
LEMMA RemovalOrNone ==
  ASSUME BaseInv, HomeInv, NEW q \in Queues, NEW r \in Requests, agent[r] = q,
         Abandon(r, [messages EXCEPT ![q] = RemoveFirst(@, r)])
  PROVE  \/ \E p \in 1..Len(messages[q]) : messages[q][p] = r /\ Removal(q, p)
         \/ UNCHANGED messages /\ \A k \in 1..Len(messages[q]) : messages[q][k] # r
<1>1. CASE \E p \in 1..Len(messages[q]) : messages[q][p] = r
  BY <1>1, RemovalPlaces
<1>2. CASE \A k \in 1..Len(messages[q]) : messages[q][k] # r
  <2> DEFINE rest == [messages EXCEPT ![q] = RemoveFirst(@, r)]
  <2>1. messages \in [Queues -> Seq(Requests)] /\ messages[q] \in Seq(Requests)
    BY DEF BaseInv, TypeOK
  <2>2. RemoveFirst(messages[q], r) = messages[q]
    BY <1>2, <2>1, RemoveFirstStays
  <2>3. rest = messages
    BY <2>1, <2>2
  <2> HIDE DEF rest
  <2>4. messages' = rest \/ messages' = [rest EXCEPT ![q] = RemoveFirst(@, r)]
    BY DEF Abandon, rest
  <2>5. [messages EXCEPT ![q] = RemoveFirst(@, r)] = messages
    BY <2>3 DEF rest
  <2> QED BY <1>2, <2>3, <2>4, <2>5
<1> QED BY <1>1, <1>2

\* What a drop does to the lists: the request leaves, at the place that was looked at
\* if nobody abandons requests.
LEMMA DropFacts ==
  ASSUME BaseInv, HomeInv, NEW t \in Readers, Drop(t)
  PROVE  LET q == reader[t].queue IN
         /\ q \in Queues /\ reader[t].next = indexLastRead[q] + 1
         /\ info[t] \in Requests /\ agent[info[t]] = q
         /\ \/ \E p \in 1..Len(messages[q]) : messages[q][p] = info[t] /\ Removal(q, p)
            \/ UNCHANGED messages /\ \A k \in 1..Len(messages[q]) : messages[q][k] # info[t]
<1> DEFINE q == reader[t].queue
           r == info[t]
<1>1. at[t] = "check" /\ Abandon(r, [messages EXCEPT ![q] = RemoveFirst(@, r)])
  BY DEF Drop
<1>2. q \in Queues /\ r \in Requests
  BY <1>1, Kinds DEF BaseInv, TypeOK, PlacesInv, ReadersOK, HandsOK
<1>3. reader[t].next = indexLastRead[q] + 1 /\ agent[r] = q
  BY <1>1 DEF HomeInv, InTheMonitor
<1> HIDE DEF q, r
<1>4. \/ \E p \in 1..Len(messages[q]) : messages[q][p] = r /\ Removal(q, p)
      \/ UNCHANGED messages /\ \A k \in 1..Len(messages[q]) : messages[q][k] # r
  BY <1>1, <1>2, <1>3, RemovalOrNone
<1> QED BY <1>2, <1>3, <1>4 DEF q, r

LEMMA DropInPlace ==
  ASSUME BaseInv, HomeInv, UserOps = {}, NEW t \in Readers, Drop(t)
  PROVE  LET q == reader[t].queue
             p == reader[t].next IN
         /\ q \in Queues /\ p \in 1..Len(messages[q]) /\ p = indexLastRead[q] + 1
         /\ info[t] = messages[q][p] /\ messages[q] \in Seq(Requests)
         /\ Removal(q, p)
<1> DEFINE q == reader[t].queue
           p == reader[t].next
           s == messages[q]
           r == info[t]
<1>1. at[t] = "check" /\ Abandon(r, [messages EXCEPT ![q] = RemoveFirst(@, r)])
  BY DEF Drop
<1>2. q \in Queues /\ p \in Nat
  BY <1>1, Kinds DEF BaseInv, TypeOK, PlacesInv, ReadersOK
<1>3. s \in Seq(Requests) /\ indexLastRead[q] \in Nat
  BY <1>2 DEF BaseInv, TypeOK
<1>4. p = indexLastRead[q] + 1 /\ p <= Len(s) /\ s[p] = r
  BY <1>1 DEF HomeInv, InTheMonitor
<1>5. p \in 1..Len(s)
  BY <1>2, <1>3, <1>4
<1>6. Removal(q, p)
  <2> HIDE DEF q, p, r
  <2> QED BY <1>1, <1>2, <1>4, <1>5, RemovalPlaces DEF s
<1> QED BY <1>2, <1>3, <1>4, <1>5, <1>6

\* The lists are as before, but for a request less.
LEMMA HomeRemoval ==
  ASSUME BaseInv, HomeInv, NEW q \in Queues, NEW p \in 1..Len(messages[q]),
         Removal(q, p), UNCHANGED agent
  PROVE  /\ \A o \in Queues : \A k \in 1..Len(messages'[o]) : agent'[messages'[o][k]] = o
         /\ \A o \in Queues : \A j, k \in 1..Len(messages'[o]) :
              messages'[o][j] = messages'[o][k] => j = k
<1> DEFINE s == messages[q]
<1>2. /\ p \in 1..Len(s) /\ s \in Seq(Requests)
      /\ Len(messages'[q]) = Len(s) - 1
      /\ \A i \in 1..(Len(s) - 1) : messages'[q][i] = IF i < p THEN s[i] ELSE s[i + 1]
      /\ \A o \in Queues : o # q => messages'[o] = messages[o]
  BY DEF BaseInv, TypeOK, Removal
<1>5. \A k \in 1..(Len(s) - 1) : \E i \in 1..Len(s) :
        messages'[q][k] = s[i] /\ i = IF k < p THEN k ELSE k + 1
  BY <1>2
<1> HIDE DEF s
<1>6. ASSUME NEW o \in Queues, NEW k \in 1..Len(messages'[o])
      PROVE  agent'[messages'[o][k]] = o
  <2>1. CASE o = q
    <3>1. k \in 1..(Len(s) - 1)
      BY <1>2, <1>6, <2>1
    <3>2. PICK i \in 1..Len(s) : messages'[q][k] = s[i]
      BY <1>5, <3>1
    <3> QED BY <2>1, <3>2 DEF HomeInv, s
  <2>2. CASE o # q
    <3>1. messages'[o] = messages[o]
      BY <1>2, <2>2
    <3> QED BY <1>6, <3>1 DEF HomeInv
  <2> QED BY <2>1, <2>2
<1>7. ASSUME NEW o \in Queues, NEW j \in 1..Len(messages'[o]), NEW k \in 1..Len(messages'[o]),
             messages'[o][j] = messages'[o][k]
      PROVE  j = k
  <2>1. CASE o = q
    <3>1. j \in 1..(Len(s) - 1) /\ k \in 1..(Len(s) - 1)
      BY <1>2, <1>7, <2>1
    <3>2. PICK a \in 1..Len(s) : messages'[q][j] = s[a] /\ a = IF j < p THEN j ELSE j + 1
      BY <1>5, <3>1
    <3>3. PICK b \in 1..Len(s) : messages'[q][k] = s[b] /\ b = IF k < p THEN k ELSE k + 1
      BY <1>5, <3>1
    <3>4. a = b
      BY <1>2, <1>7, <2>1, <3>2, <3>3, SMTT(30) DEF HomeInv, s
    <3> QED BY <1>2, <3>1, <3>2, <3>3, <3>4
  <2>2. CASE o # q
    <3>1. messages'[o] = messages[o]
      BY <1>2, <2>2
    <3> QED BY <1>7, <3>1 DEF HomeInv
  <2> QED BY <2>1, <2>2
<1> QED BY <1>6, <1>7

LEMMA HomeDrop ==
  ASSUME BaseInv, HomeInv, NEW t \in Readers, Drop(t)
  PROVE  HomeInv'
<1> DEFINE q == reader[t].queue
<1>1. (Moves(t, "aim") \/ Moves(t, "looked")) /\ at[t] = "check"
  BY GotoMoves, Kinds DEF BaseInv, Drop, Places
<1>2. /\ q \in Queues
      /\ UNCHANGED messages \/ \E p \in 1..Len(messages[q]) : Removal(q, p)
      /\ \A o \in Queues : o # q => messages'[o] = messages[o]
  BY DropFacts DEF Removal
<1>3. UNCHANGED indexLastRead /\ UNCHANGED agent /\ UNCHANGED info /\ UNCHANGED reader
      /\ UNCHANGED user
  BY DEF Drop, locals
<1>4. /\ at'["user"] = at["user"] /\ at'[t] \in {"aim", "looked"}
      /\ \A b \in Readers : b # t => at'[b] = at[b]
  BY <1>1, Kinds DEF Moves
<1>5. /\ \A o \in Queues : \A k \in 1..Len(messages'[o]) : agent'[messages'[o][k]] = o
      /\ \A o \in Queues : \A j, k \in 1..Len(messages'[o]) :
           messages'[o][j] = messages'[o][k] => j = k
  <2> HIDE DEF q
  <2>1. CASE UNCHANGED messages
    BY <1>3, <2>1 DEF HomeInv
  <2>2. CASE \E p \in 1..Len(messages[q]) : Removal(q, p)
    BY <1>2, <1>3, <2>2, HomeRemoval
  <2> QED BY <1>2, <2>1, <2>2
<1>8. ASSUME NEW u \in Readers, at'[u] \in InTheMonitor
      PROVE  /\ reader'[u].next = indexLastRead'[reader'[u].queue] + 1
             /\ at'[u] = "check" =>
                  /\ agent'[info'[u]] = reader'[u].queue
                  /\ UserOps = {} =>
                       /\ reader'[u].next <= Len(messages'[reader'[u].queue])
                       /\ messages'[reader'[u].queue][reader'[u].next] = info'[u]
  <2>1. at[t] \in InTheMonitor
    BY <1>1 DEF InTheMonitor
  <2>2. CASE u = t
    BY <1>3, <1>4, <2>1, <2>2 DEF HomeInv
  <2>3. CASE u # t
    <3>1. at[u] \in InTheMonitor /\ at'[u] = at[u]
      BY <1>4, <1>8, <2>3
    <3>2. reader[u].queue \in Queues
      BY <3>1 DEF BaseInv, TypeOK, PlacesInv, ReadersOK, InTheMonitor
    <3>3. reader[u].queue # q
      BY <2>1, <2>3, <3>1, AloneInTheMonitor
    <3>4. messages'[reader[u].queue] = messages[reader[u].queue]
      BY <1>2, <3>2, <3>3
    <3> QED BY <1>3, <3>1, <3>4 DEF HomeInv
  <2> QED BY <2>2, <2>3
<1>9. /\ at'["user"] \in {"idle", "found", "aim", "pulse", "walk", "end"} /\ user'.list = <<>>
      /\ at'["user"] # "idle" => UserOps # {}
      /\ at'["user"] = "found" => agent'[info'["user"]] = user'.queue
      /\ "check" \in InTheMonitor
  BY <1>3, <1>4 DEF HomeInv, InTheMonitor
<1> QED BY <1>5, <1>8, <1>9 DEF HomeInv

LEMMA HomeSend ==
  ASSUME BaseInv, HomeInv, NEW r \in Requests, NEW q \in Queues, Send(r, q)
  PROVE  HomeInv'
<1> DEFINE s == messages[q]
<1>1. /\ UNCHANGED <<indexLastRead, at, info, reader, user>>
      /\ agent[r] = None /\ q # None
      /\ agent'[r] = q /\ \A x \in Requests : x # r => agent'[x] = agent[x]
      /\ s \in Seq(Requests) /\ messages'[q] = Append(s, r)
      /\ \A o \in Queues : o # q => messages'[o] = messages[o]
  BY AgentAssumption DEF Send, Sent, locals, BaseInv, TypeOK, AgentAssumption
<1>2. /\ Len(messages'[q]) = Len(s) + 1 /\ Len(s) \in Nat
      /\ \A k \in 1..Len(s) : messages'[q][k] = s[k]
      /\ messages'[q][Len(s) + 1] = r
  BY <1>1
<1>3. \A o \in Queues : \A k \in 1..Len(messages[o]) :
        messages[o][k] # r /\ messages[o][k] \in Requests /\ agent[messages[o][k]] = o
  <2>1. \A o \in Queues : \A k \in 1..Len(messages[o]) : messages[o][k] \in Requests
    BY DEF BaseInv, TypeOK
  <2>2. \A o \in Queues : o # None
    BY AgentAssumption DEF AgentAssumption
  <2> QED BY <1>1, <2>1, <2>2 DEF HomeInv
<1>4. \A o \in Queues : \A k \in 1..Len(messages[o]) :
        k \in 1..Len(messages'[o]) /\ messages'[o][k] = messages[o][k]
  BY <1>1, <1>2
<1>5. ASSUME NEW o \in Queues, NEW k \in 1..Len(messages'[o])
      PROVE  (k \in 1..Len(messages[o]) /\ messages'[o][k] = messages[o][k])
             \/ (o = q /\ k = Len(messages[q]) + 1 /\ messages'[o][k] = r)
  <2>1. CASE o = q
    BY <1>2, <1>5, <2>1
  <2>2. CASE o # q
    BY <1>1, <1>5, <2>2
  <2> QED BY <2>1, <2>2
<1>6. \A o \in Queues : \A k \in 1..Len(messages'[o]) : agent'[messages'[o][k]] = o
  BY <1>1, <1>3, <1>5
<1>7. ASSUME NEW o \in Queues, NEW j \in 1..Len(messages'[o]), NEW k \in 1..Len(messages'[o]),
             messages'[o][j] = messages'[o][k]
      PROVE  j = k
  <2>1. CASE j \in 1..Len(messages[o]) /\ k \in 1..Len(messages[o])
    BY <1>4, <1>7, <2>1 DEF HomeInv
  <2>2. CASE ~(j \in 1..Len(messages[o]) /\ k \in 1..Len(messages[o]))
    BY <1>3, <1>5, <1>7, <2>2
  <2> QED BY <2>1, <2>2
<1>8. ASSUME NEW u \in Readers, at[u] = "check", UserOps = {}
      PROVE  /\ reader[u].next <= Len(messages'[reader[u].queue])
             /\ messages'[reader[u].queue][reader[u].next] = info[u]
  <2>1. reader[u].queue \in Queues
    BY <1>8 DEF BaseInv, TypeOK, PlacesInv, ReadersOK
  <2>2. reader[u].next \in 1..Len(messages[reader[u].queue])
    <3>1. /\ reader[u].next = indexLastRead[reader[u].queue] + 1
          /\ reader[u].next <= Len(messages[reader[u].queue])
      BY <1>8 DEF HomeInv, InTheMonitor
    <3>2. indexLastRead[reader[u].queue] \in Nat /\ Len(messages[reader[u].queue]) \in Nat
      BY <2>1 DEF BaseInv, TypeOK
    <3> QED BY <3>1, <3>2
  <2>3. messages[reader[u].queue][reader[u].next] = info[u]
    BY <1>8 DEF HomeInv
  <2>4. /\ reader[u].next \in 1..Len(messages'[reader[u].queue])
        /\ messages'[reader[u].queue][reader[u].next] = info[u]
    BY <1>4, <2>1, <2>2, <2>3
  <2> QED BY <2>4
<1>9. /\ at'["user"] \in {"idle", "found", "aim", "pulse", "walk", "end"} /\ user'.list = <<>>
      /\ at'["user"] # "idle" => UserOps # {}
      /\ \A u \in Readers : at'[u] \in InTheMonitor =>
           reader'[u].next = indexLastRead'[reader'[u].queue] + 1
  BY <1>1 DEF HomeInv
<1>10. ASSUME NEW u \in Readers, at[u] = "check"
       PROVE  agent'[info[u]] = reader[u].queue
  <2>1. info[u] \in Requests /\ agent[info[u]] # None /\ agent[info[u]] = reader[u].queue
    BY <1>10, Kinds DEF BaseInv, TypeOK, PlacesInv, HandsOK, HomeInv
  <2> QED BY <1>1, <2>1
<1>11. ASSUME at["user"] = "found"
       PROVE  agent'[info["user"]] = user.queue
  <2>1. info["user"] \in Requests /\ agent[info["user"]] # None
    BY <1>11, FoundOne
  <2> QED BY <1>1, <1>11, <2>1 DEF HomeInv
<1> QED BY <1>1, <1>6, <1>7, <1>8, <1>9, <1>10, <1>11 DEF HomeInv

\* A found reply counts against the requests of the queue that have one as well.
LEMMA LookPasses ==
  ASSUME BaseInv, NEW t \in Readers, Look(t)
  PROVE  LET q == reader[t].queue
             n == InTurn(t)
             r == messages[q][n + 1] IN
         /\ replies'[r] = IF replies[r] # <<>> THEN Tail(replies[r]) ELSE replies[r]
         /\ \A s \in Requests : s # r => replies'[s] = replies[s]
         /\ replies[r] = <<>> => passed' = passed
         /\ replies[r] # <<>> =>
              /\ \A o \in Requests : passed'[r][o] = 0
              /\ \A s, o \in Requests : s # r =>
                   \/ passed'[s][o] = passed[s][o]
                   \/ /\ passed'[s][o] = passed[s][o] + 1 /\ o = r
                      /\ replies[s] # <<>>
                      /\ \E k \in 1..Len(messages[q]) : messages[q][k] = s
         /\ overlooked' \subseteq overlooked /\ overlooked \subseteq overlooked' \cup {r}
<1> DEFINE q == reader[t].queue
           n == InTurn(t)
           r == messages[q][n + 1]
           unread == {s \in ToSet(messages[q]) : replies[s] # <<>>}
<1>1. r \in Requests /\ messages[q] \in Seq(Requests)
  BY LookFacts DEF BaseInv, TypeOK
<1>2. /\ replies \in [Requests -> Seq(Replies)] /\ passed \in [Requests -> [Requests -> Nat]]
  BY DEF BaseInv, TypeOK
<1>3. replies' = [replies EXCEPT ![r] = IF replies[r] # <<>> THEN Tail(@) ELSE @]
  BY DEF Look
<1>4. \A s \in unread : replies[s] # <<>> /\ \E k \in 1..Len(messages[q]) : messages[q][k] = s
  BY <1>1 DEF ToSet
<1>5. passed' = IF ~(replies[r] # <<>>) THEN passed
               ELSE [s \in Requests |->
                       IF s = r THEN [o \in Requests |-> 0]
                       ELSE IF s \in unread THEN [passed[s] EXCEPT ![r] = @ + 1]
                       ELSE passed[s]]
  BY DEF Look
<1>6. overlooked' = IF Len(replies[r]) > 1 THEN overlooked ELSE overlooked \ {r}
  BY DEF Look
<1> HIDE DEF unread, r, n, q
<1>7. /\ replies'[r] = IF replies[r] # <<>> THEN Tail(replies[r]) ELSE replies[r]
      /\ \A s \in Requests : s # r => replies'[s] = replies[s]
  BY <1>1, <1>2, <1>3
<1>8. ASSUME replies[r] # <<>>
      PROVE  /\ \A o \in Requests : passed'[r][o] = 0
             /\ \A s, o \in Requests : s # r =>
                  \/ passed'[s][o] = passed[s][o]
                  \/ /\ passed'[s][o] = passed[s][o] + 1 /\ o = r
                     /\ replies[s] # <<>>
                     /\ \E k \in 1..Len(messages[q]) : messages[q][k] = s
  <2>1. passed'[r] = [o \in Requests |-> 0]
    BY <1>1, <1>5, <1>8
  <2>2. ASSUME NEW s \in Requests, NEW o \in Requests, s # r
        PROVE  \/ passed'[s][o] = passed[s][o]
               \/ /\ passed'[s][o] = passed[s][o] + 1 /\ o = r
                  /\ replies[s] # <<>>
                  /\ \E k \in 1..Len(messages[q]) : messages[q][k] = s
    <3>1. passed'[s] = IF s \in unread THEN [passed[s] EXCEPT ![r] = @ + 1] ELSE passed[s]
      BY <1>5, <1>8, <2>2
    <3>2. CASE s \in unread
      <4>1. passed'[s] = [passed[s] EXCEPT ![r] = @ + 1] /\ passed[s] \in [Requests -> Nat]
        BY <1>2, <3>1, <3>2
      <4>2. passed'[s][o] = IF o = r THEN passed[s][o] + 1 ELSE passed[s][o]
        BY <4>1
      <4> QED BY <1>4, <3>2, <4>2
    <3>3. CASE s \notin unread
      BY <3>1, <3>3
    <3> QED BY <3>2, <3>3
  <2> QED BY <2>1, <2>2
<1>9. replies[r] = <<>> => passed' = passed
  BY <1>5
<1>10. overlooked' \subseteq overlooked /\ overlooked \subseteq overlooked' \cup {r}
  BY <1>6
<1> QED BY <1>7, <1>8, <1>9, <1>10 DEF r, n, q

LEMMA TurnsLook ==
  ASSUME BaseInv, HomeInv, TurnsInv, NEW t \in Readers, Look(t)
  PROVE  TurnsInv'
<1> DEFINE q == reader[t].queue
           n == InTurn(t)
           r == messages[q][n + 1]
           l == Len(messages[q])
           m == indexLastRead[q] + 1
<1>1. /\ q \in Queues /\ n \in Nat /\ n + 1 \in 1..l
      /\ r \in Requests /\ agent[r] # None
      /\ n = reader[t].next \/ (n = 0 /\ reader[t].next >= l)
  BY LookFacts
<1>2. /\ replies'[r] = IF replies[r] # <<>> THEN Tail(replies[r]) ELSE replies[r]
      /\ \A s \in Requests : s # r => replies'[s] = replies[s]
      /\ replies[r] = <<>> => passed' = passed
      /\ replies[r] # <<>> =>
              /\ \A o \in Requests : passed'[r][o] = 0
              /\ \A s, o \in Requests : s # r =>
                   \/ passed'[s][o] = passed[s][o]
                   \/ /\ passed'[s][o] = passed[s][o] + 1 /\ o = r
                      /\ replies[s] # <<>>
                      /\ \E k \in 1..l : messages[q][k] = s
      /\ overlooked' \subseteq overlooked /\ overlooked \subseteq overlooked' \cup {r}
  BY LookPasses
<1>3. /\ UNCHANGED messages /\ UNCHANGED agent /\ at[t] = "for"
      /\ indexLastRead'[q] = n /\ \A o \in Queues : o # q => indexLastRead'[o] = indexLastRead[o]
  BY <1>1 DEF Look, BaseInv, TypeOK
<1>4. /\ m \in Nat /\ l \in Nat /\ passed \in [Requests -> [Requests -> Nat]]
      /\ \A o \in Queues : \A k \in 1..Len(messages[o]) : messages[o][k] \in Requests
  <2>1. messages \in [Queues -> Seq(Requests)] /\ indexLastRead[q] \in Nat /\ messages[q] \in Seq(Requests)
    BY <1>1 DEF BaseInv, TypeOK
  <2>2. \A o \in Queues : \A k \in 1..Len(messages[o]) : messages[o][k] \in Requests
    BY <2>1
  <2>3. m \in Nat /\ l \in Nat
    BY <2>1
  <2> QED BY <2>2, <2>3 DEF BaseInv, TypeOK
<1>5. n = m \/ (n = 0 /\ m >= l)
  <2>1. reader[t].next = m
    BY <1>3 DEF HomeInv, InTheMonitor
  <2> QED BY <1>1, <2>1
<1>6. \A j, k \in 1..l : /\ j # n + 1 => Ahead(j, n + 1, n + 1)
                         /\ ~Ahead(j, n + 1, m)
                         /\ j # n + 1 /\ k # n + 1 /\ Ahead(j, k, m) => Ahead(j, k, n + 1)
  <2> HIDE DEF m, l, r, n, q
  <2>1. ASSUME NEW j \in 1..l, NEW k \in 1..l
        PROVE  /\ j # n + 1 => Ahead(j, n + 1, n + 1)
               /\ ~Ahead(j, n + 1, m)
               /\ j # n + 1 /\ k # n + 1 /\ Ahead(j, k, m) => Ahead(j, k, n + 1)
    BY <1>1, <1>4, <1>5, AheadTurns
  <2> QED BY <2>1
<1>7. /\ \A o \in Queues : \A k \in 1..Len(messages[o]) : agent[messages[o][k]] = o
      /\ \A j, k \in 1..l : messages[q][j] = messages[q][k] => j = k
  BY <1>1 DEF HomeInv
<1>8. messages[q][n + 1] = r
  OBVIOUS
<1> HIDE DEF m, l, r, n, q
<1>9. /\ \A s, o \in Requests : passed[s][o] > 0 => replies[s] # <<>> /\ agent[o] # None
      /\ \A s, o \in Requests : s \notin overlooked => passed[s][o] <= 1
      /\ \A j, k \in 1..l :
           messages[q][j] \notin overlooked /\ passed[messages[q][j]][messages[q][k]] > 0 =>
             Ahead(j, k, m)
  BY <1>1 DEF TurnsInv, FairTurns, m, l
\* Nobody has been passed over by r that is still before it.
<1>10. ASSUME NEW j \in 1..l, messages[q][j] \notin overlooked
       PROVE  passed[messages[q][j]][r] = 0
  <2>1. ~(passed[messages[q][j]][r] > 0)
    BY <1>1, <1>6, <1>8, <1>9, <1>10
  <2>2. passed[messages[q][j]][r] \in Nat
    <3>1. messages[q][j] \in Requests
      BY <1>1, <1>4 DEF l
    <3> QED BY <1>1, <1>4, <3>1
  <2> QED BY <2>1, <2>2
<1>11. \A o \in Requests : passed'[r][o] = 0
  <2>1. ASSUME replies[r] = <<>>, NEW o \in Requests PROVE passed[r][o] = 0
    <3>1. ~(passed[r][o] > 0) /\ passed[r][o] \in Nat
      BY <1>1, <1>4, <1>9, <2>1
    <3> QED BY <3>1
  <2> QED BY <1>2, <2>1
<1>12. ASSUME NEW s \in Requests, NEW o \in Requests, s # r
       PROVE  \/ passed'[s][o] = passed[s][o]
              \/ /\ passed'[s][o] = passed[s][o] + 1 /\ o = r
                 /\ replies[s] # <<>>
                 /\ \E k \in 1..l : messages[q][k] = s
  BY <1>2, <1>12
<1>13. ASSUME NEW s \in Requests, NEW o \in Requests, passed'[s][o] > 0
       PROVE  replies'[s] # <<>> /\ agent[o] # None
  <2>1. s # r
    BY <1>11, <1>13
  <2> QED BY <1>1, <1>2, <1>9, <1>12, <1>13, <2>1
<1>14. ASSUME NEW s \in Requests \ overlooked', NEW o \in Requests
       PROVE  passed'[s][o] <= 1
  <2>1. CASE s = r
    BY <1>11, <2>1
  <2>2. CASE s # r
    <3>1. s \notin overlooked
      BY <1>2, <1>14, <2>2
    <3>2. CASE passed'[s][o] = passed[s][o]
      BY <1>9, <3>1, <3>2
    <3>3. CASE passed'[s][o] = passed[s][o] + 1 /\ o = r /\ \E k \in 1..l : messages[q][k] = s
      <4>1. passed[s][o] = 0
        BY <1>10, <3>1, <3>3
      <4> QED BY <3>3, <4>1
    <3> QED BY <1>12, <2>2, <3>2, <3>3
  <2> QED BY <2>1, <2>2
<1>15. ASSUME NEW o \in Queues, NEW j \in 1..Len(messages[o]), NEW k \in 1..Len(messages[o]),
              messages[o][j] \notin overlooked', passed'[messages[o][j]][messages[o][k]] > 0
       PROVE  Ahead(j, k, indexLastRead'[o] + 1)
  <2> DEFINE s == messages[o][j]
             x == messages[o][k]
  <2>1. s \in Requests /\ x \in Requests /\ s # r
    BY <1>4, <1>11, <1>15
  <2>2. s \notin overlooked
    BY <1>2, <1>15, <2>1
  <2>3. CASE o = q
    <3>1. j \in 1..l /\ k \in 1..l /\ j # n + 1
      BY <1>8, <2>1, <2>3 DEF l
    <3>2. CASE x = r
      <4>1. k = n + 1
        BY <1>1, <1>7, <1>8, <2>3, <3>1, <3>2
      <4> QED BY <1>3, <1>6, <2>3, <3>1, <4>1
    <3>3. CASE x # r
      <4>1. k # n + 1
        BY <1>8, <2>3, <3>3
      <4>2. passed[s][x] > 0
        BY <1>12, <1>15, <2>1, <3>3
      <4>3. Ahead(j, k, m)
        BY <1>9, <2>2, <2>3, <3>1, <4>2
      <4> QED BY <1>3, <1>6, <2>3, <3>1, <4>1, <4>3
    <3> QED BY <3>2, <3>3
  <2>4. CASE o # q
    <3>1. passed'[s][x] = passed[s][x]
      <4>1. agent[s] = o
        BY <1>7
      <4>2. \A i \in 1..l : messages[q][i] # s
        BY <1>1, <1>7, <2>4, <4>1 DEF l
      <4> QED BY <1>12, <2>1, <4>2
    <3>2. Ahead(j, k, indexLastRead[o] + 1)
      BY <1>15, <2>2, <3>1 DEF TurnsInv
    <3> QED BY <1>3, <2>4, <3>2
  <2> QED BY <2>3, <2>4
<1>16. at'["user"] = "idle"
  BY Kinds DEF Look, Goto, TurnsInv, BaseInv, TypeOK
<1> QED BY <1>3, <1>13, <1>14, <1>15, <1>16 DEF TurnsInv, FairTurns

LEMMA TurnsDrop ==
  ASSUME UserOps = {}, BaseInv, HomeInv, TurnsInv, NEW t \in Readers, Drop(t)
  PROVE  TurnsInv'
<1> DEFINE q == reader[t].queue
           p == reader[t].next
           s == messages[q]
<1>1. /\ q \in Queues /\ p \in 1..Len(s) /\ p = indexLastRead[q] + 1
      /\ s \in Seq(Requests) /\ info[t] = s[p]
      /\ Len(messages'[q]) = Len(s) - 1
      /\ \A i \in 1..(Len(s) - 1) : messages'[q][i] = IF i < p THEN s[i] ELSE s[i + 1]
      /\ \A o \in Queues : o # q => messages'[o] = messages[o]
  BY DropInPlace DEF Removal
<1>2. /\ UNCHANGED indexLastRead /\ UNCHANGED agent /\ UNCHANGED passed
      /\ replies[info[t]] = <<>>
      /\ overlooked' = overlooked \cup {s[k] : k \in {p + 1} \cap DOMAIN s}
  BY DEF Drop, Finished
<1>3. info[t] \in Requests
  BY <1>1
<1>4. \A r \in Requests : replies[r] # <<>> => replies'[r] # <<>>
  <2>1. Abandon(info[t], [messages EXCEPT ![reader[t].queue] = RemoveFirst(@, info[t])])
    BY DEF Drop
  <2>2. \A r \in Requests \ {info[t]} : replies'[r] = replies[r]
    BY <1>1, <1>3, <2>1, AbandonFacts DEF BaseInv
  <2> QED BY <1>2, <2>2
<1>5. \A k \in 1..(Len(s) - 1) : \E i \in 1..Len(s) :
        messages'[q][k] = s[i] /\ i = IF k < p THEN k ELSE k + 1
  BY <1>1
<1>6. p + 1 \in 1..Len(s) => s[p + 1] \in overlooked'
  BY <1>1, <1>2
<1> HIDE DEF s, p, q
<1>7. ASSUME NEW o \in Queues, NEW j \in 1..Len(messages'[o]), NEW k \in 1..Len(messages'[o]),
             messages'[o][j] \notin overlooked', passed[messages'[o][j]][messages'[o][k]] > 0
      PROVE  Ahead(j, k, indexLastRead[o] + 1)
  <2>1. messages'[o][j] \notin overlooked
    BY <1>2, <1>7
  <2>2. CASE o = q
    <3>1. j \in 1..(Len(s) - 1) /\ k \in 1..(Len(s) - 1)
      BY <1>1, <1>7, <2>2
    <3>2. PICK a \in 1..Len(s) : messages'[q][j] = s[a] /\ a = IF j < p THEN j ELSE j + 1
      BY <1>5, <3>1
    <3>3. PICK b \in 1..Len(s) : messages'[q][k] = s[b] /\ b = IF k < p THEN k ELSE k + 1
      BY <1>5, <3>1
    <3>4. Ahead(a, b, p)
      BY <1>1, <1>7, <2>1, <2>2, <3>2, <3>3 DEF TurnsInv, s
    <3>5. a # p + 1
      BY <1>6, <1>7, <2>2, <3>2
    <3>6. j # p /\ j \in Nat /\ k \in Nat /\ p \in Nat
      BY <1>1, <3>1, <3>2, <3>5
    <3>7. Ahead(IF j < p THEN j ELSE j + 1, IF k < p THEN k ELSE k + 1, p)
      BY <3>2, <3>3, <3>4
    <3> QED BY <1>1, <2>2, <3>6, <3>7, AheadDrop
  <2>3. CASE o # q
    <3>1. messages'[o] = messages[o]
      BY <1>1, <2>3
    <3> QED BY <1>7, <2>1, <3>1 DEF TurnsInv
  <2> QED BY <2>2, <2>3
<1>8. \A r, x \in Requests : passed'[r][x] > 0 => replies'[r] # <<>> /\ agent'[x] # None
  BY <1>2, <1>4 DEF TurnsInv
<1>9. \A r \in Requests \ overlooked', x \in Requests : passed'[r][x] <= 1
  BY <1>2 DEF TurnsInv, FairTurns
<1>10. at'["user"] = "idle"
  BY Kinds DEF Drop, Goto, TurnsInv, BaseInv, TypeOK
<1> QED BY <1>2, <1>7, <1>8, <1>9, <1>10 DEF TurnsInv, FairTurns

LEMMA TurnsSend ==
  ASSUME BaseInv, ReachInv, TurnsInv, NEW r \in Requests, NEW q \in Queues, Send(r, q)
  PROVE  TurnsInv'
<1>1. /\ UNCHANGED indexLastRead /\ UNCHANGED passed /\ UNCHANGED overlooked /\ UNCHANGED replies
      /\ agent[r] = None /\ q # None
      /\ agent'[r] = q /\ \A x \in Requests : x # r => agent'[x] = agent[x]
      /\ messages[q] \in Seq(Requests) /\ messages'[q] = Append(messages[q], r)
      /\ \A o \in Queues : o # q => messages'[o] = messages[o]
  BY AgentAssumption DEF Send, Sent, lists, history, BaseInv, TypeOK, AgentAssumption
<1>2. \A x, y \in Requests : passed[x][y] > 0 => x # r /\ y # r
  BY <1>1 DEF TurnsInv, ReachInv
<1>3. \A o \in Queues : \A k \in 1..Len(messages'[o]) :
        \/ k \in 1..Len(messages[o]) /\ messages'[o][k] = messages[o][k]
        \/ messages'[o][k] = r
  <2> SUFFICES ASSUME NEW o \in Queues, NEW k \in 1..Len(messages'[o])
               PROVE  \/ k \in 1..Len(messages[o]) /\ messages'[o][k] = messages[o][k]
                      \/ messages'[o][k] = r
    OBVIOUS
  <2>1. CASE o = q
    BY <1>1, <2>1
  <2>2. CASE o # q
    BY <1>1, <2>2
  <2> QED BY <2>1, <2>2
<1>4. ASSUME NEW o \in Queues, NEW j \in 1..Len(messages'[o]), NEW k \in 1..Len(messages'[o]),
             messages'[o][j] \notin overlooked, passed[messages'[o][j]][messages'[o][k]] > 0
      PROVE  Ahead(j, k, indexLastRead[o] + 1)
  <2>1. messages'[o][j] \in Requests /\ messages'[o][k] \in Requests
    <3>1. \A i \in 1..Len(messages[o]) : messages[o][i] \in Requests
      BY DEF BaseInv, TypeOK
    <3> QED BY <1>3, <3>1
  <2>2. messages'[o][j] # r /\ messages'[o][k] # r
    BY <1>2, <1>4, <2>1
  <2>3. /\ j \in 1..Len(messages[o]) /\ messages'[o][j] = messages[o][j]
        /\ k \in 1..Len(messages[o]) /\ messages'[o][k] = messages[o][k]
    BY <1>3, <2>2
  <2> QED BY <1>4, <2>3 DEF TurnsInv
<1>5. \A x, y \in Requests : passed[x][y] > 0 => replies[x] # <<>> /\ agent'[y] # None
  BY <1>1 DEF TurnsInv
<1>6. FairTurns
  BY DEF TurnsInv
<1>7. at'["user"] = "idle"
  BY DEF Send, TurnsInv
<1> QED BY <1>1, <1>4, <1>5, <1>6, <1>7 DEF TurnsInv, FairTurns

LEMMA AppendNotEmpty ==
  ASSUME NEW S, NEW w \in Seq(S), NEW v
  PROVE  Append(w, v) # <<>>
<1>1. w \in Seq(S \cup {v})
  OBVIOUS
<1>2. Len(Append(w, v)) = Len(w) + 1 /\ Len(w) \in Nat
  BY <1>1, AppendProperties
<1>3. Len(<<>>) = 0
  OBVIOUS
<1> QED BY <1>2, <1>3

LEMMA HomeFind ==
  ASSUME BaseInv, HomeInv, NEW r \in Requests, Find(r)
  PROVE  HomeInv'
<1>1. Moves("user", "found") /\ at["user"] = "idle" /\ UserOps # {}
  BY GotoMoves, Kinds DEF BaseInv, Find, Places
<1>2. /\ UNCHANGED <<messages, indexLastRead, agent, reader>>
      /\ info'["user"] = r /\ \A b \in Readers : info'[b] = info[b]
      /\ user'.queue = agent[r] /\ user'.list = <<>>
  BY Kinds DEF Find, lists, BaseInv, TypeOK
<1>3. at'["user"] = "found" /\ \A b \in Readers : at'[b] = at[b]
  BY <1>1, Kinds DEF Moves
<1> QED BY <1>1, <1>2, <1>3 DEF HomeInv

LEMMA HomeAbandonOne ==
  ASSUME BaseInv, HomeInv, AbandonOne
  PROVE  HomeInv'
<1> DEFINE q == user.queue
           r == info["user"]
<1>1. (Moves("user", "aim") \/ Moves("user", "walk")) /\ at["user"] = "found"
  BY GotoMoves, Kinds DEF BaseInv, AbandonOne, UserDrops, Places
<1>2. /\ q \in Queues /\ r \in Requests /\ agent[r] = q
      /\ Abandon(r, [messages EXCEPT ![q] = RemoveFirst(@, r)])
      /\ UNCHANGED <<indexLastRead, agent, reader, user>>
      /\ \A b \in Readers : info'[b] = info[b]
  <2>1. \A b \in Readers : info'[b] = info[b]
    BY Kinds DEF AbandonOne, UserDrops, BaseInv, TypeOK
  <2> QED BY <1>1, <2>1, FoundOne DEF AbandonOne, UserDrops, locals, HomeInv
<1> HIDE DEF q, r
<1>3. UNCHANGED messages \/ \E p \in 1..Len(messages[q]) : Removal(q, p)
  BY <1>2, RemovalOrNone
<1>4. /\ \A o \in Queues : \A k \in 1..Len(messages'[o]) : agent'[messages'[o][k]] = o
      /\ \A o \in Queues : \A j, k \in 1..Len(messages'[o]) :
           messages'[o][j] = messages'[o][k] => j = k
  <2>1. CASE UNCHANGED messages
    BY <1>2, <2>1 DEF HomeInv
  <2>2. CASE \E p \in 1..Len(messages[q]) : Removal(q, p)
    BY <1>2, <2>2, HomeRemoval
  <2> QED BY <1>3, <2>1, <2>2
<1>5. /\ at'["user"] \in {"aim", "walk"} /\ user'.list = <<>> /\ UserOps # {}
      /\ \A b \in Readers : at'[b] = at[b]
  BY <1>1, <1>2, Kinds DEF Moves, HomeInv
<1>6. ASSUME NEW u \in Readers, at'[u] \in InTheMonitor
      PROVE  reader'[u].next = indexLastRead'[reader'[u].queue] + 1
  BY <1>2, <1>5, <1>6 DEF HomeInv
<1>7. ASSUME NEW u \in Readers, at'[u] = "check"
      PROVE  agent'[info'[u]] = reader'[u].queue
  BY <1>2, <1>5, <1>7 DEF HomeInv
<1> QED BY <1>4, <1>5, <1>6, <1>7 DEF HomeInv

LEMMA HomeStep ==
  ASSUME UserOps \subseteq {"abandon"}
  PROVE  BaseInv /\ HomeInv /\ [Next]_vars => HomeInv'
<1> SUFFICES ASSUME BaseInv, HomeInv, [Next]_vars PROVE HomeInv'
  OBVIOUS
<1>0. at["user"] \in {"idle", "found", "aim", "pulse", "walk", "end"}
      /\ {"check", "aim", "pulse", "looked", "for"} \subseteq InTheMonitor
      /\ "idle" \notin InTheMonitor /\ "enter" \notin InTheMonitor /\ "wait" \notin InTheMonitor
  BY DEF HomeInv, InTheMonitor
<1>1. CASE UNCHANGED vars
  BY <1>1, HomeFrame DEF vars, lists, locals
<1>2. CASE \E r \in Requests, q \in Queues : Send(r, q)
  BY <1>2, HomeSend
<1>3. CASE \E t \in Readers, q \in Queues : Get(t, q)
  <2> SUFFICES ASSUME NEW t \in Readers, NEW q \in Queues, Get(t, q)
               PROVE  HomeInv'
    BY <1>3
  <2>1. Moves(t, "enter")
    BY GotoMoves, Kinds DEF BaseInv, Get, Places
  <2>2. \A b \in Readers : b # t => reader'[b] = reader[b]
    BY DEF Get, BaseInv, TypeOK
  <2> QED BY <1>0, <2>1, <2>2, HomeFrame, Kinds DEF Get, Moves, lists
<1>4. CASE \E r \in Requests : Receive(r) \/ Find(r)
  <2> SUFFICES ASSUME NEW r \in Requests, Receive(r)
               PROVE  HomeInv'
    BY <1>4, HomeFind
  <2>1. Moves("putter", "add")
    BY GotoMoves, Kinds DEF BaseInv, Receive, Places
  <2>2. info'["user"] = info["user"] /\ \A b \in Readers : info'[b] = info[b]
    BY Kinds DEF Receive, BaseInv, TypeOK
  <2> QED BY <2>1, <2>2, HomeFrame, Kinds DEF Receive, Moves, lists, locals
<1>5. CASE \E r \in TimeLimited : Fire(r)
  <2> SUFFICES ASSUME NEW r \in TimeLimited, Fire(r)
               PROVE  HomeInv'
    BY <1>5
  <2>1. Moves(r, "abandon")
    BY GotoMoves, Kinds DEF BaseInv, Fire, Places
  <2> QED BY <2>1, HomeFrame, Kinds DEF Fire, Moves, lists, locals
<1>6. CASE \E q \in Queues : BeginAbandonAll(q) \/ \E from \in Queues : BeginMerge(from, q)
  BY <1>6 DEF BeginAbandonAll, BeginMerge, Begin
<1>7. ASSUME NEW t \in Readers, Reading(t) PROVE HomeInv'
  <2>1. CASE Enter(t)
    BY <2>1, HomeEnter DEF Enter, lists
  <2>2. CASE Look(t)
    BY <2>2, HomeLook
  <2>3. CASE Keep(t) \/ Dropped(t)
    <3>1. Moves(t, "for") \/ Moves(t, "idle")
      BY <2>3, GotoMoves, Kinds DEF BaseInv, Keep, Dropped, GoOn, Places
    <3>2. at[t] \in InTheMonitor
      BY <1>0, <2>3 DEF Keep, Dropped
    <3>3. /\ \A b \in Readers : b # t => reader'[b] = reader[b] /\ info'[b] = info[b]
          /\ info'["user"] = info["user"]
          /\ \/ reader'[t].queue = reader[t].queue /\ reader'[t].next = reader[t].next
             \/ at'[t] = "idle"
      <4>1. reader \in [Readers -> ReaderLocals] /\ info \in [Threads -> Requests \cup {None}]
        BY DEF BaseInv, TypeOK, ReaderLocals
      <4>2. CASE reader[t].rfcMsg = NoReply
        <5>1. \E k : reader' = [reader EXCEPT ![t].i = k]
          BY <2>3, <4>2 DEF Keep, Dropped, GoOn
        <5>2. reader'[t].queue = reader[t].queue /\ reader'[t].next = reader[t].next
          BY <4>1, <5>1 DEF ReaderLocals
        <5>3. \A b \in Readers : b # t => reader'[b] = reader[b]
          BY <4>1, <5>1
        <5>4. info'["user"] = info["user"] /\ \A b \in Readers : b # t => info'[b] = info[b]
          BY <2>3, <4>1, Kinds DEF Keep, Dropped, GoOn
        <5> QED BY <5>2, <5>3, <5>4
      <4>3. CASE reader[t].rfcMsg # NoReply
        BY <2>3, <4>1, <4>3, Kinds DEF Keep, Dropped, GoOn, Goto, BaseInv, TypeOK
      <4> QED BY <4>2, <4>3
    <3>4. UNCHANGED <<messages, indexLastRead, agent, user>>
      BY <2>3 DEF Keep, Dropped, lists
    <3> QED BY <1>0, <3>1, <3>2, <3>3, <3>4, HomeFrame, Kinds DEF Moves
  <2>4. CASE Drop(t)
    BY <2>4, HomeDrop
  <2>5. CASE Wait(t)
    <3>1. Moves(t, "wait") \/ Moves(t, "idle")
      BY <2>5, GotoMoves, Kinds DEF BaseInv, Wait, Places
    <3>2. \A b \in Readers : b # t => reader'[b] = reader[b]
      BY <2>5 DEF Wait, BaseInv, TypeOK
    <3> QED BY <1>0, <2>5, <3>1, <3>2, HomeFrame, Kinds
        DEF Wait, Moves, lists
  <2> QED BY <1>7, <2>1, <2>2, <2>3, <2>4, <2>5 DEF Reading
<1>8. CASE Putting
  <2>1. CASE AddReply
    <3>1. Moves("putter", "settle") \/ Moves("putter", "aim")
      BY <2>1, GotoMoves, Kinds DEF BaseInv, AddReply, Places
    <3> QED BY <2>1, <3>1, HomeFrame, Kinds
        DEF AddReply, Moves, lists, locals
  <2>2. CASE Settle
    <3>1. Moves("putter", "aim")
      BY <2>2, GotoMoves, Kinds DEF BaseInv, Settle, Places
    <3> QED BY <2>2, <3>1, HomeFrame, Kinds DEF Settle, Moves, lists, locals
  <2> QED BY <1>8, <2>1, <2>2 DEF Putting
<1>9. ASSUME NEW r \in TimeLimited, Informing(r) PROVE HomeInv'
  <2>1. CASE AbandonInforming(r)
    <3>1. Moves(r, "tell") \/ Moves(r, "end")
      BY <2>1, GotoMoves, Kinds DEF BaseInv, AbandonInforming, Places
    <3> QED BY <2>1, <3>1, HomeFrame, Kinds
        DEF AbandonInforming, Moves, lists, locals
  <2>2. CASE Tell(r)
    <3>1. Moves(r, "aim")
      BY <2>2, GotoMoves, Kinds DEF BaseInv, Tell, Places
    <3> QED BY <2>2, <3>1, HomeFrame, Kinds DEF Tell, Moves, lists, locals
  <2> QED BY <1>9, <2>1, <2>2 DEF Informing
<1>10. CASE Using
  <2> SUFFICES ASSUME Walk PROVE HomeInv'
    BY <1>0, <1>10, HomeAbandonOne DEF Using, MergeAdd, MergeName, MergePulse
  <2>2. user.i \in Nat /\ Len(user.list) = 0
    BY DEF HomeInv, BaseInv, TypeOK
  <2>3. Goto("user", "end") /\ UNCHANGED <<messages, indexLastRead, agent, info, reader, user>>
    BY <2>2 DEF Walk
  <2>4. Moves("user", "end") /\ at["user"] = "walk"
    BY <2>3, GotoMoves, Kinds DEF BaseInv, Places, Walk
  <2> QED BY <2>3, <2>4, HomeFrame, Kinds DEF Moves
<1>11. ASSUME NEW t \in Threads, Aim(t) \/ Pulse(t) PROVE HomeInv'
  <2>1. CASE Aim(t)
    <3>1. Moves(t, "pulse") /\ at[t] = "aim"
      BY <1>0, <2>1, GotoMoves, Kinds DEF BaseInv, Aim, Places
    <3> QED BY <1>0, <2>1, <3>1, HomeFrame, Kinds DEF Aim, Moves, lists, locals
  <2>2. CASE Pulse(t)
    <3>1. at[t] = "pulse" /\ target[t] \in Queues /\ AfterPulse(t) \in Places
      BY <1>0, <2>2, Kinds DEF Pulse, AfterPulse, Places, BaseInv, TypeOK, PlacesInv, HandsOK
    <3>2. /\ at'[t] = AfterPulse(t)
          /\ \A b \in Threads \ {t} : at'[b] = "enter" \/ at'[b] = at[b]
          /\ at'["user"] = at["user"] \/ (at["user"] = "pulse" /\ at'["user"] = "walk")
      <4>1. Wake(t, AfterPulse(t), target[t], 1)
        BY <2>2 DEF Pulse
      <4>2. /\ at'[t] = AfterPulse(t)
            /\ \A b \in Threads \ {t} :
                 at'[b] = IF b \in ToSet(waiting[target[t]]) \ ToSet(waiting'[target[t]])
                          THEN "enter" ELSE at[b]
        BY <3>1, <4>1, WakeFacts DEF BaseInv
      <4>3. \A b \in ToSet(waiting[target[t]]) : b \in Readers
        <5>1. waiting[target[t]] \in Seq(Readers)
          BY <3>1 DEF BaseInv, TypeOK
        <5> QED BY <5>1 DEF ToSet
      <4>4. "user" \notin ToSet(waiting[target[t]])
        BY <4>3, Kinds
      <4>5. at'["user"] = at["user"] \/ (at["user"] = "pulse" /\ at'["user"] = "walk")
        <5>1. CASE t = "user"
          <6>1. AfterPulse("user") = "walk"
            BY Kinds DEF AfterPulse
          <6> QED BY <3>1, <4>2, <5>1, <6>1
        <5>2. CASE t # "user"
          <6>1. "user" \in Threads \ {t}
            BY <5>2, Kinds
          <6>2. at'["user"] = IF "user" \in ToSet(waiting[target[t]]) \ ToSet(waiting'[target[t]])
                             THEN "enter" ELSE at["user"]
            BY <4>2, <6>1
          <6> QED BY <4>4, <6>2
        <5> QED BY <5>1, <5>2
      <4> QED BY <4>2, <4>5
    <3>3. t \in Readers => at'[t] = "looked"
      BY <3>2, Kinds DEF AfterPulse
    <3>4. UNCHANGED <<messages, indexLastRead, agent, info, reader, user>>
      BY <2>2 DEF Pulse, lists, locals
    <3>5. \A b \in Readers : at'[b] \in InTheMonitor =>
            at[b] \in InTheMonitor /\ (at'[b] = "check" => at[b] = "check")
      BY <1>0, <3>1, <3>2, <3>3, Kinds
    <3> QED BY <3>2, <3>4, <3>5, HomeFrame
  <2> QED BY <1>11, <2>1, <2>2
<1>12. CASE \E t \in Threads : Step(t)
  BY <1>7, <1>8, <1>9, <1>10, <1>11, <1>12 DEF Step
<1> QED
  BY <1>1, <1>2, <1>3, <1>4, <1>5, <1>6, <1>12 DEF Next

LEMMA TurnsStep ==
  ASSUME UserOps = {}
  PROVE  BaseInv /\ ReachInv /\ HomeInv /\ TurnsInv /\ [Next]_vars => TurnsInv'
<1> SUFFICES ASSUME BaseInv, ReachInv, HomeInv, TurnsInv, [Next]_vars PROVE TurnsInv'
  OBVIOUS
<1>0. at["user"] = "idle"
  BY DEF TurnsInv
<1>1. CASE UNCHANGED vars
  <2>1. UNCHANGED <<messages, indexLastRead, agent, replies, passed, overlooked, at>>
    BY <1>1 DEF vars, lists, history
  <2>2. at'["user"] = at["user"] /\ \A r \in Requests : replies[r] # <<>> => replies'[r] # <<>>
    BY <2>1
  <2> QED BY <2>1, <2>2, TurnsFrame
<1>2. CASE \E r \in Requests, q \in Queues : Send(r, q)
  BY <1>2, TurnsSend
<1>3. CASE \E t \in Readers, q \in Queues : Get(t, q)
  <2> SUFFICES ASSUME NEW t \in Readers, NEW q \in Queues, Get(t, q)
               PROVE  TurnsInv'
    BY <1>3
  <2>1. Moves(t, "enter")
    BY GotoMoves, Kinds DEF BaseInv, Get, Places
  <2> QED BY <2>1, TurnsFrame, Kinds DEF Get, Moves, lists, history
<1>4. CASE \E r \in Requests : Receive(r) \/ Find(r)
  <2> SUFFICES ASSUME NEW r \in Requests, Receive(r)
               PROVE  TurnsInv'
    BY <1>4 DEF Find
  <2>1. Moves("putter", "add")
    BY GotoMoves, Kinds DEF BaseInv, Receive, Places
  <2> QED BY <2>1, TurnsFrame, Kinds DEF Receive, Moves, lists, locals, history
<1>5. CASE \E r \in TimeLimited : Fire(r)
  <2> SUFFICES ASSUME NEW r \in TimeLimited, Fire(r)
               PROVE  TurnsInv'
    BY <1>5
  <2>1. Moves(r, "abandon")
    BY GotoMoves, Kinds DEF BaseInv, Fire, Places
  <2> QED BY <2>1, TurnsFrame, Kinds DEF Fire, Moves, lists, locals, history
<1>6. CASE \E q \in Queues : BeginAbandonAll(q) \/ \E from \in Queues : BeginMerge(from, q)
  BY <1>6 DEF BeginAbandonAll, BeginMerge, Begin
<1>7. ASSUME NEW t \in Readers, Reading(t) PROVE TurnsInv'
  <2>1. CASE Enter(t)
    <3>1. Moves(t, "for")
      BY <2>1, GotoMoves, Kinds DEF BaseInv, Enter, Places
    <3> QED BY <2>1, <3>1, TurnsFrame, Kinds DEF Enter, Moves, lists, history
  <2>2. CASE Look(t)
    BY <2>2, TurnsLook
  <2>3. CASE Keep(t) \/ Dropped(t)
    <3>1. Moves(t, "for") \/ Moves(t, "idle")
      BY <2>3, GotoMoves, Kinds DEF BaseInv, Keep, Dropped, GoOn, Places
    <3>4. UNCHANGED <<messages, indexLastRead, agent, replies, passed, overlooked>>
      BY <2>3 DEF Keep, Dropped, lists, history
    <3> QED BY <3>1, <3>4, TurnsFrame, Kinds DEF Moves
  <2>4. CASE Drop(t)
    BY <2>4, TurnsDrop
  <2>5. CASE Wait(t)
    <3>1. Moves(t, "wait") \/ Moves(t, "idle")
      BY <2>5, GotoMoves, Kinds DEF BaseInv, Wait, Places
    <3> QED BY <2>5, <3>1, TurnsFrame, Kinds
        DEF Wait, Moves, lists, history
  <2> QED BY <1>7, <2>1, <2>2, <2>3, <2>4, <2>5 DEF Reading
<1>8. CASE Putting
  <2>1. CASE AddReply
    <3>1. Moves("putter", "settle") \/ Moves("putter", "aim")
      BY <2>1, GotoMoves, Kinds DEF BaseInv, AddReply, Places
    <3>2. \A r \in Requests : replies[r] # <<>> => replies'[r] # <<>>
      <4>1. replies \in [Requests -> Seq(Replies)] /\ \E v : replies' = [replies EXCEPT ![info["putter"]] = Append(@, v)]
        BY <2>1 DEF AddReply, BaseInv, TypeOK
      <4>2. \A w \in Seq(Replies) : \A v : Append(w, v) # <<>>
        BY AppendNotEmpty
      <4>3. \A x \in Requests : replies'[x] = replies[x] \/ \E v : replies'[x] = Append(replies[x], v)
        BY <4>1
      <4> QED BY <4>1, <4>2, <4>3
    <3> QED BY <2>1, <3>1, <3>2, TurnsFrame, Kinds
        DEF AddReply, Moves, lists, locals, history
  <2>2. CASE Settle
    <3>1. Moves("putter", "aim")
      BY <2>2, GotoMoves, Kinds DEF BaseInv, Settle, Places
    <3> QED BY <2>2, <3>1, TurnsFrame, Kinds DEF Settle, Moves, lists, locals, history
  <2> QED BY <1>8, <2>1, <2>2 DEF Putting
<1>9. ASSUME NEW r \in TimeLimited, Informing(r) PROVE TurnsInv'
  <2>1. CASE AbandonInforming(r)
    <3>1. Moves(r, "tell") \/ Moves(r, "end")
      BY <2>1, GotoMoves, Kinds DEF BaseInv, AbandonInforming, Places
    <3> QED BY <2>1, <3>1, TurnsFrame, Kinds
        DEF AbandonInforming, Moves, lists, locals, history
  <2>2. CASE Tell(r)
    <3>1. Moves(r, "aim")
      BY <2>2, GotoMoves, Kinds DEF BaseInv, Tell, Places
    <3>2. \A s \in Requests : replies[s] # <<>> => replies'[s] # <<>>
      <4>1. replies \in [Requests -> Seq(Replies)] /\ \E v : replies' = [replies EXCEPT ![r] = Append(@, v)]
        BY <2>2 DEF Tell, BaseInv, TypeOK
      <4>2. \A w \in Seq(Replies) : \A v : Append(w, v) # <<>>
        BY AppendNotEmpty
      <4>3. \A x \in Requests : replies'[x] = replies[x] \/ \E v : replies'[x] = Append(replies[x], v)
        BY <4>1
      <4> QED BY <4>1, <4>2, <4>3
    <3> QED BY <2>2, <3>1, <3>2, TurnsFrame, Kinds DEF Tell, Moves, lists, locals, history
  <2> QED BY <1>9, <2>1, <2>2 DEF Informing
<1>10. CASE Using
  BY <1>0, <1>10 DEF Using, AbandonOne, Walk, MergeAdd, MergeName, MergePulse
<1>11. ASSUME NEW t \in Threads, Aim(t) \/ Pulse(t) PROVE TurnsInv'
  <2>1. CASE Aim(t)
    <3>1. Moves(t, "pulse") /\ at[t] = "aim" /\ t # "user"
      BY <1>0, <2>1, GotoMoves, Kinds DEF BaseInv, Aim, Places
    <3> QED BY <2>1, <3>1, TurnsFrame, Kinds DEF Aim, Moves, lists, locals, history
  <2>2. CASE Pulse(t)
    <3>1. at[t] = "pulse" /\ t # "user" /\ target[t] \in Queues /\ AfterPulse(t) \in Places
      BY <1>0, <2>2, Kinds DEF Pulse, AfterPulse, Places, BaseInv, TypeOK, PlacesInv, HandsOK
    <3>2. /\ at'[t] = AfterPulse(t)
          /\ \A b \in Threads \ {t} : at'[b] = "enter" \/ at'[b] = at[b]
          /\ at'["user"] = at["user"]
      <4>1. Wake(t, AfterPulse(t), target[t], 1)
        BY <2>2 DEF Pulse
      <4>2. /\ at'[t] = AfterPulse(t)
            /\ \A b \in Threads \ {t} :
                 at'[b] = IF b \in ToSet(waiting[target[t]]) \ ToSet(waiting'[target[t]])
                          THEN "enter" ELSE at[b]
        BY <3>1, <4>1, WakeFacts DEF BaseInv
      <4>3. \A b \in ToSet(waiting[target[t]]) : b \in Readers
        <5>1. waiting[target[t]] \in Seq(Readers)
          BY <3>1 DEF BaseInv, TypeOK
        <5> QED BY <5>1 DEF ToSet
      <4>4. "user" \notin ToSet(waiting[target[t]])
        BY <4>3, Kinds
      <4> QED BY <3>1, <4>2, <4>4, Kinds
    <3>4. UNCHANGED <<messages, indexLastRead, agent, replies, info, reader, passed, overlooked>>
      BY <2>2 DEF Pulse, lists, locals, history
    <3> QED BY <3>2, <3>4, TurnsFrame
  <2> QED BY <1>11, <2>1, <2>2
<1>12. CASE \E t \in Threads : Step(t)
  BY <1>7, <1>8, <1>9, <1>10, <1>11, <1>12 DEF Step
<1> QED
  BY <1>1, <1>2, <1>3, <1>4, <1>5, <1>6, <1>12 DEF Next

\* Readers take turns: a request that has a reply is passed over once, at most, by each
\* of the others, although requests are sent and dropped while the readers walk the list.
\* A user that takes requests out of the list, or merges lists, changes the places.
THEOREM Turns ==
  ASSUME UserOps = {}
  PROVE  Spec => []FairTurns
<1>1. Init => ReachInv
  BY Kinds DEF Init, ReachInv
<1>2. Init => HomeInv
  BY InitHome
<1>3. Init => TurnsInv
  BY Kinds DEF Init, TurnsInv, FairTurns
<1>4. TurnsInv => FairTurns
  BY DEF TurnsInv
<1>5. UserOps \subseteq {"abandon"}
  OBVIOUS
<1>6. BaseInv /\ HomeInv /\ [Next]_vars => HomeInv'
  BY <1>5, HomeStep
<1> QED
  BY <1>1, <1>2, <1>3, <1>4, <1>6, BaseAlways, ReachStep, TurnsStep, PTL DEF Spec

-----------------------------------------------------------------------------
(* No reply is slept over.  First, what the pulses are owed to.              *)

\* What a reader has in hand, where it is: no reply before it looks, and the queue that
\* it reads is the one it is about to pulse.
HandInv ==
  \A t \in Readers :
    /\ at[t] = "idle" => reader[t] = Nothing
    /\ at[t] \in {"enter", "wait", "for"} => reader[t].rfcMsg = NoReply
    /\ at[t] = "aim" => agent[info[t]] = reader[t].queue
    /\ at[t] = "pulse" => target[t] = reader[t].queue

\* Whoever clears waitForReply has cleared acceptReplies, of a request that was sent.
FlagsInv ==
  /\ \A r \in Requests : ~waitForReply[r] => ~acceptReplies[r] /\ agent[r] # None
  /\ \A r \in TimeLimited : at[r] = "abandon" => ~acceptReplies[r]

\* A request in a list that waits for no reply timed out, and the exception is about to
\* be queued, or is queued, or somebody has it in hand.  Without timers all wait.
Told(r) ==
  \/ r \in TimeLimited /\ at[r] = "tell"
  \/ replies[r] # <<>>
  \/ \E t \in Readers : at[t] = "check" /\ info[t] = r /\ reader[t].rfcMsg # NoReply

ToldInv ==
  \A q \in Queues, r \in Requests : Listed(messages, q, r) /\ ~waitForReply[r] =>
    TimeLimited # {} /\ Told(r)

PulsesInv == HandInv /\ FlagsInv /\ ToldInv

LEMMA ToldFrame ==
  ASSUME ToldInv,
         \A q \in Queues, r \in Requests :
           Listed(messages', q, r) /\ ~waitForReply'[r] =>
             /\ Listed(messages, q, r) /\ ~waitForReply[r]
             /\ r \in TimeLimited /\ at[r] = "tell" => Told(r)'
             /\ replies[r] # <<>> => Told(r)',
         \A t \in Readers, r \in Requests :
           at[t] = "check" /\ reader[t].rfcMsg # NoReply /\ info[t] = r =>
             \/ at'[t] = "check" /\ info'[t] = r /\ reader'[t].rfcMsg # NoReply
             \/ \A q \in Queues :
                  Listed(messages', q, r) /\ ~waitForReply'[r] => Told(r)'
  PROVE  ToldInv'
<1> SUFFICES ASSUME NEW q \in Queues, NEW r \in Requests, Listed(messages', q, r), ~waitForReply'[r]
             PROVE  TimeLimited # {} /\ Told(r)'
  BY DEF ToldInv
<1>1. /\ Listed(messages, q, r) /\ ~waitForReply[r]
      /\ r \in TimeLimited /\ at[r] = "tell" => Told(r)'
      /\ replies[r] # <<>> => Told(r)'
  OBVIOUS
<1>2. TimeLimited # {} /\ Told(r)
  BY <1>1 DEF ToldInv
<1>3. ASSUME NEW t \in Readers, at[t] = "check", info[t] = r, reader[t].rfcMsg # NoReply
      PROVE  Told(r)'
  <2>1. CASE at'[t] = "check" /\ info'[t] = r /\ reader'[t].rfcMsg # NoReply
    BY <1>3, <2>1 DEF Told
  <2> QED BY <1>3, <2>1
<1> QED BY <1>1, <1>2, <1>3 DEF Told

\* Nothing is taken from anybody.
LEMMA PulsesFrame ==
  ASSUME PulsesInv, UNCHANGED messages, UNCHANGED agent,
         \A r \in Requests :
           /\ waitForReply'[r] = waitForReply[r]
           /\ acceptReplies'[r] => acceptReplies[r]
           /\ replies[r] # <<>> => replies'[r] # <<>>,
         \A r \in TimeLimited :
           /\ at[r] = "tell" => at'[r] = "tell" \/ replies'[r] # <<>>
           /\ at'[r] = "abandon" => at[r] = "abandon" \/ ~acceptReplies'[r],
         \A t \in Readers :
           \/ /\ at'[t] = at[t] \/ (at'[t] = "enter" /\ at[t] = "wait")
              /\ reader'[t] = reader[t] /\ info'[t] = info[t] /\ target'[t] = target[t]
           \/ /\ at'[t] = "idle" => reader'[t] = Nothing
              /\ at'[t] \in {"enter", "wait", "for"} => reader'[t].rfcMsg = NoReply
              /\ at'[t] = "aim" => agent'[info'[t]] = reader'[t].queue
              /\ at'[t] = "pulse" => target'[t] = reader'[t].queue
              /\ at[t] = "check" /\ reader[t].rfcMsg # NoReply =>
                   \A r \in Requests : info[t] = r /\ ~waitForReply[r] => replies'[r] # <<>>
  PROVE  PulsesInv'
<1>1. HandInv'
  <2> SUFFICES ASSUME NEW t \in Readers
               PROVE  /\ at'[t] = "idle" => reader'[t] = Nothing
                      /\ at'[t] \in {"enter", "wait", "for"} => reader'[t].rfcMsg = NoReply
                      /\ at'[t] = "aim" => agent'[info'[t]] = reader'[t].queue
                      /\ at'[t] = "pulse" => target'[t] = reader'[t].queue
    BY DEF HandInv
  <2>1. CASE /\ at'[t] = at[t] \/ (at'[t] = "enter" /\ at[t] = "wait")
             /\ reader'[t] = reader[t] /\ info'[t] = info[t] /\ target'[t] = target[t]
    BY <2>1 DEF PulsesInv, HandInv
  <2> QED BY <2>1
<1>2. FlagsInv'
  BY Kinds DEF PulsesInv, FlagsInv
<1>3. ToldInv'
  <2>1. ToldInv
    BY DEF PulsesInv
  <2>2. \A q \in Queues, r \in Requests :
          Listed(messages', q, r) /\ ~waitForReply'[r] =>
             /\ Listed(messages, q, r) /\ ~waitForReply[r]
             /\ r \in TimeLimited /\ at[r] = "tell" => Told(r)'
             /\ replies[r] # <<>> => Told(r)'
    BY DEF Told
  <2>3. \A t \in Readers, r \in Requests :
           at[t] = "check" /\ reader[t].rfcMsg # NoReply /\ info[t] = r =>
             \/ at'[t] = "check" /\ info'[t] = r /\ reader'[t].rfcMsg # NoReply
             \/ \A q \in Queues :
                  Listed(messages', q, r) /\ ~waitForReply'[r] => Told(r)'
    <3> SUFFICES ASSUME NEW t \in Readers, NEW r \in Requests, at[t] = "check",
                        reader[t].rfcMsg # NoReply, info[t] = r
                 PROVE  \/ at'[t] = "check" /\ info'[t] = r /\ reader'[t].rfcMsg # NoReply
                        \/ ~waitForReply'[r] => replies'[r] # <<>>
      BY DEF Told
    <3> QED OBVIOUS
  <2> QED BY <2>1, <2>2, <2>3, ToldFrame
<1> QED BY <1>1, <1>2, <1>3 DEF PulsesInv

\* A request that leaves its list is in no list.
LEMMA RemovalUnlists ==
  ASSUME BaseInv, HomeInv, NEW q \in Queues, NEW p \in 1..Len(messages[q]), Removal(q, p)
  PROVE  \A o \in Queues, s \in Requests :
           Listed(messages', o, s) <=> Listed(messages, o, s) /\ s # messages[q][p]
<1> DEFINE l == messages[q]
           n == messages'[q]
           r == l[p]
<1>1. /\ l \in Seq(Requests) /\ Len(n) = Len(l) - 1
      /\ \A i \in 1..(Len(l) - 1) : n[i] = IF i < p THEN l[i] ELSE l[i + 1]
      /\ \A o \in Queues : o # q => messages'[o] = messages[o]
  BY DEF BaseInv, TypeOK, Removal
<1>2. /\ agent[r] = q
      /\ \A o \in Queues : \A k \in 1..Len(messages[o]) : agent[messages[o][k]] = o
      /\ \A i, j \in 1..Len(l) : l[i] = l[j] => i = j
  BY DEF HomeInv
<1>3. p \in 1..Len(l) /\ l[p] = r
  OBVIOUS
<1>4. ASSUME NEW s \in Requests, Listed(messages', q, s)
      PROVE  Listed(messages, q, s) /\ s # r
  <2>1. PICK k \in 1..Len(n) : n[k] = s
    BY <1>4 DEF Listed
  <2> HIDE DEF l, n, r
  <2>2. PICK i \in 1..Len(l) : s = l[i] /\ i # p
    <3>1. k \in 1..(Len(l) - 1) /\ k \in 1..Len(l) /\ k + 1 \in 1..Len(l)
      BY <1>1, <2>1
    <3>2. CASE k < p
      BY <1>1, <1>3, <2>1, <3>1, <3>2
    <3>3. CASE ~(k < p)
      <4>1. s = l[k + 1] /\ k + 1 # p
        BY <1>1, <1>3, <2>1, <3>1, <3>3
      <4> QED BY <3>1, <4>1
    <3> QED BY <3>2, <3>3
  <2>3. s # r
    BY <1>2, <1>3, <2>2
  <2> QED BY <2>2, <2>3 DEF Listed, l
<1>5. ASSUME NEW s \in Requests, Listed(messages, q, s), s # r
      PROVE  Listed(messages', q, s)
  <2>1. PICK i \in 1..Len(l) : l[i] = s
    BY <1>5 DEF Listed
  <2>2. i # p
    BY <1>5, <2>1
  <2> HIDE DEF l, n, r
  <2>3. CASE i < p
    <3>1. i \in 1..(Len(l) - 1)
      BY <1>1, <1>3, <2>3
    <3>2. i \in 1..Len(n) /\ n[i] = s
      BY <1>1, <2>1, <2>3, <3>1
    <3> QED BY <3>2 DEF Listed, n
  <2>4. CASE i > p
    <3>1. i - 1 \in 1..(Len(l) - 1) /\ ~(i - 1 < p) /\ (i - 1) + 1 = i
      BY <1>1, <1>3, <2>4
    <3>2. i - 1 \in 1..Len(n) /\ n[i - 1] = s
      BY <1>1, <2>1, <3>1
    <3> QED BY <3>2 DEF Listed, n
  <2> QED BY <1>1, <1>3, <2>2, <2>3, <2>4
<1>6. ASSUME NEW o \in Queues, o # q, NEW s \in Requests
      PROVE  Listed(messages', o, s) <=> Listed(messages, o, s) /\ s # r
  BY <1>1, <1>2, <1>6 DEF Listed
<1> QED BY <1>4, <1>5, <1>6

LEMMA PulsesSend ==
  ASSUME BaseInv, PulsesInv, NEW r \in Requests, NEW q \in Queues, Send(r, q)
  PROVE  PulsesInv'
<1>1. /\ UNCHANGED <<at, reader, info, target, replies, acceptReplies, waitForReply>>
      /\ agent[r] = None /\ q # None
      /\ \A s \in Requests : s # r => agent'[s] = agent[s]
      /\ agent'[r] = q
      /\ messages' = [messages EXCEPT ![q] = Append(@, r)]
  BY AgentAssumption DEF Send, Sent, locals, flags, BaseInv, TypeOK, AgentAssumption
<1>2. waitForReply[r]
  BY <1>1 DEF PulsesInv, FlagsInv
<1>3. HandInv'
  <2> SUFFICES ASSUME NEW t \in Readers
               PROVE  at[t] = "aim" => agent'[info[t]] = agent[info[t]]
    BY <1>1 DEF PulsesInv, HandInv
  <2> QED BY <1>1, Kinds DEF BaseInv, TypeOK, PlacesInv, HandsOK
<1>4. FlagsInv'
  BY <1>1, Kinds DEF PulsesInv, FlagsInv
<1>5. ASSUME NEW o \in Queues, NEW s \in Requests, Listed(messages', o, s), s # r
      PROVE  Listed(messages, o, s)
  <2>1. messages[q] \in Seq(Requests) /\ messages \in [Queues -> Seq(Requests)]
    BY DEF BaseInv, TypeOK
  <2>2. PICK k \in 1..Len(messages'[o]) : messages'[o][k] = s
    BY <1>5 DEF Listed
  <2>3. CASE o = q
    <3>1. messages'[o] = Append(messages[o], r)
      BY <1>1, <2>1, <2>3
    <3>2. k \in 1..Len(messages[o]) /\ messages[o][k] = s
      BY <1>5, <2>1, <2>2, <2>3, <3>1
    <3> QED BY <3>2 DEF Listed
  <2>4. CASE o # q
    <3>1. messages'[o] = messages[o]
      BY <1>1, <2>1, <2>4
    <3> QED BY <2>2, <3>1 DEF Listed
  <2> QED BY <2>3, <2>4
<1>6. ToldInv'
  BY <1>1, <1>2, <1>5, ToldFrame, Zenon DEF PulsesInv, Told
<1> QED BY <1>3, <1>4, <1>6 DEF PulsesInv

LEMMA PulsesLook ==
  ASSUME BaseInv, PulsesInv, NEW t \in Readers, Look(t)
  PROVE  PulsesInv'
<1> DEFINE r == messages[reader[t].queue][InTurn(t) + 1]
<1>1. Moves(t, "check") /\ at[t] = "for"
  BY GotoMoves, Kinds DEF BaseInv, Look, Places
<1>2. r \in Requests
  BY LookFacts
<1>3. /\ UNCHANGED <<messages, agent, target, acceptReplies, waitForReply>>
      /\ info'[t] = r /\ \A b \in Threads : b # t => info'[b] = info[b]
      /\ \A b \in Readers : b # t => reader'[b] = reader[b]
      /\ \A s \in Requests : s # r => replies'[s] = replies[s]
  BY <1>2, Kinds DEF Look, flags, BaseInv, TypeOK
<1>4. replies[r] # <<>> => reader'[t].rfcMsg # NoReply
  <2>1. reader'[t].rfcMsg = IF replies[r] # <<>> THEN Head(replies[r]) ELSE NoReply
    BY DEF Look, BaseInv, TypeOK
  <2>2. replies[r] \in Seq(Replies)
    BY <1>2 DEF BaseInv, TypeOK
  <2>3. NoReply \notin Replies
    BY AgentAssumption DEF AgentAssumption, NoReply, Replies, TimedOut
  <2> HIDE DEF r
  <2>4. replies[r] # <<>> => Head(replies[r]) \in Replies
    BY <2>2
  <2> QED BY <2>1, <2>3, <2>4
<1> HIDE DEF r
<1>5. at'[t] = "check" /\ \A b \in Threads : b # t => at'[b] = at[b]
  BY <1>1 DEF Moves
<1>6. HandInv'
  <2> SUFFICES ASSUME NEW b \in Readers, b # t
               PROVE  /\ at'[b] = "idle" => reader'[b] = Nothing
                      /\ at'[b] \in {"enter", "wait", "for"} => reader'[b].rfcMsg = NoReply
                      /\ at'[b] = "aim" => agent'[info'[b]] = reader'[b].queue
                      /\ at'[b] = "pulse" => target'[b] = reader'[b].queue
    BY <1>5 DEF HandInv
  <2>1. at'[b] = at[b] /\ reader'[b] = reader[b] /\ info'[b] = info[b] /\ target'[b] = target[b]
    BY <1>3, <1>5, Kinds
  <2> QED BY <1>3, <2>1 DEF PulsesInv, HandInv
<1>7. FlagsInv'
  BY <1>3, <1>5, Kinds DEF PulsesInv, FlagsInv
<1>8. ToldInv'
  <2> SUFFICES ASSUME NEW q \in Queues, NEW s \in Requests, Listed(messages, q, s), ~waitForReply[s]
               PROVE  Told(s)'
    BY <1>3 DEF PulsesInv, ToldInv
  <2>1. Told(s)
    BY DEF PulsesInv, ToldInv
  <2>2. CASE s \in TimeLimited /\ at[s] = "tell"
    BY <1>5, <2>2, Kinds DEF Told
  <2>3. CASE replies[s] # <<>> /\ s = r
    BY <1>3, <1>4, <1>5, <2>3 DEF Told
  <2>4. CASE replies[s] # <<>> /\ s # r
    BY <1>3, <2>4 DEF Told
  <2>5. ASSUME NEW b \in Readers, at[b] = "check", info[b] = s, reader[b].rfcMsg # NoReply
        PROVE  Told(s)'
    <3>1. b # t
      BY <1>1, <2>5
    <3>2. at'[b] = "check" /\ info'[b] = s /\ reader'[b].rfcMsg # NoReply
      BY <1>3, <1>5, <2>5, <3>1, Kinds
    <3> QED BY <3>2 DEF Told
  <2> QED BY <2>1, <2>2, <2>3, <2>4, <2>5 DEF Told
<1> QED BY <1>6, <1>7, <1>8 DEF PulsesInv

\* A request is abandoned by the thread that takes it from its list.
LEMMA PulsesAbandon ==
  ASSUME BaseInv, HomeInv, PulsesInv, NEW q \in Queues, NEW r \in Requests, agent[r] = q,
         Abandon(r, [messages EXCEPT ![q] = RemoveFirst(@, r)]),
         UNCHANGED agent,
         \A x \in TimeLimited : at'[x] = at[x],
         \A t \in Readers :
           /\ reader'[t] = reader[t] /\ info'[t] = info[t]
           /\ at'[t] = at[t] \/ (info[t] = r /\ at'[t] # "check")
  PROVE  FlagsInv' /\ ToldInv'
<1>1. /\ ~waitForReply'[r]
      /\ \A s \in Requests \ {r} : /\ replies'[s] = replies[s]
                                  /\ acceptReplies'[s] = acceptReplies[s]
                                  /\ waitForReply'[s] = waitForReply[s]
      /\ acceptReplies'[r] \in {acceptReplies[r], FALSE}
  BY AbandonFacts DEF BaseInv
<1>2. \A o \in Queues, s \in Requests : Listed(messages', o, s) => Listed(messages, o, s) /\ s # r
  <2>1. CASE \E p \in 1..Len(messages[q]) : messages[q][p] = r /\ Removal(q, p)
    BY <2>1, RemovalUnlists
  <2>2. CASE UNCHANGED messages /\ \A k \in 1..Len(messages[q]) : messages[q][k] # r
    BY <2>2 DEF HomeInv, Listed
  <2> QED BY <2>1, <2>2, RemovalOrNone
<1>3. agent[r] # None
  BY AgentAssumption DEF AgentAssumption
<1>4. ~acceptReplies'[r]
  BY <1>1 DEF Abandon, flags, PulsesInv, FlagsInv, BaseInv, TypeOK
<1>5. FlagsInv'
  BY <1>1, <1>3, <1>4, Kinds DEF PulsesInv, FlagsInv
<1>6. ToldInv'
  <2> SUFFICES ASSUME NEW o \in Queues, NEW s \in Requests, Listed(messages', o, s), ~waitForReply'[s]
               PROVE  TimeLimited # {} /\ Told(s)'
    BY DEF ToldInv
  <2>1. s # r /\ Listed(messages, o, s) /\ ~waitForReply[s]
    BY <1>1, <1>2
  <2>2. TimeLimited # {} /\ Told(s)
    BY <2>1 DEF PulsesInv, ToldInv
  <2>3. ASSUME s \in TimeLimited, at[s] = "tell"
        PROVE  Told(s)'
    <3>1. at'[s] = "tell"
      BY <2>3
    <3> QED BY <2>3, <3>1 DEF Told
  <2>4. ASSUME replies[s] # <<>>
        PROVE  Told(s)'
    BY <1>1, <2>1, <2>4 DEF Told
  <2>5. ASSUME NEW b \in Readers, at[b] = "check", info[b] = s, reader[b].rfcMsg # NoReply
        PROVE  Told(s)'
    <3>1. at'[b] = "check" /\ info'[b] = s /\ reader'[b].rfcMsg # NoReply
      BY <2>1, <2>5
    <3> QED BY <3>1 DEF Told
  <2>6. Told(s)'
    BY <2>2, <2>3, <2>4, <2>5 DEF Told
  <2> QED BY <2>2, <2>6
<1> QED BY <1>5, <1>6

LEMMA PulsesDrop ==
  ASSUME BaseInv, HomeInv, PulsesInv, NEW t \in Readers, Drop(t)
  PROVE  PulsesInv'
<1> DEFINE q == reader[t].queue
           r == info[t]
<1>1. (Moves(t, "aim") \/ Moves(t, "looked")) /\ at[t] = "check"
  BY GotoMoves, Kinds DEF BaseInv, Drop, Places
<1>2. q \in Queues /\ r \in Requests /\ agent[r] = q
  BY DropFacts
<1>3. /\ UNCHANGED <<agent, info, target, reader>>
      /\ Abandon(r, [messages EXCEPT ![q] = RemoveFirst(@, r)])
  BY DEF Drop, locals
<1>4. /\ at'[t] \in {"aim", "looked"}
      /\ \A b \in Threads : b # t => at'[b] = at[b]
  BY <1>1 DEF Moves
<1>5. FlagsInv' /\ ToldInv'
  <2>1. /\ \A x \in TimeLimited : at'[x] = at[x]
        /\ \A b \in Readers : /\ reader'[b] = reader[b] /\ info'[b] = info[b]
                              /\ at'[b] = at[b] \/ (info[b] = r /\ at'[b] # "check")
    BY <1>3, <1>4, Kinds
  <2> HIDE DEF q, r
  <2> QED BY <1>2, <1>3, <2>1, PulsesAbandon
<1>6. HandInv'
  <2> SUFFICES ASSUME NEW b \in Readers
               PROVE  /\ at'[b] = "idle" => reader'[b] = Nothing
                      /\ at'[b] \in {"enter", "wait", "for"} => reader'[b].rfcMsg = NoReply
                      /\ at'[b] = "aim" => agent'[info'[b]] = reader'[b].queue
                      /\ at'[b] = "pulse" => target'[b] = reader'[b].queue
    BY DEF HandInv
  <2>1. CASE b = t
    BY <1>2, <1>3, <1>4, <2>1
  <2>2. CASE b # t
    <3>1. at'[b] = at[b] /\ reader'[b] = reader[b] /\ info'[b] = info[b] /\ target'[b] = target[b]
      BY <1>3, <1>4, <2>2, Kinds
    <3> QED BY <1>3, <3>1 DEF PulsesInv, HandInv
  <2> QED BY <2>1, <2>2
<1> QED BY <1>5, <1>6 DEF PulsesInv

LEMMA PulsesFind ==
  ASSUME BaseInv, PulsesInv, NEW r \in Requests, Find(r)
  PROVE  PulsesInv'
<1>1. Moves("user", "found")
  BY GotoMoves, Kinds DEF BaseInv, Find, Places
<1>2. \A b \in Readers : info'[b] = info[b] /\ at'[b] = at[b]
  BY <1>1, Kinds DEF Find, BaseInv, TypeOK, Moves
<1>3. \A s \in TimeLimited : at'[s] = at[s]
  BY <1>1, Kinds DEF Moves
<1>4. UNCHANGED <<messages, agent, waitForReply, acceptReplies, replies, reader, target>>
  BY DEF Find, lists, flags
<1> QED BY <1>2, <1>3, <1>4, PulsesFrame

\* What the user has found, and a thread of another kind cannot touch.
LEMMA FoundHome ==
  ASSUME BaseInv, HomeInv, AbandonOne
  PROVE  LET q == user.queue
             r == info["user"] IN
         /\ q \in Queues /\ r \in Requests /\ agent[r] = q /\ at["user"] = "found"
         /\ Abandon(r, [messages EXCEPT ![q] = RemoveFirst(@, r)])
         /\ Goto("user", IF waitForReply[r] THEN "aim" ELSE "walk")
         /\ Moves("user", IF waitForReply[r] THEN "aim" ELSE "walk")
         /\ UNCHANGED <<indexLastRead, owner, waiting, agent, reader, user, target>>
         /\ UNCHANGED info
<1>1. at["user"] = "found" /\ UserDrops(user.queue, info["user"])
  BY DEF AbandonOne
<1>2. agent[info["user"]] = user.queue
  BY <1>1 DEF HomeInv
<1>3. info["user"] \in Requests /\ user.queue \in Queues
  BY <1>1, <1>2, Kinds DEF BaseInv, TypeOK, PlacesInv, HandsOK
<1>4. UNCHANGED <<indexLastRead, owner, waiting, agent, reader, user, target>>
  BY DEF AbandonOne, monitors, locals
<1>5. UNCHANGED info
  BY <1>1, Kinds DEF UserDrops, BaseInv, TypeOK
<1>6. Moves("user", IF waitForReply[info["user"]] THEN "aim" ELSE "walk")
  BY <1>1, GotoMoves, Kinds DEF BaseInv, UserDrops, Places
<1> QED BY <1>1, <1>2, <1>3, <1>4, <1>5, <1>6 DEF UserDrops

LEMMA PulsesAbandonOne ==
  ASSUME BaseInv, HomeInv, PulsesInv, AbandonOne
  PROVE  PulsesInv'
<1> DEFINE q == user.queue
           r == info["user"]
<1>1. /\ q \in Queues /\ r \in Requests /\ agent[r] = q
      /\ Abandon(r, [messages EXCEPT ![q] = RemoveFirst(@, r)])
      /\ UNCHANGED <<agent, reader, target, info>>
  BY FoundHome
<1>2. \A b \in Threads : b # "user" => at'[b] = at[b]
  BY FoundHome DEF Moves
<1> HIDE DEF q, r
<1>3. FlagsInv' /\ ToldInv'
  <2>1. /\ \A x \in TimeLimited : at'[x] = at[x]
        /\ \A b \in Readers : reader'[b] = reader[b] /\ info'[b] = info[b] /\ at'[b] = at[b]
    BY <1>1, <1>2, Kinds
  <2> QED BY <1>1, <2>1, PulsesAbandon
<1>4. HandInv'
  BY <1>1, <1>2, Kinds DEF PulsesInv, HandInv
<1> QED BY <1>3, <1>4 DEF PulsesInv

\* A reader goes on with its search, or out of the monitor with the reply.
LEMMA GoOnFacts ==
  ASSUME BaseInv, NEW t \in Readers, Keep(t) \/ Dropped(t)
  PROVE  /\ UNCHANGED <<messages, indexLastRead, waiting, agent, replies, acceptReplies,
                        waitForReply, target, user, overlooked>>
         /\ at[t] \in {"check", "looked"}
         /\ \A b \in Threads : b # t => at'[b] = at[b] /\ info'[b] = info[b]
         /\ \A b \in Readers : b # t => reader'[b] = reader[b]
         /\ \/ /\ reader[t].rfcMsg = NoReply /\ at'[t] = "for"
               /\ reader'[t].queue = reader[t].queue /\ reader'[t].next = reader[t].next
               /\ reader'[t].rfcMsg = NoReply
               /\ reader'[t].i = IF at[t] = "check" THEN reader[t].i + 1 ELSE reader[t].i
            \/ reader[t].rfcMsg # NoReply /\ at'[t] = "idle" /\ reader'[t] = Nothing
<1>1. (Moves(t, "for") \/ Moves(t, "idle")) /\ at[t] \in {"check", "looked"}
  BY GotoMoves, Kinds DEF BaseInv, Keep, Dropped, GoOn, Places
<1>2. UNCHANGED <<messages, indexLastRead, waiting, agent, replies, acceptReplies,
                  waitForReply, target, user, overlooked>>
  BY DEF Keep, Dropped, lists, flags, history
<1>3. reader \in [Readers -> ReaderLocals] /\ info \in [Threads -> Requests \cup {None}]
  BY DEF BaseInv, TypeOK, ReaderLocals
<1>4. \A b \in Threads : b # t => info'[b] = info[b]
  BY <1>3 DEF Keep, Dropped, GoOn
<1>5. CASE reader[t].rfcMsg = NoReply
  <2>1. /\ reader' = [reader EXCEPT ![t].i = IF at[t] = "check" THEN @ + 1 ELSE @]
        /\ Goto(t, "for")
    BY <1>5 DEF Keep, Dropped, GoOn
  <2>2. Moves(t, "for")
    BY <2>1, GotoMoves, Kinds DEF BaseInv, Places
  <2>3. /\ \A b \in Readers : b # t => reader'[b] = reader[b]
        /\ reader'[t].queue = reader[t].queue /\ reader'[t].next = reader[t].next
        /\ reader'[t].rfcMsg = reader[t].rfcMsg
        /\ reader'[t].i = IF at[t] = "check" THEN reader[t].i + 1 ELSE reader[t].i
    BY <1>3, <2>1 DEF ReaderLocals
  <2> QED BY <1>1, <1>2, <1>4, <1>5, <2>2, <2>3 DEF Moves
<1>6. CASE reader[t].rfcMsg # NoReply
  <2>1. reader' = [reader EXCEPT ![t] = Nothing] /\ Goto(t, "idle")
    BY <1>6 DEF Keep, Dropped, GoOn
  <2>2. Moves(t, "idle")
    BY <2>1, GotoMoves, Kinds DEF BaseInv, Places
  <2>3. reader'[t] = Nothing /\ \A b \in Readers : b # t => reader'[b] = reader[b]
    BY <1>3, <2>1
  <2> QED BY <1>1, <1>2, <1>4, <1>6, <2>2, <2>3 DEF Moves
<1> QED BY <1>5, <1>6

LEMMA WaitFacts ==
  ASSUME BaseInv, NEW t \in Readers, Wait(t)
  PROVE  LET q == reader[t].queue IN
         /\ UNCHANGED <<messages, agent, replies, acceptReplies, waitForReply, target, info,
                        user, overlooked>>
         /\ at[t] = "for" /\ q \in Queues /\ reader[t].i >= Len(messages[q])
         /\ \A b \in Threads : b # t => at'[b] = at[b]
         /\ \A b \in Readers : b # t => reader'[b] = reader[b]
         /\ \/ messages[q] = <<>> /\ at'[t] = "idle" /\ reader'[t] = Nothing /\ UNCHANGED waiting
            \/ /\ at'[t] = "wait" /\ reader'[t] = [Nothing EXCEPT !.queue = q]
               /\ Len(waiting'[q]) = Len(waiting[q]) + 1
               /\ \A o \in Queues : o # q => waiting'[o] = waiting[o]
<1> DEFINE q == reader[t].queue
<1>1. (Moves(t, "wait") \/ Moves(t, "idle")) /\ at[t] = "for"
  BY GotoMoves, Kinds DEF BaseInv, Wait, Places
<1>2. q \in Queues
  BY <1>1, Kinds DEF BaseInv, TypeOK, PlacesInv, ReadersOK
<1>3. UNCHANGED <<messages, agent, replies, acceptReplies, waitForReply, target, info,
                  user, overlooked>>
  BY DEF Wait, lists, flags, history
<1>4. reader \in [Readers -> ReaderLocals] /\ waiting \in [Queues -> Seq(Readers)]
  BY DEF BaseInv, TypeOK, ReaderLocals
<1>5. \A b \in Readers : b # t => reader'[b] = reader[b]
  BY <1>4 DEF Wait
<1>6. CASE messages[q] = <<>>
  <2>1. Goto(t, "idle") /\ reader' = [reader EXCEPT ![t] = Nothing] /\ UNCHANGED waiting
    BY <1>6 DEF Wait
  <2>2. Moves(t, "idle")
    BY <2>1, GotoMoves, Kinds DEF BaseInv, Places
  <2> QED BY <1>1, <1>2, <1>3, <1>4, <1>5, <1>6, <2>1, <2>2 DEF Moves, Wait
<1>7. CASE messages[q] # <<>>
  <2>1. /\ Goto(t, "wait") /\ reader' = [reader EXCEPT ![t] = [Nothing EXCEPT !.queue = q]]
        /\ waiting' = [waiting EXCEPT ![q] = Append(@, t)]
    BY <1>7 DEF Wait
  <2>2. Moves(t, "wait")
    BY <2>1, GotoMoves, Kinds DEF BaseInv, Places
  <2>3. reader'[t] = [Nothing EXCEPT !.queue = q]
    BY <1>4, <2>1
  <2> HIDE DEF q
  <2>4. waiting'[q] = Append(waiting[q], t) /\ \A o \in Queues : o # q => waiting'[o] = waiting[o]
    BY <1>2, <1>4, <2>1
  <2>5. Len(waiting'[q]) = Len(waiting[q]) + 1
    BY <1>2, <1>4, <2>4
  <2> QED BY <1>1, <1>2, <1>3, <1>5, <2>2, <2>3, <2>4, <2>5 DEF Moves, Wait, q
<1> QED BY <1>6, <1>7

LEMMA BehindTheFirst ==
  ASSUME NEW S, NEW w \in Seq(S), Len(w) > 0, IsInjective(w)
  PROVE  LET v == SubSeq(w, 2, Len(w)) IN
         w[1] \in ToSet(w) /\ w[1] \notin ToSet(v) /\ Len(v) = Len(w) - 1
<1> DEFINE v == SubSeq(w, 2, Len(w))
<1>1. Len(w) \in Nat /\ DOMAIN w = 1..Len(w) /\ 1 \in 1..Len(w)
  OBVIOUS
<1>2. /\ Len(v) = Len(w) - 1 /\ DOMAIN v = 1..(Len(w) - 1)
      /\ \A i \in 1..(Len(w) - 1) : v[i] = w[i + 1]
  <2>1. 1 \in Nat /\ 1 <= Len(w) /\ Len(w) = 1 + (Len(w) - 1) /\ Len(w) - 1 \in Nat
    BY <1>1
  <2>2. v = SubSeq(w, 1 + 1, Len(w))
    OBVIOUS
  <2>3. Len(v) = Len(w) - 1 /\ v \in Seq(S)
    BY <2>1, <2>2
  <2>4. ASSUME NEW i \in 1..(Len(w) - 1) PROVE v[i] = w[i + 1]
    BY <2>1, <2>2, <2>4
  <2>5. DOMAIN v = 1..(Len(w) - 1)
    BY <2>3
  <2> QED BY <2>3, <2>4, <2>5
<1> HIDE DEF v
<1>3. w[1] \in ToSet(w)
  BY <1>1 DEF ToSet
<1>4. ASSUME NEW i \in 1..(Len(w) - 1), v[i] = w[1] PROVE FALSE
  <2>1. i + 1 \in 1..Len(w) /\ w[i + 1] = w[1]
    BY <1>1, <1>2, <1>4
  <2>2. i + 1 = 1
    BY <1>1, <2>1 DEF IsInjective
  <2> QED BY <2>2
<1>5. w[1] \notin ToSet(v)
  BY <1>2, <1>4 DEF ToSet
<1> QED BY <1>2, <1>3, <1>5 DEF v

\* A pulse: the first in the line, if there is one, competes for the monitor.
LEMMA PulseFacts ==
  ASSUME BaseInv, NEW t \in Threads, Pulse(t)
  PROVE  LET q == target[t] IN
         /\ UNCHANGED <<messages, agent, replies, acceptReplies, waitForReply, info, reader,
                        user, overlooked>>
         /\ at[t] = "pulse" /\ at'[t] = AfterPulse(t)
         /\ q \in Queues /\ owner[q] \in {None, t}
         /\ \A b \in Threads : b # t => target'[b] = target[b]
         /\ \A b \in Threads : b # t =>
              at'[b] = at[b] \/ (b \in Readers /\ at[b] = "wait" /\ at'[b] = "enter")
         /\ \A o \in Queues : o # q => waiting'[o] = waiting[o]
         /\ \/ waiting[q] = <<>> /\ waiting'[q] = <<>>
            \/ /\ Len(waiting'[q]) = Len(waiting[q]) - 1
               /\ \E b \in Readers : /\ b # t /\ reader[b].queue = q
                                     /\ at[b] = "wait" /\ at'[b] = "enter"
<1> DEFINE q == target[t]
           w == waiting[q]
<1>1. /\ at[t] = "pulse" /\ AfterPulse(t) \in Places
      /\ UNCHANGED <<messages, agent, replies, acceptReplies, waitForReply, info, reader,
                     user, overlooked>>
      /\ Wake(t, AfterPulse(t), q, 1)
  BY Kinds DEF Pulse, AfterPulse, Places, lists, flags, locals, history
<1>2. q \in Queues
  BY <1>1 DEF BaseInv, TypeOK, PlacesInv, HandsOK
<1>3. \A b \in Threads : b # t => target'[b] = target[b]
  BY DEF Pulse, BaseInv, TypeOK
<1>4. owner[q] \in {None, t}
  BY <1>1 DEF Wake
<1>5. w \in Seq(Readers) /\ Len(w) \in Nat
  BY <1>2 DEF BaseInv, TypeOK
<1> HIDE DEF q
<1>6. /\ at'[t] = AfterPulse(t)
      /\ \A o \in Queues : o # q => waiting'[o] = waiting[o]
      /\ \A b \in Threads : b # t =>
           at'[b] = IF b \in ToSet(w) \ ToSet(waiting'[q]) THEN "enter" ELSE at[b]
  BY <1>1, <1>2, WakeFacts DEF BaseInv
<1>7. \A b \in ToSet(w) : b \in Readers /\ at[b] = "wait" /\ reader[b].queue = q
  <2>1. \A b \in ToSet(w) : b \in Readers
    BY <1>5 DEF ToSet
  <2> QED BY <1>2, <2>1 DEF BaseInv, MonitorsAgree
<1>8. waiting'[q] = SubSeq(w, Min({1, Len(w)}) + 1, Len(w))
  BY <1>1, <1>2 DEF Wake, BaseInv, TypeOK
<1>9. CASE Len(w) = 0
  <2>1. Min({1, Len(w)}) = 0
    BY <1>9, MinOfTwo
  <2>2. w = <<>>
    BY <1>5, <1>9
  <2>3. waiting'[q] = <<>>
    BY <1>5, <1>8, <1>9, <2>1
  <2>4. ToSet(w) = {}
    BY <2>2 DEF ToSet
  <2> QED BY <1>1, <1>2, <1>3, <1>4, <1>6, <2>2, <2>3, <2>4 DEF q
<1>10. CASE Len(w) > 0
  <2>1. Min({1, Len(w)}) = 1
    BY <1>5, <1>10, MinOfTwo
  <2> HIDE DEF w
  <2>2. waiting'[q] = SubSeq(w, 2, Len(w))
    <3>1. 1 + 1 = 2
      OBVIOUS
    <3> QED BY <1>8, <2>1, <3>1
  <2> DEFINE v == SubSeq(w, 2, Len(w))
  <2>3. IsInjective(w)
    BY <1>2 DEF BaseInv, MonitorsAgree, w
  <2>4. w[1] \in ToSet(w) /\ w[1] \notin ToSet(v) /\ Len(v) = Len(w) - 1
    BY <1>5, <1>10, <2>3, BehindTheFirst
  <2> HIDE DEF v
  <2>6. w[1] \in Readers /\ w[1] \in Threads /\ at[w[1]] = "wait" /\ reader[w[1]].queue = q
    BY <1>7, <2>4, Kinds
  <2>7. w[1] # t
    BY <1>1, <2>6
  <2>8. at'[w[1]] = "enter"
    BY <1>6, <2>2, <2>4, <2>6, <2>7 DEF v
  <2>9. Len(waiting'[q]) = Len(w) - 1
    BY <2>2, <2>4 DEF v
  <2> QED BY <1>1, <1>2, <1>3, <1>4, <1>6, <1>7, <2>6, <2>7, <2>8, <2>9 DEF q, w
<1> QED BY <1>5, <1>9, <1>10

LEMMA PulsesAbandonInforming ==
  ASSUME BaseInv, PulsesInv, NEW r \in TimeLimited, AbandonInforming(r)
  PROVE  PulsesInv'
<1>1. /\ r \in Requests /\ at[r] = "abandon" /\ waitForReply \in [Requests -> BOOLEAN]
      /\ waitForReply' = [waitForReply EXCEPT ![r] = FALSE]
  BY Kinds DEF AbandonInforming, BaseInv, TypeOK
<1>2. /\ UNCHANGED <<messages, agent, replies, acceptReplies, info, target, reader>>
      /\ ~waitForReply'[r]
      /\ \A s \in Requests : s # r => waitForReply'[s] = waitForReply[s]
  BY <1>1 DEF AbandonInforming, lists, locals
<1>3. Moves(r, IF waitForReply[r] THEN "tell" ELSE "end")
  BY GotoMoves, Kinds DEF BaseInv, AbandonInforming, Places
<1>4. /\ at'[r] = IF waitForReply[r] THEN "tell" ELSE "end"
      /\ \A b \in Threads : b # r => at'[b] = at[b]
  BY <1>3 DEF Moves
<1>5. agent[r] # None /\ ~acceptReplies[r]
  BY <1>1 DEF BaseInv, PlacesInv, TimersOK, PulsesInv, FlagsInv
<1>6. HandInv'
  <2> SUFFICES ASSUME NEW b \in Readers
               PROVE  at'[b] = at[b]
    BY <1>2 DEF PulsesInv, HandInv
  <2> QED BY <1>4, Kinds
<1>7. FlagsInv'
  BY <1>2, <1>4, <1>5, Kinds DEF PulsesInv, FlagsInv
<1>8. ToldInv'
  <2>0. TimeLimited # {}
    OBVIOUS
  <2>1. ASSUME NEW s \in Requests, ~waitForReply'[s], s = r => ~waitForReply[r]
        PROVE  ~waitForReply[s]
    BY <1>2, <2>1
  <2>2. ASSUME waitForReply[r]
        PROVE  Told(r)'
    BY <1>4, <2>2 DEF Told
  <2>3. \A b \in Readers : at'[b] = at[b]
    BY <1>4, Kinds
  <2>4. \A s \in TimeLimited : at[s] = "tell" => at'[s] = "tell"
    BY <1>1, <1>4, Kinds
  <2>5. ASSUME NEW s \in Requests, Told(s)
        PROVE  Told(s)'
    BY <1>2, <2>3, <2>4, <2>5 DEF Told
  <2> SUFFICES ASSUME NEW q \in Queues, NEW s \in Requests, Listed(messages, q, s), ~waitForReply'[s]
               PROVE  Told(s)'
    BY <1>2, <2>0 DEF ToldInv
  <2> QED BY <2>1, <2>2, <2>5 DEF PulsesInv, ToldInv
<1> QED BY <1>6, <1>7, <1>8 DEF PulsesInv

LEMMA PulsesStep ==
  ASSUME UserOps \subseteq {"abandon"}
  PROVE  BaseInv /\ HomeInv /\ PulsesInv /\ [Next]_vars => PulsesInv'
<1> SUFFICES ASSUME BaseInv, HomeInv, PulsesInv, [Next]_vars PROVE PulsesInv'
  OBVIOUS
<1>1. CASE UNCHANGED vars
  BY <1>1, PulsesFrame, Kinds DEF vars, lists, flags, locals, PulsesInv, FlagsInv
<1>2. CASE \E r \in Requests, q \in Queues : Send(r, q)
  BY <1>2, PulsesSend
<1>3. CASE \E t \in Readers, q \in Queues : Get(t, q)
  <2> SUFFICES ASSUME NEW t \in Readers, NEW q \in Queues, Get(t, q)
               PROVE  PulsesInv'
    BY <1>3
  <2>1. Moves(t, "enter") /\ at[t] = "idle"
    BY GotoMoves, Kinds DEF BaseInv, Get, Places
  <2>2. reader[t] = Nothing
    BY <2>1 DEF PulsesInv, HandInv
  <2>3. /\ reader'[t].rfcMsg = NoReply
        /\ \A b \in Readers : b # t => reader'[b] = reader[b]
    BY <2>2 DEF Get, BaseInv, TypeOK, Nothing
  <2>4. UNCHANGED <<messages, agent, waitForReply, acceptReplies, replies, info, target>>
    BY DEF Get, lists, flags
  <2>5. at'[t] = "enter" /\ \A b \in Threads : b # t => at'[b] = at[b]
    BY <2>1 DEF Moves
  <2>6. \A r \in TimeLimited : at'[r] = at[r]
    BY <2>5, Kinds
  <2> QED BY <2>1, <2>3, <2>4, <2>5, <2>6, PulsesFrame, Kinds
<1>4. CASE \E r \in Requests : Receive(r) \/ Find(r)
  <2> SUFFICES ASSUME NEW r \in Requests, Receive(r)
               PROVE  PulsesInv'
    BY <1>4, PulsesFind
  <2>1. Moves("putter", "add")
    BY GotoMoves, Kinds DEF BaseInv, Receive, Places
  <2>2. \A b \in Readers : info'[b] = info[b] /\ at'[b] = at[b]
    BY <2>1, Kinds DEF Receive, BaseInv, TypeOK, Moves
  <2>3. \A s \in TimeLimited : at'[s] = at[s]
    BY <2>1, Kinds DEF Moves
  <2>4. UNCHANGED <<messages, agent, waitForReply, acceptReplies, replies, reader, target>>
    BY DEF Receive, lists, flags, locals
  <2> QED BY <2>2, <2>3, <2>4, PulsesFrame
<1>5. CASE \E r \in TimeLimited : Fire(r)
  <2> SUFFICES ASSUME NEW r \in TimeLimited, Fire(r)
               PROVE  PulsesInv'
    BY <1>5
  <2>1. Moves(r, "abandon") /\ at[r] = "idle"
    BY GotoMoves, Kinds DEF BaseInv, Fire, Places
  <2>2. at'[r] = "abandon" /\ \A b \in Threads : b # r => at'[b] = at[b]
    BY <2>1 DEF Moves
  <2>3. \A b \in Readers : at'[b] = at[b]
    BY <2>2, Kinds
  <2>4. \A s \in TimeLimited : s # r => at'[s] = at[s]
    BY <2>2, Kinds
  <2>5. ~acceptReplies'[r] /\ \A s \in Requests : acceptReplies'[s] => acceptReplies[s]
    <3>1. acceptReplies \in [Requests -> BOOLEAN] /\ r \in Requests
          /\ acceptReplies' = [acceptReplies EXCEPT ![r] = FALSE]
      BY Kinds DEF Fire, BaseInv, TypeOK
    <3> QED BY <3>1
  <2>6. UNCHANGED <<messages, agent, waitForReply, replies, reader, info, target>>
    BY DEF Fire, lists, locals
  <2> QED BY <2>1, <2>2, <2>3, <2>4, <2>5, <2>6, PulsesFrame
<1>6. CASE \E q \in Queues : BeginAbandonAll(q) \/ \E from \in Queues : BeginMerge(from, q)
  BY <1>6 DEF BeginAbandonAll, BeginMerge, Begin
<1>7. ASSUME NEW t \in Readers, Reading(t) PROVE PulsesInv'
  <2>1. CASE Enter(t)
    <3>1. Moves(t, "for") /\ at[t] = "enter"
      BY <2>1, GotoMoves, Kinds DEF BaseInv, Enter, Places
    <3>2. at'[t] = "for" /\ \A b \in Threads : b # t => at'[b] = at[b]
      BY <3>1 DEF Moves
    <3>3. reader[t].rfcMsg = NoReply
      BY <3>1 DEF PulsesInv, HandInv
    <3>4. reader'[t].rfcMsg = NoReply /\ \A b \in Readers : b # t => reader'[b] = reader[b]
      BY <2>1, <3>3 DEF Enter, BaseInv, TypeOK
    <3>5. UNCHANGED <<messages, agent, waitForReply, acceptReplies, replies, info, target>>
      BY <2>1 DEF Enter, lists, flags
    <3>6. \A r \in TimeLimited : at'[r] = at[r]
      BY <3>2, Kinds
    <3> QED BY <3>1, <3>2, <3>4, <3>5, <3>6, PulsesFrame, Kinds
  <2>2. CASE Look(t)
    BY <2>2, PulsesLook
  <2>3. CASE Keep(t) \/ Dropped(t)
    <3>1. ASSUME at[t] = "check", NEW r \in Requests, info[t] = r, ~waitForReply[r]
          PROVE  replies[r] # <<>>
      <4>1. ~Finished(r)
        BY <2>3, <3>1 DEF Keep, Dropped
      <4>2. ~acceptReplies[r]
        BY <3>1 DEF PulsesInv, FlagsInv
      <4> QED BY <4>1, <4>2 DEF Finished
    <3>2. \A r \in TimeLimited : at'[r] = at[r]
      BY <2>3, GoOnFacts, Kinds
    <3>3. UNCHANGED <<messages, agent, waitForReply, acceptReplies, replies, target>>
      BY <2>3, GoOnFacts
    <3>4. \A b \in Readers : b # t =>
            at'[b] = at[b] /\ reader'[b] = reader[b] /\ info'[b] = info[b]
      BY <2>3, GoOnFacts, Kinds
    <3>5. \/ at'[t] = "for" /\ reader'[t].rfcMsg = NoReply
          \/ at'[t] = "idle" /\ reader'[t] = Nothing
      BY <2>3, GoOnFacts
    <3> QED BY <3>1, <3>2, <3>3, <3>4, <3>5, PulsesFrame
  <2>4. CASE Drop(t)
    BY <2>4, PulsesDrop
  <2>5. CASE Wait(t)
    <3>1. \A r \in TimeLimited : at'[r] = at[r]
      BY <2>5, WaitFacts, Kinds
    <3>2. UNCHANGED <<messages, agent, waitForReply, acceptReplies, replies, info, target>>
      BY <2>5, WaitFacts
    <3>3. \A b \in Readers : b # t => at'[b] = at[b] /\ reader'[b] = reader[b]
      BY <2>5, WaitFacts, Kinds
    <3>4. /\ at[t] = "for"
          /\ \/ at'[t] = "wait" /\ reader'[t].rfcMsg = NoReply
             \/ at'[t] = "idle" /\ reader'[t] = Nothing
      BY <2>5, WaitFacts DEF Nothing
    <3> QED BY <3>1, <3>2, <3>3, <3>4, PulsesFrame
  <2> QED BY <1>7, <2>1, <2>2, <2>3, <2>4, <2>5 DEF Reading
<1>8. CASE Putting
  <2>1. (Moves("putter", "settle") \/ Moves("putter", "aim"))
    BY <1>8, GotoMoves, Kinds DEF BaseInv, Putting, AddReply, Settle, Places
  <2>2. /\ \A b \in Readers : at'[b] = at[b]
        /\ \A r \in TimeLimited : at'[r] = at[r]
    BY <2>1, Kinds DEF Moves
  <2>3. UNCHANGED <<messages, agent, waitForReply, reader, info, target>>
    BY <1>8 DEF Putting, AddReply, Settle, lists, flags, locals
  <2>4. CASE AddReply
    <3>1. \A r \in Requests : replies[r] # <<>> => replies'[r] # <<>>
      <4>1. \A e : \A r \in Requests : Append(replies[r], e) # <<>>
        BY AppendNotEmpty DEF BaseInv, TypeOK
      <4> QED BY <2>4, <4>1 DEF AddReply, BaseInv, TypeOK
    <3>2. UNCHANGED acceptReplies
      BY <2>4 DEF AddReply, flags
    <3> QED BY <2>2, <2>3, <3>1, <3>2, PulsesFrame
  <2>5. CASE Settle
    <3>1. UNCHANGED replies /\ \A r \in Requests : acceptReplies'[r] => acceptReplies[r]
      <4>1. /\ acceptReplies \in [Requests -> BOOLEAN] /\ UNCHANGED replies
            /\ acceptReplies' = [acceptReplies EXCEPT ![info["putter"]] = FALSE]
        BY <2>5 DEF Settle, BaseInv, TypeOK
      <4> QED BY <4>1
    <3> QED BY <2>2, <2>3, <3>1, PulsesFrame
  <2> QED BY <1>8, <2>4, <2>5 DEF Putting
<1>9. ASSUME NEW r \in TimeLimited, Informing(r) PROVE PulsesInv'
  <2>1. CASE Tell(r)
    <3>1. Moves(r, "aim")
      BY <2>1, GotoMoves, Kinds DEF BaseInv, Tell, Places
    <3>2. /\ \A b \in Readers : at'[b] = at[b]
          /\ at'[r] = "aim" /\ \A s \in TimeLimited : s # r => at'[s] = at[s]
      BY <3>1, Kinds DEF Moves
    <3>3. UNCHANGED <<messages, agent, waitForReply, acceptReplies, reader, info, target>>
      BY <2>1 DEF Tell, lists, flags, locals
    <3>4. /\ \A s \in Requests : replies[s] # <<>> => replies'[s] # <<>>
          /\ replies'[r] # <<>>
      <4>1. \A e : \A s \in Requests : Append(replies[s], e) # <<>>
        BY AppendNotEmpty DEF BaseInv, TypeOK
      <4> QED BY <2>1, <4>1, Kinds DEF Tell, BaseInv, TypeOK
    <3> QED BY <3>2, <3>3, <3>4, PulsesFrame
  <2> QED BY <1>9, <2>1, PulsesAbandonInforming DEF Informing
<1>10. CASE Using
  <2> SUFFICES ASSUME Walk
               PROVE  PulsesInv'
    BY <1>10, PulsesAbandonOne DEF Using, MergeAdd, MergeName, MergePulse, HomeInv
  <2>2. user.i \in Nat /\ Len(user.list) = 0
    BY DEF HomeInv, BaseInv, TypeOK
  <2>3. /\ Goto("user", "end")
        /\ UNCHANGED <<messages, agent, waitForReply, acceptReplies, replies, reader, info, target>>
    BY <2>2 DEF Walk, flags
  <2>4. Moves("user", "end")
    BY <2>3, GotoMoves, Kinds DEF BaseInv, Places
  <2>5. /\ \A b \in Readers : at'[b] = at[b]
        /\ \A r \in TimeLimited : at'[r] = at[r]
    BY <2>4, Kinds DEF Moves
  <2> QED BY <2>3, <2>5, PulsesFrame
<1>11. ASSUME NEW t \in Threads, Aim(t) \/ Pulse(t) PROVE PulsesInv'
  <2>1. CASE Aim(t)
    <3>1. Moves(t, "pulse") /\ at[t] = "aim"
      BY <2>1, GotoMoves, Kinds DEF BaseInv, Aim, Places
    <3>2. at'[t] = "pulse" /\ \A b \in Threads : b # t => at'[b] = at[b]
      BY <3>1 DEF Moves
    <3>3. UNCHANGED <<messages, agent, waitForReply, acceptReplies, replies, reader, info>>
      BY <2>1 DEF Aim, lists, flags, locals
    <3>4. target'[t] = agent[info[t]] /\ \A b \in Threads : b # t => target'[b] = target[b]
      BY <2>1 DEF Aim, BaseInv, TypeOK
    <3>5. t \in Readers => agent[info[t]] = reader[t].queue
      BY <3>1 DEF PulsesInv, HandInv
    <3>6. \A r \in TimeLimited : /\ at[r] = "tell" => at'[r] = "tell"
                                 /\ at'[r] = "abandon" => at[r] = "abandon"
      BY <3>1, <3>2, Kinds
    <3>7. \A b \in Readers : b # t => at'[b] = at[b] /\ target'[b] = target[b]
      BY <3>2, <3>4, Kinds
    <3> QED BY <3>1, <3>2, <3>3, <3>4, <3>5, <3>6, <3>7, PulsesFrame
  <2>2. CASE Pulse(t)
    <3>1. /\ UNCHANGED <<messages, agent, waitForReply, acceptReplies, replies, reader, info>>
          /\ at[t] = "pulse" /\ at'[t] = AfterPulse(t)
      BY <2>2, PulseFacts
    <3>2. t \in Readers => at'[t] = "looked"
      BY <3>1, Kinds DEF AfterPulse
    <3>3. at'[t] # "abandon"
      BY <3>1 DEF AfterPulse
    <3>4. \A r \in TimeLimited : /\ at[r] = "tell" => at'[r] = "tell"
                                 /\ at'[r] = "abandon" => at[r] = "abandon"
      <4>1. \A r \in TimeLimited : r # t => at'[r] = at[r]
        BY <2>2, PulseFacts, Kinds
      <4> QED BY <3>1, <3>3, <4>1
    <3>5. \A b \in Readers : b # t =>
            /\ at'[b] = at[b] \/ (at[b] = "wait" /\ at'[b] = "enter")
            /\ target'[b] = target[b]
      BY <2>2, PulseFacts, Kinds
    <3> QED BY <3>1, <3>2, <3>4, <3>5, PulsesFrame
  <2> QED BY <1>11, <2>1, <2>2
<1>12. CASE \E t \in Threads : Step(t)
  BY <1>7, <1>8, <1>9, <1>10, <1>11, <1>12 DEF Step
<1> QED
  BY <1>1, <1>2, <1>3, <1>4, <1>5, <1>6, <1>12 DEF Next

LEMMA InitPulses == Init => PulsesInv
<1> SUFFICES ASSUME Init PROVE PulsesInv
  OBVIOUS
<1>1. HandInv
  BY Kinds DEF Init, HandInv, Nothing
<1>2. FlagsInv
  BY Kinds DEF Init, FlagsInv
<1>3. ToldInv
  BY DEF Init, ToldInv
<1> QED BY <1>1, <1>2, <1>3 DEF PulsesInv

-----------------------------------------------------------------------------
(* The replies in a queue, counted against those that look and will look.   *)

\* The replies in a queue that nobody has taken: the k-th of request r is <<r, k>>.
UnreadIn(l, f, q) ==
  UNION {{r} \X (1..Len(f[r])) : r \in {s \in Requests : Listed(l, q, s)}}
Unread(q) == UnreadIn(messages, replies, q)

\* Those of the requests that have not missed their turn.
Wanted(S) == {p \in S : p[1] \notin overlooked}

\* The readers that look or will look, and the others that are about to pulse.
Awake(q) ==
  {t \in Readers : reader[t].queue = q /\ at[t] # "wait" /\ reader[t].rfcMsg = NoReply}
Coming(q) ==
  {t \in Threads \ Readers :
     \/ at[t] \in {"aim", "settle"} /\ agent[info[t]] = q
     \/ at[t] = "pulse" /\ target[t] = q
     \/ at[t] = "tell" /\ agent[info[t]] = q /\ ~Listed(messages, q, info[t])}

\* If some wait, there is a reader that looks, or a pulse to come, for each reply; or a
\* pulse for each that waits; or for each but one, and no reply is wanted.
Enough(q) ==
  waiting[q] # <<>> =>
    \/ Cardinality(Unread(q)) <= Cardinality(Awake(q)) + Cardinality(Coming(q))
    \/ Len(waiting[q]) <= Cardinality(Coming(q))
    \/ Wanted(Unread(q)) = {} /\ Len(waiting[q]) <= Cardinality(Coming(q)) + 1

\* Place j of a list of a length is looked at in the next turns, n being looked at next.
Within(j, n, length, turns) ==
  IF j > n THEN j - n <= turns ELSE j + length - n <= turns

\* How many turns a search has left, and the places that it comes to.
Left(t, q) == Len(messages[q]) - reader[t].i - (IF at[t] = "check" THEN 1 ELSE 0)
ToCome(t, q, j) == Within(j, InTurn(t), Len(messages[q]), Left(t, q))

\* What it does not come to.
Behind(t, q) ==
  {p \in Unread(q) : \E j \in 1..Len(messages[q]) :
                       messages[q][j] = p[1] /\ ~ToCome(t, q, j)}

\* A search that has found nothing: if it does not come to a reply that is wanted there
\* is a pulse to come, and it may go to sleep, if some do already, and leaves enough.
Scanning(t, q) == at[t] \in InTheMonitor /\ reader[t].rfcMsg = NoReply /\ reader[t].queue = q
Seen(t, q) == Wanted(Behind(t, q)) = {} \/ Coming(q) # {}
MaySleep(t, q) ==
  waiting[q] # <<>> =>
    \/ Cardinality(Unread(q)) < Cardinality(Awake(q)) + Cardinality(Coming(q))
    \/ Cardinality(Behind(t, q)) <= Cardinality(Coming(q))
    \/ Len(waiting[q]) < Cardinality(Coming(q))
    \/ Wanted(Unread(q)) = {} /\ Len(waiting[q]) <= Cardinality(Coming(q))
Deciding(t) == at[t] \in {"for", "check", "looked"}

Calm(q) ==
  /\ Enough(q)
  /\ \A t \in Readers : Scanning(t, q) => Seen(t, q) /\ (Deciding(t) => MaySleep(t, q))

SleepInv == \A q \in Queues : Calm(q)

-----------------------------------------------------------------------------
FewThreads == IsFiniteSet(Readers) /\ IsFiniteSet(TimeLimited)

LEMMA NoMore ==
  ASSUME NEW T, IsFiniteSet(T), NEW S, S \subseteq T
  PROVE  /\ Cardinality(S) \in Nat /\ Cardinality(T) \in Nat
         /\ Cardinality(S) <= Cardinality(T)
BY FS_Subset, FS_CardinalityType

LEMMA OneMore ==
  ASSUME NEW T, IsFiniteSet(T), NEW x, NEW S, S \subseteq T \cup {x}
  PROVE  Cardinality(S) <= Cardinality(T) + 1
<1>1. /\ IsFiniteSet(T \cup {x}) /\ Cardinality(T) \in Nat
      /\ Cardinality(T \cup {x}) <= Cardinality(T) + 1
  BY FS_AddElement, FS_CardinalityType
<1>2. /\ Cardinality(S) <= Cardinality(T \cup {x})
      /\ Cardinality(S) \in Nat /\ Cardinality(T \cup {x}) \in Nat
  BY <1>1, NoMore
<1> QED BY <1>1, <1>2

LEMMA OneLess ==
  ASSUME NEW T, IsFiniteSet(T), NEW x \in T, NEW S, S \subseteq T \ {x}
  PROVE  Cardinality(S) + 1 <= Cardinality(T)
<1>1. /\ IsFiniteSet(T \ {x}) /\ Cardinality(T) \in Nat
      /\ Cardinality(T \ {x}) = Cardinality(T) - 1
  BY FS_RemoveElement, FS_CardinalityType
<1>2. Cardinality(S) \in Nat /\ Cardinality(S) <= Cardinality(T \ {x})
  BY <1>1, NoMore
<1> QED BY <1>1, <1>2

LEMMA UnreadIs ==
  ASSUME NEW l, NEW f, NEW q
  PROVE  \A p : p \in UnreadIn(l, f, q) <=>
           \E r \in Requests : \E k \in 1..Len(f[r]) : p = <<r, k>> /\ Listed(l, q, r)
BY DEF UnreadIn

LEMMA UnreadAfter ==
  ASSUME NEW q \in Queues, NEW p \in Unread(q)'
  PROVE  \E s \in Requests : /\ Listed(messages', q, s)
                            /\ \E k \in 1..Len(replies'[s]) : p = <<s, k>>
<1> DEFINE l == messages'
           f == replies'
<1>1. p \in UnreadIn(l, f, q)
  BY DEF Unread
<1> HIDE DEF l, f
<1>2. \E s \in Requests : \E k \in 1..Len(f[s]) : p = <<s, k>> /\ Listed(l, q, s)
  BY <1>1, UnreadIs
<1> QED BY <1>2 DEF l, f

LEMMA ImageFinite ==
  ASSUME NEW S, IsFiniteSet(S), NEW f
  PROVE  IsFiniteSet({f[x] : x \in S})
<1> DEFINE T == {f[x] : x \in S}
           g == [x \in S |-> f[x]]
<1>1. g \in Surjection(S, T)
  BY DEF Surjection
<1> HIDE DEF T, g
<1> QED BY <1>1, FS_Surjection DEF T

LEMMA UnreadFinite ==
  ASSUME NEW l \in [Queues -> Seq(Requests)], NEW f \in [Requests -> Seq(Replies)],
         NEW q \in Queues
  PROVE  IsFiniteSet(UnreadIn(l, f, q))
<1> DEFINE R == {s \in Requests : Listed(l, q, s)}
           N(r) == {r} \X (1..Len(f[r]))
           U == {N(r) : r \in R}
<1>1. IsFiniteSet(R)
  <2>1. l[q] \in Seq(Requests) /\ Len(l[q]) \in Nat
    OBVIOUS
  <2>2. IsFiniteSet(1..Len(l[q]))
    BY <2>1, FS_Interval
  <2>3. IsFiniteSet({l[q][k] : k \in 1..Len(l[q])})
    BY <2>2, ImageFinite
  <2>4. R \subseteq {l[q][k] : k \in 1..Len(l[q])}
    BY DEF Listed
  <2> QED BY <2>3, <2>4, FS_Subset
<1>2. \A r \in R : IsFiniteSet(N(r))
  <2> SUFFICES ASSUME NEW r \in R PROVE IsFiniteSet(N(r))
    OBVIOUS
  <2>1. Len(f[r]) \in Nat
    OBVIOUS
  <2>2. IsFiniteSet({r})
    BY FS_Singleton
  <2>3. IsFiniteSet(1..Len(f[r]))
    BY <2>1, FS_Interval
  <2> QED BY <2>2, <2>3, FS_Product
<1>3. IsFiniteSet(U)
  <2> DEFINE M == [r \in R |-> N(r)]
  <2>1. U = {M[r] : r \in R}
    OBVIOUS
  <2> HIDE DEF R, M, U
  <2> QED BY <1>1, <2>1, ImageFinite
<1>4. \A S \in U : IsFiniteSet(S)
  BY <1>2
<1>5. IsFiniteSet(UNION U)
  <2> HIDE DEF U
  <2> QED BY <1>3, <1>4, FS_UNION
<1> QED BY <1>5 DEF UnreadIn

\* All that is counted is finite, before and after a step.
LEMMA Counted ==
  ASSUME BaseInv, BaseInv', FewThreads, NEW q \in Queues
  PROVE  /\ IsFiniteSet(Unread(q)) /\ IsFiniteSet(Awake(q)) /\ IsFiniteSet(Coming(q))
         /\ IsFiniteSet(Unread(q)') /\ IsFiniteSet(Awake(q)') /\ IsFiniteSet(Coming(q)')
<1>1. IsFiniteSet(Unread(q)) /\ IsFiniteSet(Unread(q)')
  <2>1. /\ messages \in [Queues -> Seq(Requests)] /\ replies \in [Requests -> Seq(Replies)]
        /\ messages' \in [Queues -> Seq(Requests)] /\ replies' \in [Requests -> Seq(Replies)]
    BY DEF BaseInv, TypeOK
  <2> QED BY <2>1, UnreadFinite DEF Unread
<1>2. IsFiniteSet(Threads \ Readers)
  <2>1. IsFiniteSet({"putter", "user"})
    <3>1. IsFiniteSet({"putter"}) /\ {"putter", "user"} = {"putter"} \cup {"user"}
      BY FS_Singleton
    <3> QED BY <3>1, FS_AddElement
  <2>2. IsFiniteSet(TimeLimited \cup {"putter", "user"})
    <3>1. IsFiniteSet(TimeLimited)
      BY DEF FewThreads
    <3> QED BY <2>1, <3>1, FS_Union
  <2>3. Threads \ Readers \subseteq TimeLimited \cup {"putter", "user"}
    BY DEF Threads
  <2> QED BY <2>2, <2>3, FS_Subset
<1>3. /\ Awake(q) \subseteq Readers /\ Awake(q)' \subseteq Readers
      /\ Coming(q) \subseteq Threads \ Readers /\ Coming(q)' \subseteq Threads \ Readers
  BY DEF Awake, Coming
<1> QED BY <1>1, <1>2, <1>3, FS_Subset DEF FewThreads

\* So are their parts, and there are natural numbers of them.
LEMMA Numbers ==
  ASSUME BaseInv, BaseInv', FewThreads, NEW q \in Queues
  PROVE  /\ Cardinality(Unread(q)) \in Nat /\ Cardinality(Unread(q)') \in Nat
         /\ Cardinality(Awake(q)) \in Nat /\ Cardinality(Awake(q)') \in Nat
         /\ Cardinality(Coming(q)) \in Nat /\ Cardinality(Coming(q)') \in Nat
         /\ Len(waiting[q]) \in Nat /\ Len(waiting'[q]) \in Nat
         /\ waiting[q] = <<>> <=> Len(waiting[q]) = 0
         /\ waiting'[q] = <<>> <=> Len(waiting'[q]) = 0
<1>1. waiting[q] \in Seq(Readers) /\ waiting'[q] \in Seq(Readers)
  BY DEF BaseInv, TypeOK
<1>2. /\ Len(waiting[q]) \in Nat /\ Len(waiting'[q]) \in Nat
      /\ waiting[q] = <<>> <=> Len(waiting[q]) = 0
      /\ waiting'[q] = <<>> <=> Len(waiting'[q]) = 0
  BY <1>1, EmptySeq
<1> QED BY <1>2, Counted, NoMore

LEMMA NumbersBehind ==
  ASSUME BaseInv, BaseInv', FewThreads, NEW q \in Queues, NEW t \in Readers
  PROVE  /\ IsFiniteSet(Behind(t, q))
         /\ Cardinality(Behind(t, q)) \in Nat /\ Cardinality(Behind(t, q)') \in Nat
<1>1. Behind(t, q) \subseteq Unread(q) /\ Behind(t, q)' \subseteq Unread(q)'
  BY DEF Behind
<1>2. IsFiniteSet(Unread(q)) /\ IsFiniteSet(Unread(q)')
  BY Counted
<1>3. IsFiniteSet(Behind(t, q))
  BY <1>1, <1>2, FS_Subset
<1> QED BY <1>1, <1>2, <1>3, NoMore

-----------------------------------------------------------------------------
(* What leaves a queue calm.                                                *)

\* Nothing is unread that was not, no request has its turn again, and nobody who looks or
\* is about to pulse is lost.
LEMMA EnoughFrame ==
  ASSUME BaseInv, BaseInv', FewThreads, NEW q \in Queues, Enough(q),
         Unread(q)' \subseteq Unread(q),
         \A p \in Unread(q)' : p[1] \in overlooked => p[1] \in overlooked',
         Awake(q) \subseteq Awake(q)', Coming(q) \subseteq Coming(q)',
         waiting'[q] = waiting[q]
  PROVE  /\ Enough(q)'
         /\ Cardinality(Unread(q)') <= Cardinality(Unread(q))
         /\ Cardinality(Awake(q)) <= Cardinality(Awake(q)')
         /\ Cardinality(Coming(q)) <= Cardinality(Coming(q)')
         /\ Wanted(Unread(q))' \subseteq Wanted(Unread(q))
<1>0. /\ Cardinality(Unread(q)) \in Nat /\ Cardinality(Unread(q)') \in Nat
      /\ Cardinality(Awake(q)) \in Nat /\ Cardinality(Awake(q)') \in Nat
      /\ Cardinality(Coming(q)) \in Nat /\ Cardinality(Coming(q)') \in Nat
      /\ Len(waiting[q]) \in Nat
  BY Numbers
<1>1. /\ Cardinality(Unread(q)') <= Cardinality(Unread(q))
      /\ Cardinality(Awake(q)) <= Cardinality(Awake(q)')
      /\ Cardinality(Coming(q)) <= Cardinality(Coming(q)')
  BY Counted, NoMore
<1>2. Wanted(Unread(q))' \subseteq Wanted(Unread(q))
  BY DEF Wanted
<1>3. Enough(q)'
  <2>1. CASE Cardinality(Unread(q)) <= Cardinality(Awake(q)) + Cardinality(Coming(q))
    <3>1. Cardinality(Unread(q)') <= Cardinality(Awake(q)') + Cardinality(Coming(q)')
      BY <1>0, <1>1, <2>1
    <3> QED BY <3>1 DEF Enough
  <2>2. CASE Len(waiting[q]) <= Cardinality(Coming(q))
    <3>1. Len(waiting'[q]) <= Cardinality(Coming(q)')
      BY <1>0, <1>1, <2>2
    <3> QED BY <3>1 DEF Enough
  <2>3. CASE Wanted(Unread(q)) = {} /\ Len(waiting[q]) <= Cardinality(Coming(q)) + 1
    <3>1. Len(waiting'[q]) <= Cardinality(Coming(q)') + 1
      BY <1>0, <1>1, <2>3
    <3>2. Wanted(Unread(q))' = {}
      BY <1>2, <2>3
    <3> QED BY <3>1, <3>2 DEF Enough
  <2>4. CASE waiting[q] = <<>>
    BY <2>4 DEF Enough
  <2> QED BY <2>1, <2>2, <2>3, <2>4 DEF Enough
<1> QED BY <1>1, <1>2, <1>3

LEMMA CalmFrame ==
  ASSUME BaseInv, BaseInv', FewThreads, NEW q \in Queues, Calm(q),
         Unread(q)' \subseteq Unread(q),
         \A p \in Unread(q)' : p[1] \in overlooked => p[1] \in overlooked',
         Awake(q) \subseteq Awake(q)', Coming(q) \subseteq Coming(q)',
         waiting'[q] = waiting[q],
         \A t \in Readers : Scanning(t, q)' =>
           \/ Behind(t, q)' = {}
           \/ /\ Scanning(t, q) /\ (Deciding(t)' => Deciding(t))
              /\ Behind(t, q)' \subseteq Behind(t, q)
  PROVE  Calm(q)'
<1>0. /\ Cardinality(Unread(q)) \in Nat /\ Cardinality(Unread(q)') \in Nat
      /\ Cardinality(Awake(q)) \in Nat /\ Cardinality(Awake(q)') \in Nat
      /\ Cardinality(Coming(q)) \in Nat /\ Cardinality(Coming(q)') \in Nat
      /\ Len(waiting[q]) \in Nat
  BY Numbers
<1>1. /\ Enough(q)'
      /\ Cardinality(Unread(q)') <= Cardinality(Unread(q))
      /\ Cardinality(Awake(q)) <= Cardinality(Awake(q)')
      /\ Cardinality(Coming(q)) <= Cardinality(Coming(q)')
      /\ Wanted(Unread(q))' \subseteq Wanted(Unread(q))
  BY EnoughFrame DEF Calm
<1>2. ASSUME NEW t \in Readers, Scanning(t, q)'
      PROVE  Seen(t, q)' /\ (Deciding(t)' => MaySleep(t, q)')
  <2>1. CASE Behind(t, q)' = {}
    <3>1. Wanted(Behind(t, q))' = {}
      BY <2>1 DEF Wanted
    <3>2. Cardinality(Behind(t, q)') = 0
      BY <2>1, FS_EmptySet
    <3>3. Cardinality(Behind(t, q)') <= Cardinality(Coming(q)')
      BY <1>0, <3>2
    <3> QED BY <3>1, <3>3 DEF Seen, MaySleep
  <2>2. CASE /\ Scanning(t, q) /\ (Deciding(t)' => Deciding(t))
             /\ Behind(t, q)' \subseteq Behind(t, q)
    <3>1. Seen(t, q) /\ (Deciding(t) => MaySleep(t, q))
      BY <2>2 DEF Calm
    <3>2. Behind(t, q)' \subseteq Unread(q)'
      BY DEF Behind
    <3>3. Wanted(Behind(t, q))' \subseteq Wanted(Behind(t, q))
      BY <2>2, <3>2 DEF Wanted
    <3>4. Cardinality(Behind(t, q)') <= Cardinality(Behind(t, q))
      BY <2>2, NumbersBehind, NoMore
    <3>0. Cardinality(Behind(t, q)) \in Nat /\ Cardinality(Behind(t, q)') \in Nat
      BY NumbersBehind
    <3>5. Seen(t, q)'
      <4>1. Wanted(Behind(t, q)) = {} \/ Coming(q) # {}
        BY <3>1 DEF Seen
      <4>2. Wanted(Behind(t, q))' = {} \/ Coming(q)' # {}
        BY <3>3, <4>1
      <4> QED BY <4>2 DEF Seen
    <3>6. ASSUME Deciding(t)'
          PROVE  MaySleep(t, q)'
      <4>1. CASE waiting[q] = <<>>
        BY <4>1 DEF MaySleep
      <4>2. CASE Cardinality(Unread(q)) < Cardinality(Awake(q)) + Cardinality(Coming(q))
        <5>1. Cardinality(Unread(q)') < Cardinality(Awake(q)') + Cardinality(Coming(q)')
          BY <1>0, <1>1, <4>2
        <5> QED BY <5>1 DEF MaySleep
      <4>3. CASE Cardinality(Behind(t, q)) <= Cardinality(Coming(q))
        <5>1. Cardinality(Behind(t, q)') <= Cardinality(Coming(q)')
          BY <1>0, <1>1, <3>0, <3>4, <4>3
        <5> QED BY <5>1 DEF MaySleep
      <4>4. CASE Len(waiting[q]) < Cardinality(Coming(q))
        <5>1. Len(waiting'[q]) < Cardinality(Coming(q)')
          BY <1>0, <1>1, <4>4
        <5> QED BY <5>1 DEF MaySleep
      <4>5. CASE Wanted(Unread(q)) = {} /\ Len(waiting[q]) <= Cardinality(Coming(q))
        <5>1. Len(waiting'[q]) <= Cardinality(Coming(q)')
          BY <1>0, <1>1, <4>5
        <5>2. Wanted(Unread(q))' = {}
          BY <1>1, <4>5
        <5> QED BY <5>1, <5>2 DEF MaySleep
      <4> QED BY <2>2, <3>1, <3>6, <4>1, <4>2, <4>3, <4>4, <4>5 DEF MaySleep
    <3> QED BY <3>5, <3>6
  <2> QED BY <1>2, <2>1, <2>2
<1> QED BY <1>1, <1>2 DEF Calm

\* The queue is as it was, and who searches it comes to the same places.
LEMMA CalmStill ==
  ASSUME BaseInv, BaseInv', FewThreads, NEW q \in Queues, Calm(q),
         messages'[q] = messages[q], waiting'[q] = waiting[q],
         \A r \in Requests : Listed(messages, q, r) =>
           replies'[r] = replies[r] /\ (r \in overlooked => r \in overlooked'),
         Awake(q) \subseteq Awake(q)', Coming(q) \subseteq Coming(q)',
         \A t \in Readers : Scanning(t, q)' =>
           /\ Scanning(t, q) /\ (Deciding(t)' => Deciding(t))
           /\ \A j \in 1..Len(messages[q]) : ToCome(t, q, j) => ToCome(t, q, j)'
  PROVE  Calm(q)'
<1>1. \A r \in Requests : Listed(messages', q, r) <=> Listed(messages, q, r)
  BY DEF Listed
<1>2. Unread(q)' \subseteq Unread(q)
  <2>1. ASSUME NEW p \in Unread(q)' PROVE p \in Unread(q)
    <3>1. PICK r \in Requests :
            /\ Listed(messages', q, r)
            /\ \E k \in 1..Len(replies'[r]) : p = <<r, k>>
      BY <2>1, UnreadAfter
    <3> QED BY <1>1, <3>1, UnreadIs DEF Unread
  <2> QED BY <2>1
<1>3. \A p \in Unread(q)' : p[1] \in overlooked => p[1] \in overlooked'
  <2> SUFFICES ASSUME NEW p \in Unread(q)', p[1] \in overlooked PROVE p[1] \in overlooked'
    OBVIOUS
  <2>1. PICK r \in Requests : /\ Listed(messages', q, r)
                             /\ \E k \in 1..Len(replies'[r]) : p = <<r, k>>
    BY UnreadAfter
  <2> QED BY <1>1, <2>1
<1>4. ASSUME NEW t \in Readers, Scanning(t, q)'
      PROVE  Behind(t, q)' \subseteq Behind(t, q)
  BY <1>2, <1>4 DEF Behind
<1> QED BY <1>2, <1>3, <1>4, CalmFrame

\* One reply more, and one pulse more to come.
LEMMA CalmMore ==
  ASSUME BaseInv, BaseInv', FewThreads, NEW q \in Queues, Calm(q), NEW x, NEW c,
         UNCHANGED messages, UNCHANGED waiting, UNCHANGED reader, UNCHANGED overlooked,
         \A t \in Readers : at'[t] = at[t],
         Unread(q)' \subseteq Unread(q) \cup {x},
         c \notin Coming(q), Coming(q) \cup {c} \subseteq Coming(q)'
  PROVE  Calm(q)'
<1>0. /\ Cardinality(Unread(q)) \in Nat /\ Cardinality(Unread(q)') \in Nat
      /\ Cardinality(Awake(q)) \in Nat /\ Cardinality(Awake(q)') \in Nat
      /\ Cardinality(Coming(q)) \in Nat /\ Cardinality(Coming(q)') \in Nat
      /\ Len(waiting[q]) \in Nat /\ Len(waiting'[q]) \in Nat
  BY Numbers
<1>1. Cardinality(Unread(q)') <= Cardinality(Unread(q)) + 1
  BY Counted, OneMore
<1>2. Cardinality(Coming(q)) + 1 <= Cardinality(Coming(q)')
  <2>1. c \in Coming(q)' /\ Coming(q) \subseteq Coming(q)' \ {c}
    OBVIOUS
  <2> QED BY <2>1, Counted, OneLess
<1>3. Cardinality(Awake(q)) = Cardinality(Awake(q)')
  <2>1. Awake(q) = Awake(q)'
    BY DEF Awake
  <2> QED BY <2>1
<1>4. Enough(q)'
  <2>1. CASE Cardinality(Unread(q)) <= Cardinality(Awake(q)) + Cardinality(Coming(q))
    <3>1. Cardinality(Unread(q)') <= Cardinality(Awake(q)') + Cardinality(Coming(q)')
      BY <1>0, <1>1, <1>2, <1>3, <2>1
    <3> QED BY <3>1 DEF Enough
  <2>2. CASE Len(waiting[q]) <= Cardinality(Coming(q)) + 1
    <3>1. Len(waiting'[q]) <= Cardinality(Coming(q)')
      BY <1>0, <1>2, <2>2
    <3> QED BY <3>1 DEF Enough
  <2>3. waiting'[q] # <<>> =>
          \/ Cardinality(Unread(q)) <= Cardinality(Awake(q)) + Cardinality(Coming(q))
          \/ Len(waiting[q]) <= Cardinality(Coming(q)) + 1
    BY <1>0 DEF Calm, Enough
  <2>4. CASE waiting'[q] = <<>>
    BY <2>4 DEF Enough
  <2> QED BY <2>1, <2>2, <2>3, <2>4
<1>5. ASSUME NEW t \in Readers, Scanning(t, q)'
      PROVE  Seen(t, q)' /\ (Deciding(t)' => MaySleep(t, q)')
  <2>1. Scanning(t, q) /\ (Deciding(t)' <=> Deciding(t))
    BY <1>5 DEF Scanning, Deciding
  <2>2. Deciding(t) => MaySleep(t, q)
    BY <2>1 DEF Calm
  <2>3. \A j : ToCome(t, q, j)' <=> ToCome(t, q, j)
    BY DEF ToCome, Within, Left, InTurn
  <2>4. Behind(t, q)' \subseteq Behind(t, q) \cup {x}
    BY <2>3 DEF Behind
  <2>5. IsFiniteSet(Behind(t, q))
    BY NumbersBehind
  <2>6. Cardinality(Behind(t, q)') <= Cardinality(Behind(t, q)) + 1
    BY <2>4, <2>5, OneMore
  <2>0. Cardinality(Behind(t, q)) \in Nat /\ Cardinality(Behind(t, q)') \in Nat
    BY NumbersBehind
  <2>7. Seen(t, q)'
    <3>1. Coming(q)' # {}
      OBVIOUS
    <3> QED BY <3>1 DEF Seen
  <2>8. ASSUME Deciding(t)'
        PROVE  MaySleep(t, q)'
    <3>1. CASE waiting[q] = <<>>
      BY <3>1 DEF MaySleep
    <3>2. CASE Cardinality(Unread(q)) < Cardinality(Awake(q)) + Cardinality(Coming(q))
      <4>1. Cardinality(Unread(q)') < Cardinality(Awake(q)') + Cardinality(Coming(q)')
        BY <1>0, <1>1, <1>2, <1>3, <3>2
      <4> QED BY <4>1 DEF MaySleep
    <3>3. CASE Cardinality(Behind(t, q)) <= Cardinality(Coming(q))
      <4>1. Cardinality(Behind(t, q)') <= Cardinality(Coming(q)')
        BY <1>0, <1>2, <2>0, <2>6, <3>3
      <4> QED BY <4>1 DEF MaySleep
    <3>4. CASE Len(waiting[q]) <= Cardinality(Coming(q))
      <4>1. Len(waiting'[q]) < Cardinality(Coming(q)')
        BY <1>0, <1>2, <3>4
      <4> QED BY <4>1 DEF MaySleep
    <3>5. Len(waiting[q]) < Cardinality(Coming(q)) => Len(waiting[q]) <= Cardinality(Coming(q))
      BY <1>0
    <3> QED BY <2>1, <2>2, <2>8, <3>1, <3>2, <3>3, <3>4, <3>5 DEF MaySleep
  <2> QED BY <2>7, <2>8
<1> QED BY <1>4, <1>5 DEF Calm

\* No reply more, and one pulse more to come: whatever became of the list.
LEMMA CalmPulsed ==
  ASSUME BaseInv, BaseInv', FewThreads, NEW q \in Queues, Calm(q), NEW c,
         Unread(q)' \subseteq Unread(q),
         \A p \in Unread(q)' : p[1] \in overlooked => p[1] \in overlooked',
         Awake(q) \subseteq Awake(q)', waiting'[q] = waiting[q],
         c \notin Coming(q), Coming(q) \cup {c} \subseteq Coming(q)'
  PROVE  Calm(q)'
<1>0. /\ Cardinality(Unread(q)) \in Nat /\ Cardinality(Unread(q)') \in Nat
      /\ Cardinality(Awake(q)) \in Nat /\ Cardinality(Awake(q)') \in Nat
      /\ Cardinality(Coming(q)) \in Nat /\ Cardinality(Coming(q)') \in Nat
      /\ Len(waiting[q]) \in Nat
  BY Numbers
<1>1. /\ Enough(q) /\ Enough(q)'
      /\ Cardinality(Unread(q)') <= Cardinality(Unread(q))
      /\ Cardinality(Awake(q)) <= Cardinality(Awake(q)')
      /\ Wanted(Unread(q))' \subseteq Wanted(Unread(q))
  BY EnoughFrame DEF Calm
<1>2. Cardinality(Coming(q)) + 1 <= Cardinality(Coming(q)')
  <2>1. c \in Coming(q)' /\ Coming(q) \subseteq Coming(q)' \ {c}
    OBVIOUS
  <2> QED BY <2>1, Counted, OneLess
<1>3. ASSUME NEW t \in Readers
      PROVE  Seen(t, q)' /\ MaySleep(t, q)'
  <2>1. Seen(t, q)'
    <3>1. Coming(q)' # {}
      OBVIOUS
    <3> QED BY <3>1 DEF Seen
  <2>2. CASE Cardinality(Unread(q)) <= Cardinality(Awake(q)) + Cardinality(Coming(q))
    <3>1. Cardinality(Unread(q)') < Cardinality(Awake(q)') + Cardinality(Coming(q)')
      BY <1>0, <1>1, <1>2, <2>2
    <3> QED BY <2>1, <3>1 DEF MaySleep
  <2>3. CASE Len(waiting[q]) <= Cardinality(Coming(q))
    <3>1. Len(waiting'[q]) < Cardinality(Coming(q)')
      BY <1>0, <1>2, <2>3
    <3> QED BY <2>1, <3>1 DEF MaySleep
  <2>4. CASE Wanted(Unread(q)) = {} /\ Len(waiting[q]) <= Cardinality(Coming(q)) + 1
    <3>1. Len(waiting'[q]) <= Cardinality(Coming(q)')
      BY <1>0, <1>2, <2>4
    <3>2. Wanted(Unread(q))' = {}
      BY <1>1, <2>4
    <3> QED BY <2>1, <3>1, <3>2 DEF MaySleep
  <2>5. CASE waiting[q] = <<>>
    BY <2>1, <2>5 DEF MaySleep
  <2> QED BY <1>1, <2>2, <2>3, <2>4, <2>5 DEF Enough
<1> QED BY <1>1, <1>3 DEF Calm

\* The readers are where they were.
LEMMA CalmReaders ==
  ASSUME BaseInv, BaseInv', FewThreads, NEW q \in Queues, Calm(q),
         messages'[q] = messages[q], waiting'[q] = waiting[q],
         \A r \in Requests : Listed(messages, q, r) =>
           replies'[r] = replies[r] /\ (r \in overlooked => r \in overlooked'),
         \A t \in Readers : reader'[t] = reader[t] /\ at'[t] = at[t],
         Coming(q) \subseteq Coming(q)'
  PROVE  Calm(q)'
<1>1. Awake(q) \subseteq Awake(q)'
  BY DEF Awake
<1>2. ASSUME NEW t \in Readers, Scanning(t, q)'
      PROVE  /\ Scanning(t, q) /\ (Deciding(t)' => Deciding(t))
             /\ \A j \in 1..Len(messages[q]) : ToCome(t, q, j) => ToCome(t, q, j)'
  <2>1. Scanning(t, q) /\ (Deciding(t)' => Deciding(t))
    BY <1>2 DEF Scanning, Deciding
  <2>2. reader[t].queue = q
    BY <2>1 DEF Scanning
  <2> QED BY <2>1, <2>2 DEF ToCome, Left, InTurn
<1> QED BY <1>1, <1>2, CalmStill

\* One thread does something, and stays among those that are about to pulse.
LEMMA ComingStays ==
  ASSUME NEW q \in Queues, NEW x, UNCHANGED agent,
         \A r \in Requests : Listed(messages', q, r) => Listed(messages, q, r),
         BaseInv,
         \A b \in Threads : b # x =>
           at'[b] = at[b] /\ info'[b] = info[b] /\ target'[b] = target[b],
         x \in Coming(q) => x \in Coming(q)'
  PROVE  Coming(q) \subseteq Coming(q)'
<1> SUFFICES ASSUME NEW b \in Coming(q), b # x
             PROVE  b \in Coming(q)'
  OBVIOUS
<1>1. b \in Threads \ Readers
  BY DEF Coming
<1>2. at'[b] = at[b] /\ info'[b] = info[b] /\ target'[b] = target[b]
  BY <1>1
<1>3. CASE at[b] \in {"aim", "settle"} /\ agent[info[b]] = q
  BY <1>1, <1>2, <1>3 DEF Coming
<1>4. CASE at[b] = "pulse" /\ target[b] = q
  BY <1>1, <1>2, <1>4 DEF Coming
<1>5. CASE at[b] = "tell" /\ agent[info[b]] = q /\ ~Listed(messages, q, info[b])
  <2>1. info[b] \in Requests
    BY <1>1, <1>5, Kinds DEF BaseInv, PlacesInv, TimersOK, PutterOK, UserOK
  <2>2. ~Listed(messages', q, info[b])
    BY <1>5, <2>1
  <2> QED BY <1>1, <1>2, <1>5, <2>2 DEF Coming
<1> QED BY <1>3, <1>4, <1>5 DEF Coming

\* Who searches a queue is in its monitor.
LEMMA ScanningOwns ==
  ASSUME BaseInv, NEW q \in Queues, NEW t \in Readers, Scanning(t, q)
  PROVE  owner[q] = t
BY DEF BaseInv, MonitorsAgree, Scanning, InTheMonitor

LEMMA WithinLook ==
  ASSUME NEW l \in Nat, NEW n \in Nat, n < l, NEW j \in 1..l, j # n + 1, NEW k \in Int,
         Within(j, n, l, k)
  PROVE  Within(j, IF n + 1 >= l THEN 0 ELSE n + 1, l, k - 1)
BY DEF Within

LEMMA WithinDrop ==
  ASSUME NEW l \in Nat, NEW p \in 1..l, NEW m \in Nat, NEW j \in 1..(l - 1), NEW k \in Int,
         NEW i \in 1..l, i = IF j < p THEN j ELSE j + 1, i # m + 1,
         Within(i, IF m >= l THEN 0 ELSE m, l, k)
  PROVE  Within(j, IF m >= l - 1 THEN 0 ELSE m, l - 1, k)
<1>1. CASE m < l - 1
  BY <1>1 DEF Within
<1>2. CASE m = l - 1
  BY <1>2 DEF Within
<1>3. CASE m >= l
  BY <1>3 DEF Within
<1> QED BY <1>1, <1>2, <1>3

LEMMA WithinSend ==
  ASSUME NEW l \in Nat, NEW m \in Nat, NEW j \in 1..l, NEW k \in Int,
         Within(j, IF m >= l THEN 0 ELSE m, l, k)
  PROVE  Within(j, IF m >= l + 1 THEN 0 ELSE m, l + 1, k + 1)
BY DEF Within

LEMMA WithinAll ==
  ASSUME NEW l \in Nat, NEW n \in Nat, NEW j \in 1..l
  PROVE  Within(j, n, l, l)
BY DEF Within

-----------------------------------------------------------------------------
(* The steps of the readers.                                                *)

LEMMA SleepGet ==
  ASSUME BaseInv, BaseInv', FewThreads, PulsesInv, SleepInv,
         NEW t \in Readers, NEW o \in Queues, Get(t, o)
  PROVE  SleepInv'
<1>1. Moves(t, "enter") /\ at[t] = "idle"
  BY GotoMoves, Kinds DEF BaseInv, Get, Places
<1>2. reader[t] = Nothing
  BY <1>1 DEF PulsesInv, HandInv
<1>3. \A b \in Readers : b # t => reader'[b] = reader[b]
  BY DEF Get, BaseInv, TypeOK
<1>4. UNCHANGED <<messages, indexLastRead, waiting, agent, replies, info, target, overlooked>>
  BY DEF Get, lists, monitors, history
<1>5. at'[t] = "enter" /\ \A b \in Threads : b # t => at'[b] = at[b]
  BY <1>1 DEF Moves
<1> SUFFICES ASSUME NEW q \in Queues PROVE Calm(q)'
  BY DEF SleepInv
<1>6. Coming(q) \subseteq Coming(q)'
  <2>1. t \notin Coming(q)
    BY DEF Coming
  <2> QED BY <1>4, <1>5, <2>1, ComingStays
<1>7. Awake(q) \subseteq Awake(q)'
  <2>1. t \notin Awake(q)
    BY <1>2, AgentAssumption DEF Awake, Nothing, AgentAssumption
  <2> QED BY <1>3, <1>5, <2>1, Kinds DEF Awake
<1>8. ASSUME NEW b \in Readers, Scanning(b, q)'
      PROVE  /\ Scanning(b, q) /\ (Deciding(b)' => Deciding(b))
             /\ \A j \in 1..Len(messages[q]) : ToCome(b, q, j) => ToCome(b, q, j)'
  <2>1. b # t
    BY <1>5, <1>8 DEF Scanning, InTheMonitor
  <2>2. reader'[b] = reader[b] /\ at'[b] = at[b]
    BY <1>3, <1>5, <2>1, Kinds
  <2>3. Scanning(b, q) /\ (Deciding(b)' => Deciding(b))
    BY <1>8, <2>2 DEF Scanning, Deciding
  <2> QED BY <1>4, <2>2, <2>3 DEF ToCome, Left, InTurn
<1> QED BY <1>4, <1>6, <1>7, <1>8, CalmStill DEF SleepInv

LEMMA SleepEnter ==
  ASSUME BaseInv, BaseInv', FewThreads, SleepInv, NEW t \in Readers, Enter(t)
  PROVE  SleepInv'
<1>1. Moves(t, "for") /\ at[t] = "enter"
  BY GotoMoves, Kinds DEF BaseInv, Enter, Places
<1>2. /\ UNCHANGED <<messages, indexLastRead, waiting, agent, replies, info, target, overlooked>>
      /\ reader'[t].queue = reader[t].queue /\ reader'[t].rfcMsg = reader[t].rfcMsg
      /\ reader'[t].i = 0 /\ reader'[t].next = indexLastRead[reader[t].queue] + 1
      /\ \A b \in Readers : b # t => reader'[b] = reader[b]
  BY DEF Enter, BaseInv, TypeOK, lists, history
<1>3. at'[t] = "for" /\ \A b \in Threads : b # t => at'[b] = at[b]
  BY <1>1 DEF Moves
<1> SUFFICES ASSUME NEW q \in Queues PROVE Calm(q)'
  BY DEF SleepInv
<1>4. Coming(q) \subseteq Coming(q)'
  <2>1. t \notin Coming(q)
    BY DEF Coming
  <2> QED BY <1>2, <1>3, <2>1, ComingStays
<1>5. Awake(q) \subseteq Awake(q)'
  BY <1>2, <1>3, Kinds DEF Awake
<1>6. Unread(q)' = Unread(q)
  BY <1>2 DEF Unread
<1>7. ASSUME NEW b \in Readers, Scanning(b, q)'
      PROVE  \/ Behind(b, q)' = {}
             \/ /\ Scanning(b, q) /\ (Deciding(b)' => Deciding(b))
                /\ Behind(b, q)' \subseteq Behind(b, q)
  <2>1. CASE b = t
    <3>1. reader'[t].queue = q
      BY <1>7, <2>1 DEF Scanning
    <3>2. messages[q] \in Seq(Requests) /\ indexLastRead[q] \in Nat
      BY DEF BaseInv, TypeOK
    <3>3. InTurn(t)' \in Nat
      BY <1>2, <3>1, <3>2 DEF InTurn
    <3>4. Left(t, q)' = Len(messages[q])
      BY <1>2, <1>3, <3>2 DEF Left
    <3>5. \A j \in 1..Len(messages[q]) : ToCome(t, q, j)'
      <4> SUFFICES ASSUME NEW j \in 1..Len(messages[q])
                   PROVE  Within(j, InTurn(t)', Len(messages[q]), Len(messages[q]))
        BY <1>2, <3>4 DEF ToCome
      <4> QED BY <3>2, <3>3, WithinAll
    <3>6. Behind(t, q)' = {}
      BY <1>2, <3>5 DEF Behind
    <3> QED BY <2>1, <3>6
  <2>2. CASE b # t
    <3>1. reader'[b] = reader[b] /\ at'[b] = at[b]
      BY <1>2, <1>3, <2>2, Kinds
    <3>2. Scanning(b, q) /\ (Deciding(b)' => Deciding(b))
      BY <1>7, <3>1 DEF Scanning, Deciding
    <3>3. \A j : ToCome(b, q, j)' <=> ToCome(b, q, j)
      BY <1>2, <3>1 DEF ToCome, Left, InTurn
    <3>4. Behind(b, q)' \subseteq Behind(b, q)
      BY <1>2, <1>6, <3>3 DEF Behind
    <3> QED BY <3>2, <3>4
  <2> QED BY <2>1, <2>2
<1> QED BY <1>2, <1>4, <1>5, <1>6, <1>7, CalmFrame DEF SleepInv

LEMMA SleepGoOn ==
  ASSUME BaseInv, BaseInv', FewThreads, SleepInv, NEW t \in Readers, Keep(t) \/ Dropped(t)
  PROVE  SleepInv'
<1>1. /\ UNCHANGED <<messages, indexLastRead, waiting, agent, replies, target, overlooked>>
      /\ at[t] \in {"check", "looked"}
      /\ \A b \in Threads : b # t => at'[b] = at[b] /\ info'[b] = info[b]
      /\ \A b \in Readers : b # t => reader'[b] = reader[b]
      /\ \/ /\ reader[t].rfcMsg = NoReply /\ at'[t] = "for"
            /\ reader'[t].queue = reader[t].queue /\ reader'[t].next = reader[t].next
            /\ reader'[t].rfcMsg = NoReply
            /\ reader'[t].i = IF at[t] = "check" THEN reader[t].i + 1 ELSE reader[t].i
         \/ reader[t].rfcMsg # NoReply /\ at'[t] = "idle" /\ reader'[t] = Nothing
  BY GoOnFacts
<1> SUFFICES ASSUME NEW q \in Queues PROVE Calm(q)'
  BY DEF SleepInv
<1>2. Coming(q) \subseteq Coming(q)'
  <2>1. t \notin Coming(q)
    BY DEF Coming
  <2> QED BY <1>1, <2>1, ComingStays
<1>3. Awake(q) \subseteq Awake(q)'
  <2> SUFFICES ASSUME NEW b \in Awake(q) PROVE b \in Awake(q)'
    OBVIOUS
  <2>1. b \in Readers /\ reader[b].queue = q /\ at[b] # "wait" /\ reader[b].rfcMsg = NoReply
    BY DEF Awake
  <2>2. CASE b = t
    BY <1>1, <2>1, <2>2 DEF Awake
  <2>3. CASE b # t
    BY <1>1, <2>1, <2>3, Kinds DEF Awake
  <2> QED BY <2>2, <2>3
<1>4. ASSUME NEW b \in Readers, Scanning(b, q)'
      PROVE  /\ Scanning(b, q) /\ (Deciding(b)' => Deciding(b))
             /\ \A j \in 1..Len(messages[q]) : ToCome(b, q, j) => ToCome(b, q, j)'
  <2>1. CASE b = t
    <3>1. at'[t] # "idle"
      BY <1>4, <2>1 DEF Scanning, InTheMonitor
    <3>2. Scanning(t, q) /\ Deciding(t)
      <4>1. reader'[t].queue = q
        BY <1>4, <2>1 DEF Scanning
      <4> QED BY <1>1, <3>1, <4>1 DEF Scanning, Deciding, InTheMonitor
    <3>3. /\ messages[q] \in Seq(Requests) /\ Len(messages[q]) \in Nat
          /\ reader[t].i \in Nat /\ reader[t].queue = q
      <4>1. messages[q] \in Seq(Requests) /\ reader[t].i \in Nat
        BY DEF BaseInv, TypeOK
      <4> QED BY <3>2, <4>1 DEF Scanning
    <3>4. Left(t, q)' = Left(t, q)
      BY <1>1, <3>1, <3>3 DEF Left
    <3>5. InTurn(t)' = InTurn(t)
      BY <1>1, <3>1, <3>3 DEF InTurn
    <3> QED BY <1>1, <2>1, <3>2, <3>4, <3>5 DEF ToCome
  <2>2. CASE b # t
    <3>1. reader'[b] = reader[b] /\ at'[b] = at[b]
      BY <1>1, <2>2, Kinds
    <3>2. Scanning(b, q) /\ (Deciding(b)' => Deciding(b))
      BY <1>4, <3>1 DEF Scanning, Deciding
    <3> QED BY <1>1, <3>1, <3>2 DEF ToCome, Left, InTurn
  <2> QED BY <2>1, <2>2
<1> QED BY <1>1, <1>2, <1>3, <1>4, CalmStill DEF SleepInv

LEMMA SleepWait ==
  ASSUME BaseInv, BaseInv', FewThreads, PulsesInv, SleepInv, NEW t \in Readers, Wait(t)
  PROVE  SleepInv'
<1> DEFINE o == reader[t].queue
<1>1. /\ UNCHANGED <<messages, agent, replies, target, info, overlooked>>
      /\ at[t] = "for" /\ o \in Queues /\ reader[t].i >= Len(messages[o])
      /\ \A b \in Threads : b # t => at'[b] = at[b]
      /\ \A b \in Readers : b # t => reader'[b] = reader[b]
      /\ \/ messages[o] = <<>> /\ at'[t] = "idle" /\ reader'[t] = Nothing /\ UNCHANGED waiting
         \/ /\ at'[t] = "wait" /\ reader'[t] = [Nothing EXCEPT !.queue = o]
            /\ Len(waiting'[o]) = Len(waiting[o]) + 1
            /\ \A q \in Queues : q # o => waiting'[q] = waiting[q]
  BY WaitFacts
<1> HIDE DEF o
<1> SUFFICES ASSUME NEW q \in Queues PROVE Calm(q)'
  BY DEF SleepInv
<1>2. Coming(q) \subseteq Coming(q)'
  <2>1. t \notin Coming(q)
    BY DEF Coming
  <2> QED BY <1>1, <2>1, ComingStays
<1>3. Awake(q) \ {t} \subseteq Awake(q)'
  BY <1>1, Kinds DEF Awake
<1>4. at'[t] \in {"idle", "wait"}
  BY <1>1
<1>5. ASSUME NEW b \in Readers, Scanning(b, q)'
      PROVE  /\ Scanning(b, q) /\ (Deciding(b)' => Deciding(b)) /\ b # t
             /\ \A j \in 1..Len(messages[q]) : ToCome(b, q, j) => ToCome(b, q, j)'
  <2>1. b # t
    BY <1>4, <1>5 DEF Scanning, InTheMonitor
  <2>2. reader'[b] = reader[b] /\ at'[b] = at[b]
    BY <1>1, <2>1, Kinds
  <2>3. Scanning(b, q) /\ (Deciding(b)' => Deciding(b))
    BY <1>5, <2>2 DEF Scanning, Deciding
  <2>4. reader[b].queue = q
    BY <2>3 DEF Scanning
  <2>5. InTurn(b)' = InTurn(b)
    BY <1>1, <2>2 DEF InTurn
  <2>6. Left(b, q)' = Left(b, q)
    BY <1>1, <2>2 DEF Left
  <2> QED BY <1>1, <2>1, <2>3, <2>5, <2>6 DEF ToCome
<1>6. CASE q # o
  <2>1. t \notin Awake(q)
    BY <1>6 DEF Awake, o
  <2>2. waiting'[q] = waiting[q]
    BY <1>1, <1>6
  <2> QED BY <1>1, <1>2, <1>3, <1>5, <2>1, <2>2, CalmStill DEF SleepInv
<1>7. CASE q = o /\ messages[o] = <<>>
  <2>1. /\ UNCHANGED waiting /\ Calm(q)
        /\ at'[t] = "idle"
    <3>1. Len(waiting[o]) \in Nat
      BY <1>1 DEF BaseInv, TypeOK
    <3>2. at'[t] = "idle"
      BY <1>7 DEF Wait, o, Goto, BaseInv, TypeOK, Threads
    <3> QED BY <1>1, <3>2 DEF SleepInv
  <2>2. Unread(q) = {} /\ Unread(q)' = {}
    <3>1. Len(messages[q]) = 0
      BY <1>7
    <3>2. \A r : ~Listed(messages, q, r)
      BY <3>1 DEF Listed
    <3>3. \A r : ~Listed(messages', q, r)
      BY <1>1, <3>2
    <3> QED BY <3>2, <3>3, UnreadIs DEF Unread
  <2>3. \A b \in Readers : Behind(b, q)' = {}
    BY <2>2 DEF Behind
  <2>4. Enough(q)'
    <3>1. Cardinality(Unread(q)') = 0
      BY <2>2, FS_EmptySet
    <3>2. Cardinality(Awake(q)') \in Nat /\ Cardinality(Coming(q)') \in Nat
      BY Numbers
    <3>3. Cardinality(Unread(q)') <= Cardinality(Awake(q)') + Cardinality(Coming(q)')
      BY <3>1, <3>2
    <3> QED BY <3>3 DEF Enough
  <2>5. ASSUME NEW b \in Readers
        PROVE  Seen(b, q)' /\ MaySleep(b, q)'
    <3>1. Behind(b, q)' = {} /\ Wanted(Behind(b, q))' = {}
      BY <2>3 DEF Wanted
    <3>2. Cardinality(Behind(b, q)') = 0 /\ Cardinality(Coming(q)') \in Nat
      BY <3>1, FS_EmptySet, Numbers
    <3>3. Cardinality(Behind(b, q)') <= Cardinality(Coming(q)')
      BY <3>2
    <3> QED BY <3>1, <3>3 DEF Seen, MaySleep
  <2> QED BY <2>4, <2>5 DEF Calm
<1>8. CASE q = o /\ messages[o] # <<>>
  <2>1. Scanning(t, q) /\ Deciding(t) /\ reader[t].rfcMsg = NoReply
    <3>1. reader[t].rfcMsg = NoReply
      BY <1>1 DEF PulsesInv, HandInv
    <3> QED BY <1>1, <1>8, <3>1 DEF Scanning, Deciding, InTheMonitor, o
  <2>2. Calm(q) /\ Enough(q) /\ Seen(t, q) /\ MaySleep(t, q)
    BY <2>1 DEF SleepInv, Calm
  <2>3. Behind(t, q) = Unread(q)
    <3>1. messages[q] \in Seq(Requests) /\ reader[t].i \in Nat /\ reader[t].next \in Nat
      BY DEF BaseInv, TypeOK
    <3>2. Left(t, q) \in Int /\ Left(t, q) <= 0
      BY <1>1, <1>8, <3>1 DEF Left
    <3>3. InTurn(t) \in 0..Len(messages[q])
      BY <1>8, <3>1 DEF InTurn, o
    <3>4. \A j \in 1..Len(messages[q]) : ~ToCome(t, q, j)
      <4> HIDE DEF o
      <4>1. Len(messages[q]) \in Nat
        BY <3>1
      <4> QED BY <3>2, <3>3, <4>1 DEF ToCome, Within
    <3>5. ASSUME NEW p \in Unread(q)
          PROVE  \E j \in 1..Len(messages[q]) : messages[q][j] = p[1]
      <4>1. PICK r \in Requests : Listed(messages, q, r) /\ \E k \in 1..Len(replies[r]) : p = <<r, k>>
        BY UnreadIs DEF Unread
      <4> QED BY <4>1 DEF Listed
    <3> QED BY <3>4, <3>5 DEF Behind
  <2>4. /\ Cardinality(Unread(q)') = Cardinality(Unread(q))
        /\ Wanted(Unread(q))' = Wanted(Unread(q))
        /\ Cardinality(Behind(t, q)) = Cardinality(Unread(q))
        /\ Wanted(Behind(t, q)) = Wanted(Unread(q))
    BY <1>1, <2>3 DEF Unread, Wanted
  <2>5. Cardinality(Awake(q)) - 1 <= Cardinality(Awake(q)') /\ Cardinality(Awake(q)) > 0
    <3>1. t \in Awake(q)
      BY <1>1, <1>8, <2>1 DEF Awake, o
    <3>2. IsFiniteSet(Awake(q)) /\ IsFiniteSet(Awake(q)')
      BY Counted
    <3>3. /\ Cardinality(Awake(q) \ {t}) = Cardinality(Awake(q)) - 1
          /\ Cardinality(Awake(q)) \in Nat /\ Cardinality(Awake(q) \ {t}) \in Nat
      BY <3>1, <3>2, FS_RemoveElement, FS_CardinalityType
    <3>4. Cardinality(Awake(q) \ {t}) <= Cardinality(Awake(q)')
      BY <1>3, <3>2, NoMore
    <3> QED BY <3>3, <3>4
  <2>6. Cardinality(Coming(q)) <= Cardinality(Coming(q)')
    BY <1>2, Counted, NoMore
  <2>7. Len(waiting'[q]) = Len(waiting[q]) + 1
    BY <1>1, <1>8
  <2>8. /\ Cardinality(Unread(q)) \in Nat /\ Cardinality(Awake(q)) \in Nat
        /\ Cardinality(Awake(q)') \in Nat /\ Cardinality(Coming(q)) \in Nat
        /\ Cardinality(Coming(q)') \in Nat
        /\ Len(waiting[q]) \in Nat /\ Len(waiting'[q]) \in Nat
        /\ waiting[q] = <<>> => Len(waiting[q]) = 0
    BY Numbers
  <2>9. Enough(q)'
    <3>1. CASE Len(waiting[q]) < Cardinality(Coming(q))
      <4>1. Len(waiting'[q]) <= Cardinality(Coming(q)')
        BY <2>6, <2>7, <2>8, <3>1
      <4> QED BY <4>1 DEF Enough
    <3>2. CASE Wanted(Unread(q)) = {} /\ Len(waiting[q]) <= Cardinality(Coming(q))
      <4>1. Len(waiting'[q]) <= Cardinality(Coming(q)') + 1
        BY <2>6, <2>7, <2>8, <3>2
      <4>2. Wanted(Unread(q))' = {}
        BY <2>4, <3>2
      <4> QED BY <4>1, <4>2 DEF Enough
    <3>3. CASE waiting[q] = <<>>
      <4>1. Len(waiting[q]) <= Cardinality(Coming(q))
        BY <2>8, <3>3
      <4>2. ASSUME Coming(q) # {}
            PROVE  Len(waiting[q]) < Cardinality(Coming(q))
        <5>1. IsFiniteSet(Coming(q))
          BY Counted
        <5>2. Cardinality(Coming(q)) # 0
          BY <4>2, <5>1, FS_EmptySet
        <5> QED BY <2>8, <3>3, <5>2
      <4>3. Wanted(Unread(q)) = {} \/ Coming(q) # {}
        BY <2>2, <2>4 DEF Seen
      <4> QED BY <3>1, <3>2, <4>1, <4>2, <4>3
    <3>4. CASE Cardinality(Unread(q)) < Cardinality(Awake(q)) + Cardinality(Coming(q))
      <4>1. Cardinality(Unread(q)') <= Cardinality(Awake(q)') + Cardinality(Coming(q)')
        BY <2>4, <2>5, <2>6, <2>8, <3>4
      <4> QED BY <4>1 DEF Enough
    <3>5. CASE Cardinality(Behind(t, q)) <= Cardinality(Coming(q))
      <4>1. Cardinality(Unread(q)') <= Cardinality(Awake(q)') + Cardinality(Coming(q)')
        BY <2>4, <2>6, <2>8, <3>5
      <4> QED BY <4>1 DEF Enough
    <3> QED BY <2>2, <3>1, <3>2, <3>3, <3>4, <3>5 DEF MaySleep
  <2>10. ASSUME NEW b \in Readers PROVE ~Scanning(b, q)'
    <3>1. ASSUME Scanning(b, q)' PROVE FALSE
      <4>1. b # t /\ Scanning(b, q)
        BY <1>5, <3>1
      <4> QED BY <2>1, <4>1, ScanningOwns
    <3> QED BY <3>1
  <2> QED BY <2>9, <2>10 DEF Calm
<1> QED BY <1>6, <1>7, <1>8

\* One more waits no longer.
LEMMA SleepPulse ==
  ASSUME BaseInv, BaseInv', FewThreads, PulsesInv, SleepInv, NEW t \in Threads, Pulse(t)
  PROVE  SleepInv'
<1> DEFINE o == target[t]
<1>1. /\ UNCHANGED <<messages, agent, replies, info, reader, overlooked>>
      /\ at[t] = "pulse" /\ at'[t] = AfterPulse(t)
      /\ o \in Queues /\ owner[o] \in {None, t}
      /\ \A b \in Threads : b # t => target'[b] = target[b]
      /\ \A b \in Threads : b # t =>
           at'[b] = at[b] \/ (b \in Readers /\ at[b] = "wait" /\ at'[b] = "enter")
      /\ \A q \in Queues : q # o => waiting'[q] = waiting[q]
      /\ \/ waiting[o] = <<>> /\ waiting'[o] = <<>>
         \/ /\ Len(waiting'[o]) = Len(waiting[o]) - 1
            /\ \E b \in Readers : /\ b # t /\ reader[b].queue = o
                                  /\ at[b] = "wait" /\ at'[b] = "enter"
  BY PulseFacts
<1> HIDE DEF o
<1> SUFFICES ASSUME NEW q \in Queues PROVE Calm(q)'
  BY DEF SleepInv
<1>2. Calm(q)
  BY DEF SleepInv
<1>3. Awake(q) \subseteq Awake(q)'
  <2> SUFFICES ASSUME NEW b \in Awake(q) PROVE at'[b] # "wait"
    BY <1>1 DEF Awake
  <2>1. b \in Readers /\ b \in Threads /\ at[b] # "wait"
    BY Kinds DEF Awake
  <2>2. AfterPulse(t) # "wait"
    BY DEF AfterPulse
  <2> QED BY <1>1, <2>1, <2>2
<1>4. Coming(q) \ {t} \subseteq Coming(q)'
  <2> SUFFICES ASSUME NEW b \in Coming(q), b # t PROVE b \in Coming(q)'
    OBVIOUS
  <2>1. b \in Threads \ Readers
    BY DEF Coming
  <2>2. at'[b] = at[b] /\ info'[b] = info[b] /\ target'[b] = target[b]
    BY <1>1, <2>1
  <2> QED BY <1>1, <2>1, <2>2 DEF Coming
<1>5. Unread(q)' = Unread(q) /\ \A S : Wanted(S)' = Wanted(S)
  BY <1>1 DEF Unread, Wanted
<1>6. ASSUME NEW b \in Readers, Scanning(b, q)'
      PROVE  /\ Scanning(b, q)
             /\ b # t => (Deciding(b)' => Deciding(b))
             /\ \A j : ToCome(b, q, j)' <=> ToCome(b, q, j)
  <2>1. reader'[b] = reader[b] /\ reader[b].queue = q /\ reader[b].rfcMsg = NoReply
    BY <1>1, <1>6 DEF Scanning
  <2>2. CASE b = t
    <3>1. at[b] \in InTheMonitor /\ at'[b] = "looked"
      BY <1>1, <2>2 DEF InTheMonitor, AfterPulse
    <3> QED BY <1>1, <2>1, <2>2, <3>1 DEF Scanning, ToCome, Left, InTurn
  <2>3. CASE b # t
    <3>1. at'[b] # "enter"
      BY <1>6 DEF Scanning, InTheMonitor
    <3>2. at'[b] = at[b]
      BY <1>1, <2>3, <3>1, Kinds
    <3>3. Scanning(b, q) /\ (Deciding(b)' => Deciding(b))
      BY <1>6, <2>1, <3>2 DEF Scanning, Deciding
    <3> QED BY <1>1, <2>1, <3>2, <3>3 DEF ToCome, Left, InTurn
  <2> QED BY <2>2, <2>3
<1>7. \A b \in Readers : Scanning(b, q)' => Behind(b, q)' = Behind(b, q)
  BY <1>1, <1>5, <1>6 DEF Behind
<1>8. CASE q # o
  <2>1. t \notin Coming(q)
    BY <1>1, <1>8 DEF Coming, o
  <2>2. ASSUME NEW b \in Readers, Scanning(b, q)'
        PROVE  b # t
    <3>1. ASSUME b = t PROVE FALSE
      <4>1. reader[t].queue = q
        BY <1>6, <2>2, <3>1 DEF Scanning
      <4>2. target[t] = reader[t].queue
        BY <1>1, <3>1 DEF PulsesInv, HandInv
      <4> QED BY <1>8, <4>1, <4>2 DEF o
    <3> QED BY <3>1
  <2> QED BY <1>1, <1>2, <1>3, <1>4, <1>5, <1>6, <1>7, <1>8, <2>1, <2>2, CalmFrame
<1>9. CASE q = o
  <2>1. /\ Cardinality(Unread(q)') = Cardinality(Unread(q))
        /\ Wanted(Unread(q))' = Wanted(Unread(q))
    BY <1>5
  <2>2. /\ Cardinality(Unread(q)) \in Nat /\ Cardinality(Awake(q)) \in Nat
        /\ Cardinality(Awake(q)') \in Nat /\ Cardinality(Coming(q)) \in Nat
        /\ Cardinality(Coming(q)') \in Nat
        /\ Len(waiting[q]) \in Nat /\ Len(waiting'[q]) \in Nat
        /\ waiting[q] = <<>> <=> Len(waiting[q]) = 0
    BY Numbers
  <2>3. /\ IsFiniteSet(Awake(q)) /\ IsFiniteSet(Awake(q)')
        /\ IsFiniteSet(Coming(q)) /\ IsFiniteSet(Coming(q)')
    BY Counted
  <2>4. waiting'[q] # <<>> => /\ Cardinality(Awake(q)) + 1 <= Cardinality(Awake(q)')
                              /\ Len(waiting'[q]) + 1 = Len(waiting[q])
                              /\ waiting[q] # <<>>
    <3> SUFFICES ASSUME waiting'[q] # <<>>
                 PROVE  /\ Cardinality(Awake(q)) + 1 <= Cardinality(Awake(q)')
                        /\ Len(waiting'[q]) + 1 = Len(waiting[q])
                        /\ waiting[q] # <<>>
      OBVIOUS
    <3>1. PICK b \in Readers : /\ b # t /\ reader[b].queue = q
                               /\ at[b] = "wait" /\ at'[b] = "enter"
      BY <1>1, <1>9
    <3>2. Len(waiting'[q]) = Len(waiting[q]) - 1
      BY <1>1, <1>9
    <3>3. reader[b].rfcMsg = NoReply
      BY <3>1 DEF PulsesInv, HandInv
    <3>4. b \in Awake(q)' /\ Awake(q) \subseteq Awake(q)' \ {b}
      <4>1. b \in Awake(q)'
        BY <1>1, <3>1, <3>3 DEF Awake
      <4>2. b \notin Awake(q)
        BY <3>1 DEF Awake
      <4> QED BY <1>3, <4>1, <4>2
    <3>5. Cardinality(Awake(q)) + 1 <= Cardinality(Awake(q)')
      BY <2>3, <3>4, OneLess
    <3>6. Len(waiting'[q]) + 1 = Len(waiting[q]) /\ Len(waiting[q]) # 0
      BY <2>2, <3>2
    <3> QED BY <2>2, <3>5, <3>6
  <2>5. waiting'[q] # <<>> =>
          \/ Cardinality(Unread(q)) <= Cardinality(Awake(q)) + Cardinality(Coming(q))
          \/ Len(waiting[q]) <= Cardinality(Coming(q))
          \/ Wanted(Unread(q)) = {} /\ Len(waiting[q]) <= Cardinality(Coming(q)) + 1
    BY <1>2, <2>4 DEF Calm, Enough
  <2>6. CASE t \in Readers
    <3>1. Coming(q) \subseteq Coming(q)' /\ Cardinality(Coming(q)) <= Cardinality(Coming(q)')
      <4>1. t \notin Coming(q)
        BY <2>6 DEF Coming
      <4> QED BY <1>4, <2>3, <4>1, NoMore
    <3>2. waiting'[q] # <<>> =>
            \/ Cardinality(Unread(q)') < Cardinality(Awake(q)') + Cardinality(Coming(q)')
            \/ Len(waiting'[q]) < Cardinality(Coming(q)')
            \/ Wanted(Unread(q))' = {} /\ Len(waiting'[q]) <= Cardinality(Coming(q)')
      <4> SUFFICES ASSUME waiting'[q] # <<>>
                   PROVE  \/ Cardinality(Unread(q)') < Cardinality(Awake(q)') + Cardinality(Coming(q)')
                          \/ Len(waiting'[q]) < Cardinality(Coming(q)')
                          \/ Wanted(Unread(q))' = {} /\ Len(waiting'[q]) <= Cardinality(Coming(q)')
        OBVIOUS
      <4>1. CASE Cardinality(Unread(q)) <= Cardinality(Awake(q)) + Cardinality(Coming(q))
        <5>1. Cardinality(Unread(q)') < Cardinality(Awake(q)') + Cardinality(Coming(q)')
          BY <2>1, <2>2, <2>4, <3>1, <4>1
        <5> QED BY <5>1
      <4>2. CASE Len(waiting[q]) <= Cardinality(Coming(q))
        <5>1. Len(waiting'[q]) + 1 = Len(waiting[q])
          BY <2>4
        <5>2. Len(waiting'[q]) < Cardinality(Coming(q)')
          BY <2>2, <3>1, <4>2, <5>1
        <5> QED BY <5>2
      <4>3. CASE Wanted(Unread(q)) = {} /\ Len(waiting[q]) <= Cardinality(Coming(q)) + 1
        <5>1. Len(waiting'[q]) + 1 = Len(waiting[q])
          BY <2>4
        <5>2. Len(waiting'[q]) <= Cardinality(Coming(q)')
          BY <2>2, <3>1, <4>3, <5>1
        <5> QED BY <2>1, <4>3, <5>2
      <4> QED BY <2>5, <4>1, <4>2, <4>3
    <3>3. Enough(q)'
      <4>1. Cardinality(Unread(q)') \in Nat
        BY Numbers
      <4>2. CASE Cardinality(Unread(q)') < Cardinality(Awake(q)') + Cardinality(Coming(q)')
        <5>1. Cardinality(Unread(q)') <= Cardinality(Awake(q)') + Cardinality(Coming(q)')
          BY <2>2, <4>1, <4>2
        <5> QED BY <5>1 DEF Enough
      <4>3. CASE Len(waiting'[q]) <= Cardinality(Coming(q)')
        BY <4>3 DEF Enough
      <4>4. Len(waiting'[q]) < Cardinality(Coming(q)') => Len(waiting'[q]) <= Cardinality(Coming(q)')
        BY <2>2
      <4>5. CASE waiting'[q] = <<>>
        BY <4>5 DEF Enough
      <4> QED BY <3>2, <4>2, <4>3, <4>4, <4>5
    <3>4. ASSUME NEW b \in Readers, Scanning(b, q)'
          PROVE  Seen(b, q)' /\ MaySleep(b, q)'
      <4>1. Seen(b, q)
        BY <1>2, <1>6, <3>4 DEF Calm
      <4>2. Wanted(Behind(b, q))' = Wanted(Behind(b, q))
        BY <1>5, <1>7, <3>4
      <4>3. Seen(b, q)'
        <5>1. Wanted(Behind(b, q)) = {} \/ Coming(q) # {}
          BY <4>1 DEF Seen
        <5>2. Wanted(Behind(b, q))' = {} \/ Coming(q)' # {}
          BY <3>1, <4>2, <5>1
        <5> QED BY <5>2 DEF Seen
      <4> QED BY <3>2, <4>3 DEF MaySleep
    <3> QED BY <3>3, <3>4 DEF Calm
  <2>7. CASE t \notin Readers
    <3>1. Cardinality(Coming(q)) - 1 <= Cardinality(Coming(q)')
      <4>1. t \in Coming(q)
        BY <1>1, <1>9, <2>7 DEF Coming, o
      <4>2. /\ Cardinality(Coming(q) \ {t}) = Cardinality(Coming(q)) - 1
            /\ Cardinality(Coming(q) \ {t}) \in Nat
        BY <2>3, <4>1, FS_RemoveElement, FS_CardinalityType
      <4>3. Cardinality(Coming(q) \ {t}) <= Cardinality(Coming(q)')
        BY <1>4, <2>3, NoMore
      <4> QED BY <4>2, <4>3
    <3>2. Enough(q)'
      <4> SUFFICES ASSUME waiting'[q] # <<>>
                   PROVE  Enough(q)'
        BY DEF Enough
      <4>0. Len(waiting'[q]) + 1 = Len(waiting[q])
        BY <2>4
      <4>1. CASE Cardinality(Unread(q)) <= Cardinality(Awake(q)) + Cardinality(Coming(q))
        <5>1. Cardinality(Unread(q)') <= Cardinality(Awake(q)') + Cardinality(Coming(q)')
          BY <2>1, <2>2, <2>4, <3>1, <4>1
        <5> QED BY <5>1 DEF Enough
      <4>2. CASE Len(waiting[q]) <= Cardinality(Coming(q))
        <5>1. Len(waiting'[q]) <= Cardinality(Coming(q)')
          BY <2>2, <3>1, <4>0, <4>2
        <5> QED BY <5>1 DEF Enough
      <4>3. CASE Wanted(Unread(q)) = {} /\ Len(waiting[q]) <= Cardinality(Coming(q)) + 1
        <5>1. Len(waiting'[q]) <= Cardinality(Coming(q)') + 1
          BY <2>2, <3>1, <4>0, <4>3
        <5>2. Wanted(Unread(q))' = {}
          BY <2>1, <4>3
        <5> QED BY <5>1, <5>2 DEF Enough
      <4> QED BY <2>5, <4>1, <4>2, <4>3
    <3>3. ASSUME NEW b \in Readers PROVE ~Scanning(b, q)'
      <4>1. ASSUME Scanning(b, q)' PROVE FALSE
        <5>1. owner[q] = b
          BY <1>6, <4>1, ScanningOwns
        <5> QED BY <1>1, <1>9, <2>7, <5>1, AgentAssumption DEF AgentAssumption
      <4> QED BY <4>1
    <3> QED BY <3>2, <3>3 DEF Calm
  <2> QED BY <2>6, <2>7
<1> QED BY <1>8, <1>9

LEMMA SleepAim ==
  ASSUME BaseInv, BaseInv', FewThreads, PulsesInv, SleepInv, NEW t \in Threads, Aim(t)
  PROVE  SleepInv'
<1>1. Moves(t, "pulse") /\ at[t] = "aim"
  BY GotoMoves, Kinds DEF BaseInv, Aim, Places
<1>2. at'[t] = "pulse" /\ \A b \in Threads : b # t => at'[b] = at[b]
  BY <1>1 DEF Moves
<1>3. /\ UNCHANGED <<messages, waiting, agent, replies, info, reader, overlooked>>
      /\ target'[t] = agent[info[t]] /\ \A b \in Threads : b # t => target'[b] = target[b]
  BY DEF Aim, lists, monitors, locals, history, BaseInv, TypeOK
<1> SUFFICES ASSUME NEW q \in Queues PROVE Calm(q)'
  BY DEF SleepInv
<1>4. Coming(q) \subseteq Coming(q)'
  <2>1. t \in Coming(q) => t \in Coming(q)'
    BY <1>1, <1>2, <1>3 DEF Coming
  <2> QED BY <1>2, <1>3, <2>1, ComingStays
<1>5. Awake(q) \subseteq Awake(q)'
  BY <1>2, <1>3, Kinds DEF Awake
<1>6. ASSUME NEW b \in Readers, Scanning(b, q)'
      PROVE  /\ Scanning(b, q) /\ (Deciding(b)' => Deciding(b))
             /\ \A j \in 1..Len(messages[q]) : ToCome(b, q, j) => ToCome(b, q, j)'
  <2>1. at'[b] = at[b] \/ (at[b] = "aim" /\ at'[b] = "pulse")
    BY <1>1, <1>2, Kinds
  <2>2. Scanning(b, q) /\ (Deciding(b)' => Deciding(b))
    BY <1>3, <1>6, <2>1 DEF Scanning, Deciding, InTheMonitor
  <2> QED BY <1>3, <2>1, <2>2 DEF ToCome, Left, InTurn
<1> QED BY <1>3, <1>4, <1>5, <1>6, CalmStill DEF SleepInv

-----------------------------------------------------------------------------
(* The steps of the others.                                                 *)

\* Steps beside the readers and the lists.
LEMMA SleepAside ==
  ASSUME BaseInv, BaseInv', FewThreads, SleepInv, NEW x \in Threads, x \notin Readers,
         UNCHANGED <<messages, waiting, agent, replies, reader, overlooked>>,
         \A b \in Threads : b # x =>
           at'[b] = at[b] /\ info'[b] = info[b] /\ target'[b] = target[b],
         \A q \in Queues : x \in Coming(q) => x \in Coming(q)'
  PROVE  SleepInv'
<1> SUFFICES ASSUME NEW q \in Queues PROVE Calm(q)'
  BY DEF SleepInv
<1>1. Coming(q) \subseteq Coming(q)'
  BY ComingStays
<1>2. \A b \in Readers : at'[b] = at[b]
  BY Kinds
<1> QED BY <1>1, <1>2, CalmReaders DEF SleepInv

\* A reply is queued, and a pulse will follow: if the request is in the list for the reply,
\* and if it is not because of the timer.
LEMMA SleepReply ==
  ASSUME BaseInv, BaseInv', HomeInv, FewThreads, SleepInv,
         NEW x \in Threads, x \notin Readers, NEW r \in Requests, NEW e,
         info[x] = r, at[x] \in {"add", "tell"}, at'[x] \in {"aim", "settle"},
         \A b \in Threads : b # x => at'[b] = at[b],
         replies' = [replies EXCEPT ![r] = Append(@, e)], e \in Replies,
         UNCHANGED <<messages, waiting, agent, info, target, reader, overlooked>>
  PROVE  SleepInv'
<1> SUFFICES ASSUME NEW q \in Queues PROVE Calm(q)'
  BY DEF SleepInv
<1>1. replies \in [Requests -> Seq(Replies)]
  BY DEF BaseInv, TypeOK
<1>2. \A b \in Readers : at'[b] = at[b]
  BY Kinds
<1>3. x \in Coming(q) => x \in Coming(q)'
  BY DEF Coming
<1>4. Coming(q) \subseteq Coming(q)'
  BY <1>3, ComingStays
<1>5. CASE ~Listed(messages, q, r)
  <2>1. \A s \in Requests : Listed(messages, q, s) => replies'[s] = replies[s]
    BY <1>1, <1>5
  <2> QED BY <1>2, <1>4, <2>1, CalmReaders DEF SleepInv
<1>6. CASE Listed(messages, q, r)
  <2>1. agent[r] = q
    BY <1>6 DEF Listed, HomeInv
  <2>2. x \notin Coming(q) /\ x \in Coming(q)'
    BY <1>6, <2>1 DEF Coming
  <2> DEFINE n == Len(replies[r]) + 1
  <2>3. Unread(q)' \subseteq Unread(q) \cup {<<r, n>>}
    <3> SUFFICES ASSUME NEW p \in Unread(q)', p # <<r, n>> PROVE p \in Unread(q)
      OBVIOUS
    <3>1. PICK s \in Requests : /\ Listed(messages', q, s)
                                /\ \E k \in 1..Len(replies'[s]) : p = <<s, k>>
      BY UnreadAfter
    <3>2. PICK k \in 1..Len(replies'[s]) : p = <<s, k>>
      BY <3>1
    <3>3. k \in 1..Len(replies[s])
      <4>1. CASE s = r
        <5>1. replies'[r] = Append(replies[r], e) /\ replies[r] \in Seq(Replies)
          BY <1>1
        <5>2. Len(replies'[r]) = Len(replies[r]) + 1 /\ Len(replies[r]) \in Nat
          BY <5>1, AppendProperties
        <5>3. k \in 1..n /\ k # n
          BY <3>2, <4>1, <5>2 DEF n
        <5> QED BY <4>1, <5>2, <5>3 DEF n
      <4>2. CASE s # r
        BY <1>1, <3>2, <4>2
      <4> QED BY <4>1, <4>2
    <3> QED BY <3>1, <3>2, <3>3, UnreadIs DEF Unread
  <2> HIDE DEF n
  <2>4. Coming(q) \cup {x} \subseteq Coming(q)'
    BY <1>4, <2>2
  <2> QED BY <1>2, <2>2, <2>3, <2>4, CalmMore DEF SleepInv
<1> QED BY <1>5, <1>6

\* The replies of one request become fewer by one, and no others change.
LEMMA OneTaken ==
  ASSUME BaseInv, NEW q \in Queues, NEW r \in Requests, Listed(messages, q, r),
         UNCHANGED messages, replies[r] # <<>>, replies'[r] = Tail(replies[r]),
         \A s \in Requests : s # r => replies'[s] = replies[s]
  PROVE  \E x \in Unread(q) : Unread(q)' \subseteq Unread(q) \ {x}
<1> DEFINE n == Len(replies[r])
<1>1. replies[r] \in Seq(Replies) /\ n \in Nat /\ n > 0 /\ Len(replies'[r]) = n - 1
  <2>1. replies[r] \in Seq(Replies)
    BY DEF BaseInv, TypeOK
  <2>2. Len(Tail(replies[r])) = Len(replies[r]) - 1 /\ Len(replies[r]) \in Nat
        /\ Len(replies[r]) > 0
    BY <2>1, EmptySeq
  <2> QED BY <2>1, <2>2
<1> HIDE DEF n
<1>2. <<r, n>> \in Unread(q)
  <2>1. n \in 1..Len(replies[r])
    BY <1>1 DEF n
  <2> QED BY <2>1, UnreadIs DEF Unread
<1>3. ASSUME NEW p \in Unread(q)'
      PROVE  p \in Unread(q) /\ p # <<r, n>>
  <2>1. PICK s \in Requests : /\ Listed(messages', q, s)
                              /\ \E k \in 1..Len(replies'[s]) : p = <<s, k>>
    BY UnreadAfter
  <2>2. PICK k \in 1..Len(replies'[s]) : p = <<s, k>>
    BY <2>1
  <2>3. CASE s = r
    <3>0. Len(replies'[s]) = n - 1 /\ Len(replies[s]) = n
      BY <1>1, <2>3 DEF n
    <3>1. k \in 1..Len(replies[s]) /\ k # n
      BY <1>1, <3>0
    <3>2. p \in Unread(q)
      BY <2>2, <2>3, <3>1, UnreadIs DEF Unread
    <3> QED BY <2>2, <3>1, <3>2
  <2>4. CASE s # r
    <3>1. k \in 1..Len(replies[s]) /\ Listed(messages, q, s)
      BY <2>1, <2>4
    <3>2. p \in Unread(q)
      BY <2>2, <3>1, UnreadIs DEF Unread
    <3> QED BY <2>2, <2>4, <3>2
  <2> QED BY <2>3, <2>4
<1> QED BY <1>2, <1>3

LEMMA ShortTail ==
  ASSUME NEW S, NEW s \in Seq(S), s # <<>>, Len(s) <= 1
  PROVE  Len(Tail(s)) = 0
<1>1. Len(s) \in Nat /\ Len(s) # 0
  BY EmptySeq
<1>2. Len(s) = 1
  BY <1>1
<1> QED BY <1>2

LEMMA SleepLook ==
  ASSUME BaseInv, BaseInv', HomeInv, FewThreads, PulsesInv, SleepInv,
         NEW t \in Readers, Look(t)
  PROVE  SleepInv'
<1> DEFINE o == reader[t].queue
           n == InTurn(t)
           r == messages[o][n + 1]
<1>1. Moves(t, "check") /\ at[t] = "for"
  BY GotoMoves, Kinds DEF BaseInv, Look, Places
<1>2. o \in Queues /\ r \in Requests /\ n \in Nat /\ n + 1 \in 1..Len(messages[o])
  BY LookFacts
<1>3. /\ UNCHANGED <<messages, waiting, agent, target>>
      /\ \A b \in Threads : b # t => info'[b] = info[b]
      /\ \A b \in Readers : b # t => reader'[b] = reader[b]
      /\ reader'[t].queue = o /\ reader'[t].next = n + 1 /\ reader'[t].i = reader[t].i
      /\ \A s \in Requests : s # r => replies'[s] = replies[s]
      /\ overlooked' = IF Len(replies[r]) > 1 THEN overlooked ELSE overlooked \ {r}
  <2>1. UNCHANGED <<messages, waiting, agent, target>>
    BY DEF Look, monitors
  <2>2. \A s \in Requests : s # r => replies'[s] = replies[s]
    BY <1>2 DEF Look, BaseInv, TypeOK
  <2>3. /\ \A b \in Threads : b # t => info'[b] = info[b]
        /\ \A b \in Readers : b # t => reader'[b] = reader[b]
        /\ reader'[t].queue = o /\ reader'[t].next = n + 1 /\ reader'[t].i = reader[t].i
    <3>1. /\ info \in [Threads -> Requests \cup {None}] /\ info' = [info EXCEPT ![t] = r]
          /\ reader \in [Readers -> ReaderLocals]
      BY DEF Look, BaseInv, TypeOK, ReaderLocals
    <3>2. \A b \in Threads : b # t => info'[b] = info[b]
      BY <3>1
    <3> DEFINE f == IF replies[r] # <<>> THEN Head(replies[r]) ELSE NoReply
    <3>3. reader' = [reader EXCEPT ![t].next = n + 1, ![t].rfcMsg = f]
      BY DEF Look
    <3> HIDE DEF f, n, r
    <3>4. \A b \in Readers : b # t => reader'[b] = reader[b]
      BY <3>1, <3>3
    <3>5. reader'[t].queue = o /\ reader'[t].next = n + 1 /\ reader'[t].i = reader[t].i
      BY <3>1, <3>3 DEF ReaderLocals
    <3> QED BY <3>2, <3>4, <3>5
  <2>4. overlooked' = IF Len(replies[r]) > 1 THEN overlooked ELSE overlooked \ {r}
    BY DEF Look
  <2> QED BY <2>1, <2>2, <2>3, <2>4
<1>4. /\ replies[r] # <<>> => replies'[r] = Tail(replies[r])
      /\ replies[r] = <<>> => replies'[r] = <<>>
      /\ reader'[t].rfcMsg = IF replies[r] # <<>> THEN Head(replies[r]) ELSE NoReply
      /\ replies[r] \in Seq(Replies)
  <2>1. replies \in [Requests -> Seq(Replies)] /\ reader \in [Readers -> ReaderLocals]
    BY DEF BaseInv, TypeOK, ReaderLocals
  <2>2. replies' = [replies EXCEPT ![r] = IF replies[r] # <<>> THEN Tail(@) ELSE @]
    BY DEF Look
  <2>3. reader'[t].rfcMsg = IF replies[r] # <<>> THEN Head(replies[r]) ELSE NoReply
    BY <2>1 DEF Look, ReaderLocals
  <2> HIDE DEF r
  <2> QED BY <1>2, <2>1, <2>2, <2>3
<1>5. Listed(messages, o, r) /\ agent[r] = o
  <2>1. Listed(messages, o, r)
    BY <1>2 DEF Listed
  <2> QED BY <1>2, <2>1 DEF HomeInv
<1>6. reader[t].rfcMsg = NoReply
  BY <1>1 DEF PulsesInv, HandInv
<1>7. at'[t] = "check" /\ \A b \in Threads : b # t => at'[b] = at[b]
  BY <1>1 DEF Moves
<1>8. n = InTurn(t) /\ reader[t].queue = o /\ r = messages[o][n + 1]
  OBVIOUS
<1> HIDE DEF o, n, r
<1> SUFFICES ASSUME NEW q \in Queues PROVE Calm(q)'
  BY DEF SleepInv
<1>9. Calm(q)
  BY DEF SleepInv
<1>10. Coming(q) \subseteq Coming(q)'
  <2>1. t \notin Coming(q)
    BY DEF Coming
  <2> QED BY <1>3, <1>7, <2>1, ComingStays
<1>11. Awake(q) \ {t} \subseteq Awake(q)'
  BY <1>3, <1>7, Kinds DEF Awake
<1>12. ASSUME NEW b \in Readers, b # t, Scanning(b, q)'
       PROVE  /\ Scanning(b, q) /\ (Deciding(b)' => Deciding(b)) /\ q # o
              /\ \A j : ToCome(b, q, j)' <=> ToCome(b, q, j)
  <2>1. reader'[b] = reader[b] /\ at'[b] = at[b]
    BY <1>3, <1>7, <1>12, Kinds
  <2>2. Scanning(b, q) /\ (Deciding(b)' => Deciding(b))
    BY <1>12, <2>1 DEF Scanning, Deciding
  <2>3. q # o
    BY <1>1, <1>8, <1>12, <2>2, AloneInTheMonitor DEF Scanning, InTheMonitor
  <2>4. InTurn(b)' = InTurn(b)
    BY <1>3, <2>1 DEF InTurn
  <2>5. Left(b, q)' = Left(b, q)
    BY <1>3, <2>1 DEF Left
  <2> QED BY <1>3, <2>2, <2>3, <2>4, <2>5 DEF ToCome
<1>13. CASE q # o
  <2>1. t \notin Awake(q)
    BY <1>8, <1>13 DEF Awake
  <2>2. \A s \in Requests : Listed(messages, q, s) =>
          replies'[s] = replies[s] /\ (s \in overlooked => s \in overlooked')
    <3> SUFFICES ASSUME NEW s \in Requests, Listed(messages, q, s) PROVE s # r
      BY <1>3
    <3>1. agent[s] = q
      BY DEF Listed, HomeInv
    <3> QED BY <1>5, <1>13, <3>1
  <2>3. \A b \in Readers : Scanning(b, q)' => b # t
    BY <1>3, <1>13 DEF Scanning
  <2> QED BY <1>3, <1>9, <1>10, <1>11, <1>12, <2>1, <2>2, <2>3, CalmStill
<1>14. CASE q = o /\ replies[r] = <<>>
  <2>1. /\ \A s \in Requests : replies'[s] = replies[s]
        /\ reader'[t].rfcMsg = NoReply
    BY <1>3, <1>4, <1>14
  <2>2. Unread(q)' = Unread(q)
    BY <1>3, <2>1 DEF Unread, UnreadIn
  <2>3. ASSUME NEW p \in Unread(q)
        PROVE  p[1] # r
    <3>1. PICK s \in Requests : \E k \in 1..Len(replies[s]) : p = <<s, k>>
      BY UnreadIs DEF Unread
    <3>2. PICK k \in 1..Len(replies[s]) : p = <<s, k>>
      BY <3>1
    <3>3. Len(replies[r]) = 0
      BY <1>14
    <3> QED BY <3>2, <3>3
  <2>4. Awake(q) \subseteq Awake(q)'
    <3>1. t \in Awake(q)'
      BY <1>3, <1>7, <1>14, <2>1 DEF Awake
    <3> QED BY <1>11, <3>1
  <2>5. \A p \in Unread(q)' : p[1] \in overlooked => p[1] \in overlooked'
    BY <1>3, <2>2, <2>3
  <2>6. ASSUME NEW b \in Readers, Scanning(b, q)'
        PROVE  /\ Scanning(b, q) /\ (Deciding(b)' => Deciding(b))
               /\ Behind(b, q)' \subseteq Behind(b, q)
    <3>1. b = t
      BY <1>12, <1>14, <2>6
    <3>2. Scanning(t, q) /\ Deciding(t)
      BY <1>1, <1>6, <1>8, <1>14 DEF Scanning, Deciding, InTheMonitor
    <3>3. /\ messages[q] \in Seq(Requests) /\ Len(messages[q]) \in Nat /\ reader[t].i \in Nat
      <4>1. messages[q] \in Seq(Requests) /\ reader[t].i \in Nat
        BY DEF BaseInv, TypeOK
      <4> QED BY <4>1
    <3>4. Left(t, q) \in Int /\ Left(t, q)' = Left(t, q) - 1
      BY <1>1, <1>3, <1>7, <3>3 DEF Left
    <3>5. InTurn(t)' = IF n + 1 >= Len(messages[q]) THEN 0 ELSE n + 1
      BY <1>3, <1>14 DEF InTurn
    <3>6. ASSUME NEW j \in 1..Len(messages[q]), j # n + 1, ToCome(t, q, j)
          PROVE  ToCome(t, q, j)'
      <4>1. n < Len(messages[q])
        BY <1>2, <1>14, <3>3
      <4>2. Within(j, n, Len(messages[q]), Left(t, q))
        BY <1>8, <3>6 DEF ToCome
      <4>3. Within(j, IF n + 1 >= Len(messages[q]) THEN 0 ELSE n + 1, Len(messages[q]),
                   Left(t, q) - 1)
        BY <1>2, <3>3, <3>4, <3>6, <4>1, <4>2, WithinLook
      <4> QED BY <1>3, <3>4, <3>5, <4>3 DEF ToCome
    <3>7. Behind(t, q)' \subseteq Behind(t, q)
      <4> SUFFICES ASSUME NEW p \in Behind(t, q)' PROVE p \in Behind(t, q)
        OBVIOUS
      <4>1. p \in Unread(q)
        BY <2>2 DEF Behind
      <4>2. PICK j \in 1..Len(messages[q]) : messages[q][j] = p[1] /\ ~ToCome(t, q, j)'
        BY <1>3 DEF Behind
      <4>3. j # n + 1
        BY <1>8, <1>14, <2>3, <4>1, <4>2
      <4> QED BY <3>6, <4>1, <4>2, <4>3 DEF Behind
    <3> QED BY <3>1, <3>2, <3>7
  <2> QED BY <1>3, <1>9, <1>10, <2>2, <2>4, <2>5, <2>6, CalmFrame
<1>15. CASE q = o /\ replies[r] # <<>>
  <2>1. PICK x \in Unread(q) : Unread(q)' \subseteq Unread(q) \ {x}
    BY <1>2, <1>3, <1>4, <1>5, <1>15, OneTaken
  <2>2. Cardinality(Unread(q)') + 1 <= Cardinality(Unread(q))
    BY <2>1, Counted, OneLess
  <2>3. Cardinality(Awake(q)) - 1 <= Cardinality(Awake(q)')
    <3>1. t \in Awake(q)
      BY <1>1, <1>6, <1>8, <1>15 DEF Awake
    <3>2. IsFiniteSet(Awake(q)) /\ IsFiniteSet(Awake(q)')
      BY Counted
    <3>3. /\ Cardinality(Awake(q) \ {t}) = Cardinality(Awake(q)) - 1
          /\ Cardinality(Awake(q) \ {t}) \in Nat
      BY <3>1, <3>2, FS_RemoveElement, FS_CardinalityType
    <3>4. Cardinality(Awake(q) \ {t}) <= Cardinality(Awake(q)')
      BY <1>11, <3>2, NoMore
    <3> QED BY <3>3, <3>4
  <2>4. Cardinality(Coming(q)) <= Cardinality(Coming(q)')
    BY <1>10, Counted, NoMore
  <2>5. \A p \in Unread(q)' : p[1] \in overlooked => p[1] \in overlooked'
    <3> SUFFICES ASSUME NEW p \in Unread(q)', Len(replies[r]) <= 1 PROVE p[1] # r
      BY <1>3
    <3>1. Len(replies'[r]) = 0
      <4>1. Len(Tail(replies[r])) = 0
        BY <1>4, <1>15, ShortTail
      <4>2. replies'[r] = Tail(replies[r])
        BY <1>4, <1>15
      <4> QED BY <4>1, <4>2, Zenon
    <3>2. PICK s \in Requests : \E k \in 1..Len(replies'[s]) : p = <<s, k>>
      BY UnreadAfter
    <3>3. PICK k \in 1..Len(replies'[s]) : p = <<s, k>>
      BY <3>2
    <3> QED BY <3>1, <3>3
  <2>6. Wanted(Unread(q))' \subseteq Wanted(Unread(q))
    BY <2>1, <2>5 DEF Wanted
  <2>0. /\ Cardinality(Unread(q)) \in Nat /\ Cardinality(Unread(q)') \in Nat
        /\ Cardinality(Awake(q)) \in Nat /\ Cardinality(Awake(q)') \in Nat
        /\ Cardinality(Coming(q)) \in Nat /\ Cardinality(Coming(q)') \in Nat
        /\ Len(waiting[q]) \in Nat
    BY Numbers
  <2>7. Enough(q)'
    <3>1. CASE Cardinality(Unread(q)) <= Cardinality(Awake(q)) + Cardinality(Coming(q))
      <4>1. Cardinality(Unread(q)') <= Cardinality(Awake(q)') + Cardinality(Coming(q)')
        BY <2>0, <2>2, <2>3, <2>4, <3>1
      <4> QED BY <4>1 DEF Enough
    <3>2. CASE Len(waiting[q]) <= Cardinality(Coming(q))
      <4>1. Len(waiting'[q]) <= Cardinality(Coming(q)')
        BY <1>3, <2>0, <2>4, <3>2
      <4> QED BY <4>1 DEF Enough
    <3>3. CASE Wanted(Unread(q)) = {} /\ Len(waiting[q]) <= Cardinality(Coming(q)) + 1
      <4>1. Len(waiting'[q]) <= Cardinality(Coming(q)') + 1
        BY <1>3, <2>0, <2>4, <3>3
      <4>2. Wanted(Unread(q))' = {}
        BY <2>6, <3>3
      <4> QED BY <4>1, <4>2 DEF Enough
    <3>4. CASE waiting[q] = <<>>
      BY <1>3, <3>4 DEF Enough
    <3> QED BY <1>9, <3>1, <3>2, <3>3, <3>4 DEF Calm, Enough
  <2>8. ASSUME NEW b \in Readers PROVE ~Scanning(b, q)'
    <3>1. reader'[t].rfcMsg # NoReply
      <4>1. NoReply \notin Replies
        BY AgentAssumption DEF AgentAssumption, NoReply, Replies, TimedOut
      <4>2. Head(replies[r]) \in Replies
        BY <1>4, <1>15
      <4> QED BY <1>4, <1>15, <4>1, <4>2
    <3>2. ~Scanning(t, q)'
      BY <3>1 DEF Scanning
    <3> QED BY <1>12, <1>15, <3>2
  <2> QED BY <2>7, <2>8 DEF Calm
<1> QED BY <1>13, <1>14, <1>15

\* Who looks at a request reads the queue that is its home.
LEMMA CheckedAtHome ==
  ASSUME BaseInv, HomeInv, NEW t \in Readers, at[t] = "check", NEW r \in Requests, info[t] = r
  PROVE  agent[r] = reader[t].queue /\ reader[t].queue \in Queues
<1>1. reader[t].queue \in Queues
  BY DEF BaseInv, TypeOK, PlacesInv, ReadersOK
<1>2. agent[info[t]] = reader[t].queue
  BY DEF HomeInv, InTheMonitor
<1> QED BY <1>1, <1>2

\* A request without replies leaves its list.
LEMMA UnreadDrop ==
  ASSUME BaseInv, NEW q \in Queues,
         \A s \in Requests : Listed(messages', q, s) => Listed(messages, q, s),
         \A s \in Requests : replies'[s] = replies[s] \/ replies'[s] = <<>>
  PROVE  Unread(q)' \subseteq Unread(q)
<1> SUFFICES ASSUME NEW p \in Unread(q)' PROVE p \in Unread(q)
  OBVIOUS
<1>1. PICK s \in Requests : /\ Listed(messages', q, s)
                            /\ \E k \in 1..Len(replies'[s]) : p = <<s, k>>
  BY UnreadAfter
<1>2. PICK k \in 1..Len(replies'[s]) : p = <<s, k>>
  BY <1>1
<1>3. replies'[s] = replies[s]
  <2>1. replies'[s] # <<>>
    <3>1. ASSUME replies'[s] = <<>> PROVE FALSE
      <4>1. Len(replies'[s]) = 0
        BY <3>1
      <4> QED BY <1>2, <4>1
    <3> QED BY <3>1
  <2> QED BY <2>1
<1>4. Listed(messages, q, s) /\ k \in 1..Len(replies[s])
  BY <1>1, <1>2, <1>3
<1> QED BY <1>2, <1>4, UnreadIs DEF Unread

\* Who looks at a request has nothing of its list behind it that is wanted, when the
\* request leaves the list, but what it had behind it: the list closes up, and the
\* request that comes to the place that the search has passed misses its turn.
LEMMA BehindDrop ==
  ASSUME BaseInv, BaseInv', NEW q \in Queues, NEW t \in Readers, at[t] = "check", at'[t] # "check",
         reader[t].queue = q, UNCHANGED reader, Unread(q)' \subseteq Unread(q),
         NEW p \in 1..Len(messages[q]), Removal(q, p),
         overlooked' = overlooked \cup
           {messages[q][k] : k \in {reader[t].next + 1} \cap DOMAIN messages[q]}
  PROVE  Wanted(Behind(t, q))' \subseteq Wanted(Behind(t, q))
<1> SUFFICES ASSUME NEW x \in Behind(t, q)', x[1] \notin overlooked'
             PROVE  x \in Behind(t, q) /\ x[1] \notin overlooked
  BY DEF Wanted
<1> DEFINE L == Len(messages[q])
           m == reader[t].next
<1>1. /\ L \in Nat /\ m \in Nat /\ DOMAIN messages[q] = 1..L
      /\ reader[t].i \in Nat /\ Len(messages'[q]) = L - 1
      /\ \A i \in 1..(L - 1) :
           messages'[q][i] = IF i < p THEN messages[q][i] ELSE messages[q][i + 1]
  <2>1. messages[q] \in Seq(Requests) /\ reader[t].i \in Nat /\ m \in Nat
    BY DEF BaseInv, TypeOK
  <2>2. L \in Nat /\ DOMAIN messages[q] = 1..L
    BY <2>1
  <2> QED BY <2>1, <2>2 DEF Removal
<1>2. PICK j \in 1..(L - 1) : messages'[q][j] = x[1] /\ ~ToCome(t, q, j)'
  BY <1>1 DEF Behind
<1>3. p \in 1..L /\ m = reader[t].next
  OBVIOUS
<1> DEFINE i == IF j < p THEN j ELSE j + 1
<1>4. i \in 1..L /\ messages[q][i] = x[1] /\ i = IF j < p THEN j ELSE j + 1
  <2> HIDE DEF L
  <2> QED BY <1>1, <1>2, <1>3
<1> HIDE DEF i, L, m
<1>5. i # m + 1
  <2>1. ASSUME i = m + 1 PROVE FALSE
    <3>1. m + 1 \in {m + 1} \cap DOMAIN messages[q]
      BY <1>1, <1>4, <2>1
    <3>2. messages[q][m + 1] \in overlooked'
      BY <3>1 DEF m
    <3> QED BY <1>4, <2>1, <3>2
  <2> QED BY <2>1
<1>6. Left(t, q) \in Int /\ Left(t, q)' = Left(t, q)
  <2>1. Left(t, q) = L - reader[t].i - 1
    BY DEF Left, L
  <2>2. Left(t, q)' = Len(messages'[q]) - reader[t].i - 0
    BY DEF Left
  <2> QED BY <1>1, <2>1, <2>2
<1>7. /\ InTurn(t) = IF m >= L THEN 0 ELSE m
      /\ InTurn(t)' = IF m >= L - 1 THEN 0 ELSE m
  BY <1>1 DEF InTurn, L, m
<1>8. ~ToCome(t, q, i)
  <2>1. ASSUME Within(i, IF m >= L THEN 0 ELSE m, L, Left(t, q))
        PROVE  Within(j, IF m >= L - 1 THEN 0 ELSE m, L - 1, Left(t, q))
    BY <1>1, <1>2, <1>3, <1>4, <1>5, <1>6, <2>1, WithinDrop
  <2>2. ToCome(t, q, j)' <=> Within(j, IF m >= L - 1 THEN 0 ELSE m, L - 1, Left(t, q))
    BY <1>1, <1>6, <1>7 DEF ToCome
  <2>3. ToCome(t, q, i) <=> Within(i, IF m >= L THEN 0 ELSE m, L, Left(t, q))
    BY <1>7 DEF ToCome, L
  <2> QED BY <1>2, <2>1, <2>2, <2>3
<1>9. x \in Unread(q) /\ x[1] \notin overlooked
  BY DEF Behind
<1> QED BY <1>4, <1>8, <1>9 DEF Behind, L

LEMMA SleepDrop ==
  ASSUME BaseInv, BaseInv', HomeInv, FewThreads, PulsesInv, SleepInv,
         NEW t \in Readers, Drop(t)
  PROVE  SleepInv'
<1> DEFINE o == reader[t].queue
           r == info[t]
           list == messages[o]
<1>1. /\ (Moves(t, "aim") \/ Moves(t, "looked")) /\ at[t] = "check"
      /\ at'[t] = IF waitForReply[r] THEN "aim" ELSE "looked"
  BY GotoMoves, Kinds DEF BaseInv, Drop, Places, Moves
<1>2. /\ o \in Queues /\ r \in Requests /\ agent[r] = o
      /\ \/ \E p \in 1..Len(list) : list[p] = r /\ Removal(o, p)
         \/ UNCHANGED messages /\ \A k \in 1..Len(list) : list[k] # r
  BY DropFacts
<1>3. /\ UNCHANGED <<waiting, agent, info, target, reader>>
      /\ Abandon(r, [messages EXCEPT ![o] = RemoveFirst(@, r)])
      /\ replies[r] = <<>>
      /\ overlooked' = overlooked \cup {list[k] : k \in {reader[t].next + 1} \cap DOMAIN list}
  BY DEF Drop, monitors, locals, Finished
<1>4. o = reader[t].queue /\ r = info[t] /\ list = messages[o]
  OBVIOUS
<1> HIDE DEF o, r, list
<1>5. \A q \in Queues, s \in Requests :
        Listed(messages', q, s) <=> Listed(messages, q, s) /\ s # r
  <2>1. CASE \E p \in 1..Len(list) : list[p] = r /\ Removal(o, p)
    BY <1>2, <1>4, <2>1, RemovalUnlists
  <2>2. CASE UNCHANGED messages /\ \A k \in 1..Len(list) : list[k] # r
    BY <1>2, <1>4, <2>2 DEF HomeInv, Listed
  <2> QED BY <1>2, <2>1, <2>2
<1>6. \A s \in Requests : replies'[s] = replies[s]
  <2>1. /\ \A s \in Requests \ {r} : replies'[s] = replies[s]
        /\ replies'[r] \in {replies[r], <<>>}
    BY <1>2, <1>3, AbandonFacts DEF BaseInv
  <2> QED BY <1>3, <2>1
<1>7. /\ \A b \in Threads : b # t => at'[b] = at[b]
      /\ at'[t] \in {"aim", "looked"}
  BY <1>1 DEF Moves
<1> SUFFICES ASSUME NEW q \in Queues PROVE Calm(q)'
  BY DEF SleepInv
<1>8. Calm(q)
  BY DEF SleepInv
<1>9. Coming(q) \subseteq Coming(q)'
  <2>1. t \notin Coming(q)
    BY DEF Coming
  <2> QED BY <1>3, <1>5, <1>7, <2>1, ComingStays
<1>10. Awake(q) \subseteq Awake(q)'
  <2> SUFFICES ASSUME NEW b \in Awake(q) PROVE at'[b] # "wait"
    BY <1>3 DEF Awake
  <2> QED BY <1>7, Kinds DEF Awake
<1>11. Unread(q)' \subseteq Unread(q)
  BY <1>5, <1>6, UnreadDrop
<1>12. ASSUME NEW b \in Readers, b # t, Scanning(b, q)'
       PROVE  Scanning(b, q) /\ (Deciding(b)' => Deciding(b)) /\ q # o
  <2>1. reader'[b] = reader[b] /\ at'[b] = at[b]
    BY <1>3, <1>7, <1>12, Kinds
  <2>2. Scanning(b, q) /\ (Deciding(b)' => Deciding(b))
    BY <1>12, <2>1 DEF Scanning, Deciding
  <2>3. q # o
    BY <1>1, <1>4, <1>12, <2>2, AloneInTheMonitor DEF Scanning, InTheMonitor
  <2> QED BY <2>2, <2>3
<1>13. \A s \in overlooked : s \in overlooked'
  BY <1>3
<1>14. CASE q # o
  <2>1. messages'[q] = messages[q]
    BY <1>2, <1>14 DEF Removal
  <2>2. ASSUME NEW b \in Readers, Scanning(b, q)'
        PROVE  /\ Scanning(b, q) /\ (Deciding(b)' => Deciding(b))
               /\ \A j \in 1..Len(messages[q]) : ToCome(b, q, j) => ToCome(b, q, j)'
    <3>1. b # t /\ reader[b].queue = q /\ reader'[b] = reader[b]
      BY <1>3, <1>4, <1>14, <2>2 DEF Scanning
    <3>2. at'[b] = at[b]
      BY <1>7, <3>1, Kinds
    <3>3. InTurn(b)' = InTurn(b)
      BY <2>1, <3>1 DEF InTurn
    <3>4. Left(b, q)' = Left(b, q)
      BY <2>1, <3>1, <3>2 DEF Left
    <3> QED BY <1>12, <2>1, <2>2, <3>1, <3>3, <3>4 DEF ToCome
  <2> QED BY <1>3, <1>6, <1>8, <1>9, <1>10, <1>13, <2>1, <2>2, CalmStill
<1>15. CASE q = o /\ UNCHANGED messages
  <2>1. ASSUME NEW b \in Readers, Scanning(b, q)'
        PROVE  /\ Scanning(b, q) /\ (Deciding(b)' => Deciding(b))
               /\ \A j \in 1..Len(messages[q]) : ToCome(b, q, j) => ToCome(b, q, j)'
    <3>1. b = t
      BY <1>12, <1>15, <2>1
    <3>2. Scanning(t, q) /\ Deciding(t)
      BY <1>1, <1>3, <2>1, <3>1 DEF Scanning, InTheMonitor, Deciding
    <3>3. /\ Len(messages[q]) \in Nat /\ reader[t].i \in Nat /\ InTurn(t) \in Nat
          /\ InTurn(t)' = InTurn(t)
      <4>1. /\ messages[q] \in Seq(Requests) /\ reader[t].i \in Nat /\ reader[t].next \in Nat
        BY DEF BaseInv, TypeOK
      <4>2. Len(messages[q]) \in Nat
        BY <4>1
      <4>3. InTurn(t) \in Nat /\ InTurn(t)' = InTurn(t)
        BY <1>3, <1>15, <4>1 DEF InTurn
      <4> QED BY <4>1, <4>2, <4>3
    <3>4. Left(t, q) \in Int /\ Left(t, q)' = Left(t, q) + 1
      <4>1. Left(t, q) = Len(messages[q]) - reader[t].i - 1
        BY <1>1 DEF Left
      <4>2. Left(t, q)' = Len(messages[q]) - reader[t].i - 0
        BY <1>3, <1>7, <1>15 DEF Left
      <4> QED BY <3>3, <4>1, <4>2
    <3>5. ASSUME NEW j \in 1..Len(messages[q]), ToCome(t, q, j)
          PROVE  ToCome(t, q, j)'
      <4>1. Within(j, InTurn(t), Len(messages[q]), Left(t, q))
        BY <3>5 DEF ToCome
      <4>2. Within(j, InTurn(t), Len(messages[q]), Left(t, q) + 1)
        BY <3>3, <3>4, <4>1 DEF Within
      <4> QED BY <1>15, <3>3, <3>4, <4>2 DEF ToCome
    <3> QED BY <3>1, <3>2, <3>5
  <2> QED BY <1>3, <1>6, <1>8, <1>9, <1>10, <1>13, <1>15, <2>1, CalmStill
<1>16. CASE q = o /\ \E p \in 1..Len(list) : list[p] = r /\ Removal(o, p)
  <2>1. PICK p \in 1..Len(messages[q]) : messages[q][p] = r /\ Removal(q, p)
    BY <1>4, <1>16
  <2>2. Listed(messages, q, r)
    BY <2>1 DEF Listed
  <2>3. Enough(q)'
    BY <1>3, <1>8, <1>9, <1>10, <1>11, <1>13, EnoughFrame DEF Calm
  <2>4. \A b \in Readers : Scanning(b, q)' => b = t
    BY <1>12, <1>16
  <2>5. CASE waitForReply[r]
    <3>1. ~Deciding(t)'
      BY <1>1, <2>5 DEF Deciding
    <3>2. Wanted(Behind(t, q))' \subseteq Wanted(Behind(t, q))
      BY <1>1, <1>3, <1>4, <1>7, <1>11, <1>16, <2>1, BehindDrop
    <3>3. Scanning(t, q)' => Scanning(t, q)
      BY <1>1, <1>3 DEF Scanning, InTheMonitor
    <3>4. Scanning(t, q)' => Seen(t, q)'
      <4>1. Scanning(t, q) => Wanted(Behind(t, q)) = {} \/ Coming(q) # {}
        BY <1>8 DEF Calm, Seen
      <4>2. Scanning(t, q)' => Wanted(Behind(t, q))' = {} \/ Coming(q)' # {}
        BY <1>9, <3>2, <3>3, <4>1
      <4> QED BY <4>2 DEF Seen
    <3> QED BY <2>3, <2>4, <3>1, <3>4 DEF Calm
  <2>6. CASE ~waitForReply[r] /\ reader[t].rfcMsg # NoReply
    <3>1. ~Scanning(t, q)'
      BY <1>3, <2>6 DEF Scanning
    <3> QED BY <2>3, <2>4, <3>1 DEF Calm
  <2>7. CASE ~waitForReply[r] /\ reader[t].rfcMsg = NoReply
    <3>1. r \in TimeLimited /\ at[r] = "tell"
      <4>1. Told(r)
        BY <1>2, <2>2, <2>7 DEF PulsesInv, ToldInv
      <4>2. ASSUME NEW u \in Readers, at[u] = "check", info[u] = r, reader[u].rfcMsg # NoReply
            PROVE  FALSE
        <5>1. reader[u].queue = o
          BY <1>2, <4>2, CheckedAtHome
        <5>2. u = t
          BY <1>1, <1>4, <4>2, <5>1, AloneInTheMonitor DEF InTheMonitor
        <5> QED BY <2>7, <4>2, <5>2
      <4> QED BY <1>3, <4>1, <4>2 DEF Told
    <3>2. r \in Threads /\ r \notin Readers /\ r # t /\ info[r] = r
      BY <3>1, Kinds DEF BaseInv, PlacesInv, TimersOK
    <3>3. r \notin Coming(q)
      BY <2>2, <3>1, <3>2 DEF Coming
    <3>4. r \in Coming(q)'
      <4>1. at'[r] = "tell" /\ info'[r] = r /\ agent'[r] = q
        BY <1>2, <1>3, <1>7, <1>16, <3>1, <3>2
      <4>2. ~Listed(messages', q, r)
        BY <1>2, <1>5
      <4> QED BY <3>2, <4>1, <4>2 DEF Coming
    <3> QED BY <1>3, <1>8, <1>9, <1>10, <1>11, <1>13, <3>3, <3>4, CalmPulsed
  <2> QED BY <2>5, <2>6, <2>7
<1> QED BY <1>2, <1>14, <1>15, <1>16

LEMMA SleepSend ==
  ASSUME BaseInv, BaseInv', ReachInv, HomeInv, FewThreads, SleepInv,
         NEW r \in Requests, NEW o \in Queues, Send(r, o)
  PROVE  SleepInv'
<1>1. /\ UNCHANGED <<waiting, replies, at, info, target, reader, overlooked>>
      /\ agent[r] = None /\ o # None
      /\ \A s \in Requests : s # r => agent'[s] = agent[s]
      /\ messages[o] \in Seq(Requests) /\ messages'[o] = Append(messages[o], r)
      /\ \A q \in Queues : q # o => messages'[q] = messages[q]
  BY AgentAssumption DEF Send, Sent, monitors, locals, history, BaseInv, TypeOK, AgentAssumption
<1>2. replies[r] = <<>>
  BY <1>1 DEF ReachInv
<1>3. /\ Len(messages'[o]) = Len(messages[o]) + 1 /\ Len(messages[o]) \in Nat
      /\ \A k \in 1..Len(messages[o]) : messages'[o][k] = messages[o][k]
      /\ messages'[o][Len(messages[o]) + 1] = r
  BY <1>1
<1>4. ASSUME NEW q \in Queues, NEW s \in Requests, s # r, Listed(messages', q, s)
      PROVE  Listed(messages, q, s)
  <2>1. CASE q = o
    <3>1. PICK k \in 1..(Len(messages[o]) + 1) : messages'[o][k] = s
      BY <1>3, <1>4, <2>1 DEF Listed
    <3>2. k \in 1..Len(messages[o])
      BY <1>3, <1>4, <3>1
    <3> QED BY <1>3, <2>1, <3>1, <3>2 DEF Listed
  <2>2. CASE q # o
    BY <1>1, <1>4, <2>2 DEF Listed
  <2> QED BY <2>1, <2>2
<1> SUFFICES ASSUME NEW q \in Queues PROVE Calm(q)'
  BY DEF SleepInv
<1>5. Calm(q)
  BY DEF SleepInv
<1>6. ASSUME NEW x \in Unread(q)'
      PROVE  x \in Unread(q) /\ x[1] # r
  <2>1. PICK s \in Requests : /\ Listed(messages', q, s)
                              /\ \E k \in 1..Len(replies'[s]) : x = <<s, k>>
    BY UnreadAfter
  <2>2. PICK k \in 1..Len(replies[s]) : x = <<s, k>>
    BY <1>1, <2>1
  <2>3. s # r
    <3>1. Len(replies[r]) = 0
      BY <1>2
    <3> QED BY <2>2, <3>1
  <2>4. Listed(messages, q, s)
    BY <1>4, <2>1, <2>3
  <2>5. x \in Unread(q)
    BY <2>2, <2>4, UnreadIs DEF Unread
  <2> QED BY <2>2, <2>3, <2>5
<1>7. Awake(q) \subseteq Awake(q)'
  BY <1>1 DEF Awake
<1>8. Coming(q) \subseteq Coming(q)'
  <2> SUFFICES ASSUME NEW b \in Coming(q) PROVE b \in Coming(q)'
    OBVIOUS
  <2>1. b \in Threads \ Readers
    BY DEF Coming
  <2>2. CASE at[b] = "pulse" /\ target[b] = q
    BY <1>1, <2>1, <2>2 DEF Coming
  <2>3. CASE at[b] \in {"aim", "settle", "tell"}
    <3>1. info[b] \in Requests /\ agent[info[b]] # None
      <4>1. info[b] \in Requests \cup {None}
        BY <2>1 DEF BaseInv, TypeOK
      <4>2. CASE at[b] = "aim"
        BY <2>1, <4>1, <4>2 DEF BaseInv, PlacesInv, HandsOK
      <4>3. CASE at[b] = "settle"
        <5>1. b = "putter"
          BY <2>1, <4>3, Kinds DEF BaseInv, PlacesInv, TimersOK, UserOK
        <5> QED BY <4>1, <4>3, <5>1 DEF BaseInv, PlacesInv, PutterOK
      <4>4. CASE at[b] = "tell"
        <5>1. b \in TimeLimited
          BY <2>1, <4>4, Kinds DEF BaseInv, PlacesInv, PutterOK, UserOK
        <5>2. info[b] = b /\ agent[b] # None
          BY <4>4, <5>1 DEF BaseInv, PlacesInv, TimersOK
        <5> QED BY <5>1, <5>2, Kinds
      <4> QED BY <2>3, <4>2, <4>3, <4>4
    <3>2. info[b] # r /\ agent'[info[b]] = agent[info[b]]
      BY <1>1, <3>1
    <3>3. ~Listed(messages, q, info[b]) => ~Listed(messages', q, info[b])
      BY <1>4, <3>1, <3>2
    <3> QED BY <1>1, <2>1, <2>3, <3>2, <3>3 DEF Coming
  <2> QED BY <2>2, <2>3 DEF Coming
<1>9. ASSUME NEW b \in Readers, Scanning(b, q)'
      PROVE  /\ Scanning(b, q) /\ (Deciding(b)' => Deciding(b))
             /\ Behind(b, q)' \subseteq Behind(b, q)
  <2>1. Scanning(b, q) /\ (Deciding(b)' => Deciding(b)) /\ reader[b].queue = q
    BY <1>1, <1>9 DEF Scanning, Deciding
  <2> SUFFICES ASSUME NEW x \in Behind(b, q)' PROVE x \in Behind(b, q)
    BY <2>1
  <2>2. x \in Unread(q)' /\ x \in Unread(q) /\ x[1] # r
    BY <1>6 DEF Behind
  <2>3. PICK j \in 1..Len(messages'[q]) : messages'[q][j] = x[1] /\ ~ToCome(b, q, j)'
    BY DEF Behind
  <2>4. CASE q # o
    <3>1. messages'[q] = messages[q]
      BY <1>1, <2>4
    <3>2. ToCome(b, q, j)' <=> ToCome(b, q, j)
      BY <1>1, <2>1, <3>1 DEF ToCome, Left, InTurn
    <3> QED BY <2>2, <2>3, <3>1, <3>2 DEF Behind
  <2>5. CASE q = o
    <3> DEFINE L == Len(messages[q])
               m == reader[b].next
    <3>1. /\ L \in Nat /\ Len(messages'[q]) = L + 1
          /\ reader[b].i \in Nat /\ m \in Nat
      <4>1. reader[b].i \in Nat /\ m \in Nat
        BY DEF BaseInv, TypeOK
      <4> QED BY <1>3, <2>5, <4>1
    <3>2. InTurn(b) = (IF m >= L THEN 0 ELSE m) /\ InTurn(b)' = (IF m >= L + 1 THEN 0 ELSE m)
      BY <1>1, <2>1, <3>1 DEF InTurn
    <3>3. Left(b, q) \in Int /\ Left(b, q)' = Left(b, q) + 1
      <4> DEFINE c == IF at[b] = "check" THEN 1 ELSE 0
      <4>1. c \in Nat
        OBVIOUS
      <4>2. Left(b, q) = L - reader[b].i - c /\ Left(b, q)' = Len(messages'[q]) - reader[b].i - c
        BY <1>1 DEF Left
      <4> HIDE DEF c, L
      <4> QED BY <3>1, <4>1, <4>2
    <3> HIDE DEF L, m
    <3>4. j \in 1..L /\ messages[q][j] = x[1]
      BY <1>3, <2>2, <2>3, <2>5, <3>1 DEF L
    <3>5. ~ToCome(b, q, j)
      <4>1. ASSUME Within(j, IF m >= L THEN 0 ELSE m, L, Left(b, q))
            PROVE  Within(j, IF m >= L + 1 THEN 0 ELSE m, L + 1, Left(b, q) + 1)
        BY <3>1, <3>3, <3>4, <4>1, WithinSend
      <4>2. ToCome(b, q, j)' <=> Within(j, IF m >= L + 1 THEN 0 ELSE m, L + 1, Left(b, q) + 1)
        BY <3>1, <3>2, <3>3 DEF ToCome
      <4>3. ToCome(b, q, j) <=> Within(j, IF m >= L THEN 0 ELSE m, L, Left(b, q))
        BY <3>2 DEF ToCome, L
      <4> QED BY <2>3, <4>1, <4>2, <4>3
    <3> QED BY <2>2, <3>4, <3>5 DEF Behind, L
  <2> QED BY <2>4, <2>5
<1> QED BY <1>1, <1>5, <1>6, <1>7, <1>8, <1>9, CalmFrame

\* The user removes a request from the list outside the monitor, under the eyes of a reader
\* that walks the list, and tells one of those that wait.
LEMMA SleepAbandonOne ==
  ASSUME BaseInv, BaseInv', HomeInv, FewThreads, PulsesInv, SleepInv, TimeLimited = {}, AbandonOne
  PROVE  SleepInv'
<1> DEFINE o == user.queue
           r == info["user"]
<1>1. /\ o \in Queues /\ r \in Requests /\ agent[r] = o /\ at["user"] = "found"
      /\ Abandon(r, [messages EXCEPT ![o] = RemoveFirst(@, r)])
      /\ Moves("user", IF waitForReply[r] THEN "aim" ELSE "walk")
      /\ UNCHANGED <<waiting, agent, reader, target, info>>
  BY FoundHome
<1>2. UNCHANGED overlooked
  BY DEF AbandonOne, history
<1>3. r = info["user"]
  OBVIOUS
<1> HIDE DEF o, r
<1>4. \/ \E p \in 1..Len(messages[o]) : messages[o][p] = r /\ Removal(o, p)
      \/ UNCHANGED messages /\ \A k \in 1..Len(messages[o]) : messages[o][k] # r
  BY <1>1, RemovalOrNone
<1>5. \A q \in Queues, s \in Requests :
        Listed(messages', q, s) <=> Listed(messages, q, s) /\ s # r
  <2>1. CASE \E p \in 1..Len(messages[o]) : messages[o][p] = r /\ Removal(o, p)
    BY <1>1, <2>1, RemovalUnlists
  <2>2. CASE UNCHANGED messages /\ \A k \in 1..Len(messages[o]) : messages[o][k] # r
    BY <1>1, <2>2 DEF HomeInv, Listed
  <2> QED BY <1>4, <2>1, <2>2
<1>6. /\ \A s \in Requests \ {r} : replies'[s] = replies[s]
      /\ replies'[r] \in {replies[r], <<>>}
  BY <1>1, AbandonFacts DEF BaseInv
<1>7. /\ at'["user"] = IF waitForReply[r] THEN "aim" ELSE "walk"
      /\ \A b \in Threads : b # "user" => at'[b] = at[b]
  BY <1>1 DEF Moves
<1>8. \A b \in Readers : at'[b] = at[b]
  BY <1>7, Kinds
<1> SUFFICES ASSUME NEW q \in Queues PROVE Calm(q)'
  BY DEF SleepInv
<1>9. Calm(q) /\ "user" \notin Coming(q)
  BY <1>1 DEF SleepInv, Coming
<1>10. Coming(q) \subseteq Coming(q)'
  BY <1>1, <1>5, <1>7, <1>9, ComingStays
<1>11. CASE ~Listed(messages, q, r)
  <2>1. messages'[q] = messages[q]
    <3>1. CASE \E p \in 1..Len(messages[o]) : messages[o][p] = r /\ Removal(o, p)
      <4>1. q # o
        BY <1>11, <3>1 DEF Listed
      <4> QED BY <3>1, <4>1 DEF Removal
    <3> QED BY <1>4, <3>1
  <2>2. \A s \in Requests : Listed(messages, q, s) => replies'[s] = replies[s]
    BY <1>6, <1>11
  <2> QED BY <1>1, <1>2, <1>8, <1>9, <1>10, <2>1, <2>2, CalmReaders
<1>12. CASE Listed(messages, q, r)
  <2>1. q = o
    BY <1>1, <1>12 DEF Listed, HomeInv
  <2>2. waitForReply[r]
    BY <1>1, <1>12 DEF PulsesInv, ToldInv
  <2>3. "user" \in Coming(q)'
    <3>1. at'["user"] = "aim" /\ agent'[info'["user"]] = q
      BY <1>1, <1>3, <1>7, <2>1, <2>2
    <3> QED BY <3>1, Kinds DEF Coming
  <2>4. Unread(q)' \subseteq Unread(q)
    <3>1. \A s \in Requests : replies'[s] = replies[s] \/ replies'[s] = <<>>
      BY <1>6
    <3> QED BY <1>5, <3>1, UnreadDrop
  <2>5. Awake(q) \subseteq Awake(q)'
    BY <1>1, <1>8 DEF Awake
  <2> QED BY <1>1, <1>2, <1>9, <1>10, <2>3, <2>4, <2>5, CalmPulsed
<1> QED BY <1>11, <1>12

LEMMA InitSleep == Init => SleepInv
<1> SUFFICES ASSUME Init, NEW q \in Queues PROVE Calm(q)
  BY DEF SleepInv
<1>1. waiting[q] = <<>>
  BY DEF Init
<1>2. \A t \in Readers : ~Scanning(t, q)
  BY Kinds DEF Init, Scanning, InTheMonitor
<1> QED BY <1>1, <1>2 DEF Calm, Enough

LEMMA SleepStep ==
  ASSUME UserOps = {} \/ (UserOps \subseteq {"abandon"} /\ TimeLimited = {}), FewThreads
  PROVE  BaseInv /\ ReachInv /\ HomeInv /\ PulsesInv /\ SleepInv /\ [Next]_vars => SleepInv'
<1> SUFFICES ASSUME BaseInv, ReachInv, HomeInv, PulsesInv, SleepInv, [Next]_vars
             PROVE  SleepInv'
  OBVIOUS
<1>0. BaseInv'
  BY BaseStep
<1>1. CASE UNCHANGED vars
  <2>1. UNCHANGED <<messages, waiting, agent, replies, reader, overlooked, at, info, target>>
    BY <1>1 DEF vars, lists, monitors, locals, history
  <2>2. \A q \in Queues : "user" \in Coming(q) => "user" \in Coming(q)'
    BY <2>1 DEF Coming
  <2> QED BY <1>0, <2>1, <2>2, SleepAside, Kinds
<1>2. CASE \E r \in Requests, q \in Queues : Send(r, q)
  BY <1>0, <1>2, SleepSend
<1>3. CASE \E t \in Readers, q \in Queues : Get(t, q)
  BY <1>0, <1>3, SleepGet
<1>4. CASE \E r \in Requests : Receive(r) \/ Find(r)
  <2> PICK r \in Requests : Receive(r) \/ Find(r)
    BY <1>4
  <2>0. CASE Find(r)
    <3>1. Moves("user", "found") /\ at["user"] = "idle"
      BY <2>0, GotoMoves, Kinds DEF BaseInv, Find, Places
    <3>2. /\ UNCHANGED <<messages, waiting, agent, replies, reader, overlooked, target>>
          /\ \A b \in Threads : b # "user" => info'[b] = info[b]
      BY <2>0 DEF Find, lists, monitors, history, BaseInv, TypeOK
    <3>3. \A b \in Threads : b # "user" => at'[b] = at[b]
      BY <3>1 DEF Moves
    <3>4. \A q \in Queues : "user" \notin Coming(q)
      BY <3>1 DEF Coming
    <3> QED BY <1>0, <3>2, <3>3, <3>4, SleepAside, Kinds
  <2> SUFFICES ASSUME Receive(r)
               PROVE  SleepInv'
    BY <2>0
  <2>1. Moves("putter", "add") /\ at["putter"] = "idle"
    BY GotoMoves, Kinds DEF BaseInv, Receive, Places
  <2>2. /\ UNCHANGED <<messages, waiting, agent, replies, reader, overlooked, target>>
        /\ \A b \in Threads : b # "putter" => info'[b] = info[b]
    BY DEF Receive, lists, monitors, locals, history, BaseInv, TypeOK
  <2>3. \A b \in Threads : b # "putter" => at'[b] = at[b]
    BY <2>1 DEF Moves
  <2>4. \A q \in Queues : "putter" \notin Coming(q)
    BY <2>1 DEF Coming
  <2> QED BY <1>0, <2>2, <2>3, <2>4, SleepAside, Kinds
<1>5. CASE \E r \in TimeLimited : Fire(r)
  <2> SUFFICES ASSUME NEW r \in TimeLimited, Fire(r)
               PROVE  SleepInv'
    BY <1>5
  <2>1. Moves(r, "abandon") /\ at[r] = "idle"
    BY GotoMoves, Kinds DEF BaseInv, Fire, Places
  <2>2. UNCHANGED <<messages, waiting, agent, replies, reader, overlooked, target, info>>
    BY DEF Fire, lists, monitors, locals, history
  <2>3. \A b \in Threads : b # r => at'[b] = at[b]
    BY <2>1 DEF Moves
  <2>4. \A q \in Queues : r \notin Coming(q)
    BY <2>1 DEF Coming
  <2>5. r \in Threads /\ r \notin Readers
    BY Kinds
  <2> QED BY <1>0, <2>2, <2>3, <2>4, <2>5, SleepAside
<1>6. CASE \E q \in Queues : BeginAbandonAll(q) \/ \E from \in Queues : BeginMerge(from, q)
  BY <1>6 DEF BeginAbandonAll, BeginMerge, Begin
<1>7. ASSUME NEW t \in Readers, Reading(t) PROVE SleepInv'
  BY <1>0, <1>7, SleepEnter, SleepLook, SleepGoOn, SleepDrop, SleepWait DEF Reading
<1>8. CASE Putting
  <2>1. CASE AddReply
    <3> DEFINE r == info["putter"]
    <3>1. (Moves("putter", "settle") \/ Moves("putter", "aim")) /\ at["putter"] = "add"
      BY <2>1, GotoMoves, Kinds DEF BaseInv, AddReply, Places
    <3>2. r \in Requests /\ answered[r] \in Replies
      <4>1. r \in Requests
        BY <3>1, Kinds DEF BaseInv, TypeOK, PlacesInv, PutterOK
      <4>2. answered[r] \in 0..Answers /\ answered[r] > 0
        BY <3>1, <4>1 DEF BaseInv, TypeOK, PlacesInv, PutterOK
      <4> QED BY <4>1, <4>2, AgentAssumption DEF AgentAssumption, Replies
    <3>3. /\ UNCHANGED <<messages, waiting, agent, info, target, reader, overlooked>>
          /\ replies' = [replies EXCEPT ![r] = Append(@, answered[r])]
      BY <2>1 DEF AddReply, lists, monitors, locals, history
    <3>4. /\ at'["putter"] \in {"aim", "settle"}
          /\ \A b \in Threads : b # "putter" => at'[b] = at[b]
      BY <3>1 DEF Moves
    <3>5. "putter" \in Threads /\ "putter" \notin Readers
      BY Kinds
    <3> QED BY <1>0, <3>1, <3>2, <3>3, <3>4, <3>5, SleepReply
  <2>2. CASE Settle
    <3>1. Moves("putter", "aim") /\ at["putter"] = "settle"
      BY <2>2, GotoMoves, Kinds DEF BaseInv, Settle, Places
    <3>2. UNCHANGED <<messages, waiting, agent, replies, reader, overlooked, target, info>>
      BY <2>2 DEF Settle, lists, monitors, locals, history
    <3>3. at'["putter"] = "aim" /\ \A b \in Threads : b # "putter" => at'[b] = at[b]
      BY <3>1 DEF Moves
    <3>4. \A q \in Queues : "putter" \in Coming(q) => "putter" \in Coming(q)'
      BY <3>1, <3>2, <3>3 DEF Coming
    <3> QED BY <1>0, <3>2, <3>3, <3>4, SleepAside, Kinds
  <2> QED BY <1>8, <2>1, <2>2 DEF Putting
<1>9. ASSUME NEW r \in TimeLimited, Informing(r) PROVE SleepInv'
  <2>0. r \in Threads /\ r \notin Readers /\ r \in Requests
    BY Kinds
  <2>1. CASE AbandonInforming(r)
    <3>1. (Moves(r, "tell") \/ Moves(r, "end")) /\ at[r] = "abandon"
      BY <2>1, GotoMoves, Kinds DEF BaseInv, AbandonInforming, Places
    <3>2. UNCHANGED <<messages, waiting, agent, replies, reader, overlooked, target, info>>
      BY <2>1 DEF AbandonInforming, lists, monitors, locals, history
    <3>3. \A b \in Threads : b # r => at'[b] = at[b]
      BY <3>1 DEF Moves
    <3>4. \A q \in Queues : r \notin Coming(q)
      BY <3>1 DEF Coming
    <3> QED BY <1>0, <2>0, <3>2, <3>3, <3>4, SleepAside
  <2>2. CASE Tell(r)
    <3>1. Moves(r, "aim") /\ at[r] = "tell"
      BY <2>2, GotoMoves, Kinds DEF BaseInv, Tell, Places
    <3>2. /\ UNCHANGED <<messages, waiting, agent, info, target, reader, overlooked>>
          /\ replies' = [replies EXCEPT ![r] = Append(@, TimedOut)] /\ TimedOut \in Replies
      BY <2>2 DEF Tell, lists, monitors, locals, history, Replies
    <3>3. at'[r] = "aim" /\ \A b \in Threads : b # r => at'[b] = at[b]
      BY <3>1 DEF Moves
    <3>4. info[r] = r
      BY DEF BaseInv, PlacesInv, TimersOK
    <3> QED BY <1>0, <2>0, <3>1, <3>2, <3>3, <3>4, SleepReply
  <2> QED BY <1>9, <2>1, <2>2 DEF Informing
<1>10. CASE Using
  <2>0. CASE AbandonOne
    <3>1. UserOps # {}
      BY <2>0 DEF AbandonOne, HomeInv
    <3> QED BY <1>0, <2>0, <3>1, SleepAbandonOne
  <2> SUFFICES ASSUME Walk
               PROVE  SleepInv'
    BY <1>10, <2>0 DEF Using, MergeAdd, MergeName, MergePulse, HomeInv
  <2>2. user.i \in Nat /\ Len(user.list) = 0
    BY DEF HomeInv, BaseInv, TypeOK
  <2>3. /\ Goto("user", "end") /\ at["user"] = "walk"
        /\ UNCHANGED <<messages, waiting, agent, replies, reader, overlooked, target, info>>
    BY <2>2 DEF Walk, monitors, history
  <2>4. Moves("user", "end")
    BY <2>3, GotoMoves, Kinds DEF BaseInv, Places
  <2>5. \A b \in Threads : b # "user" => at'[b] = at[b]
    BY <2>4 DEF Moves
  <2>6. \A q \in Queues : "user" \notin Coming(q)
    BY <2>3 DEF Coming
  <2> QED BY <1>0, <2>3, <2>5, <2>6, SleepAside, Kinds
<1>11. ASSUME NEW t \in Threads, Aim(t) \/ Pulse(t) PROVE SleepInv'
  BY <1>0, <1>11, SleepAim, SleepPulse
<1>12. CASE \E t \in Threads : Step(t)
  BY <1>7, <1>8, <1>9, <1>10, <1>11, <1>12 DEF Step
<1> QED
  BY <1>1, <1>2, <1>3, <1>4, <1>5, <1>6, <1>12 DEF Next

\* If some wait and a reply is wanted, there is one that will look.
LEMMA CalmHeard ==
  ASSUME BaseInv, FewThreads, SleepInv
  PROVE  NoReplySleptOver
<1> SUFFICES ASSUME NEW q \in Queues, waiting[q] # <<>>, Awaited(q)
             PROVE  WillLook(q)
  BY DEF NoReplySleptOver
<1>1. PICK r \in Requests : /\ Listed(messages, q, r) /\ r \notin overlooked
                            /\ replies[r] # <<>>
  <2>1. messages[q] \in Seq(Requests)
    BY DEF BaseInv, TypeOK
  <2> QED BY <2>1 DEF Awaited, ToSet, Listed
<1>2. <<r, 1>> \in Unread(q) /\ <<r, 1>> \in Wanted(Unread(q))
  <2>1. replies[r] \in Seq(Replies)
    BY DEF BaseInv, TypeOK
  <2>2. 1 \in 1..Len(replies[r])
    BY <1>1, <2>1, EmptySeq
  <2>3. <<r, 1>> \in Unread(q)
    BY <1>1, <2>2, UnreadIs DEF Unread
  <2> QED BY <1>1, <2>3 DEF Wanted
<1>3. IsFiniteSet(Unread(q))
  <2>1. messages \in [Queues -> Seq(Requests)] /\ replies \in [Requests -> Seq(Replies)]
    BY DEF BaseInv, TypeOK
  <2> QED BY <2>1, UnreadFinite DEF Unread
<1>4. Cardinality(Unread(q)) \in Nat /\ Cardinality(Unread(q)) # 0
  BY <1>2, <1>3, FS_CardinalityType, FS_EmptySet
<1>5. Len(waiting[q]) \in Nat /\ Len(waiting[q]) # 0
  <2>1. waiting[q] \in Seq(Readers)
    BY DEF BaseInv, TypeOK
  <2> QED BY <2>1, EmptySeq
<1>6. Awake(q) # {} \/ Coming(q) # {}
  <2> SUFFICES ASSUME Awake(q) = {}, Coming(q) = {} PROVE FALSE
    OBVIOUS
  <2>1. Cardinality(Awake(q)) = 0 /\ Cardinality(Coming(q)) = 0
    BY FS_EmptySet
  <2>2. Enough(q)
    BY DEF SleepInv, Calm
  <2>3. CASE Cardinality(Unread(q)) <= Cardinality(Awake(q)) + Cardinality(Coming(q))
    BY <1>4, <2>1, <2>3
  <2>4. CASE Len(waiting[q]) <= Cardinality(Coming(q))
    BY <1>5, <2>1, <2>4
  <2> QED BY <1>2, <2>2, <2>3, <2>4 DEF Enough
<1>7. CASE Awake(q) # {}
  BY <1>7 DEF Awake, WillLook
<1>8. CASE Coming(q) # {}
  <2>1. PICK t \in Threads \ Readers :
          \/ at[t] \in {"aim", "settle", "tell"} /\ agent[info[t]] = q
          \/ target[t] = q
    BY <1>8 DEF Coming
  <2> QED BY <2>1 DEF WillLook
<1> QED BY <1>6, <1>7, <1>8

\* One Pulse for each reply is enough: where requests are read and time out, and where
\* they have no time limit and are abandoned one by one, no reader sleeps beside a reply
\* it could take unless another is awake or a pulse is on its way, whatever order the
\* replies are taken in.  AbandonAll and merge break this, and so does the abandoning
\* of a request that has timed out: see the README.
THEOREM Heard ==
  ASSUME UserOps = {} \/ (UserOps \subseteq {"abandon"} /\ TimeLimited = {}),
         IsFiniteSet(Readers), IsFiniteSet(TimeLimited)
  PROVE  Spec => []NoReplySleptOver
<1>0. UserOps \subseteq {"abandon"}
  OBVIOUS
<1>1. Init => ReachInv
  BY Kinds DEF Init, ReachInv
<1>2. FewThreads
  BY DEF FewThreads
<1>3. BaseInv /\ HomeInv /\ [Next]_vars => HomeInv'
  BY <1>0, HomeStep
<1>4. BaseInv /\ HomeInv /\ PulsesInv /\ [Next]_vars => PulsesInv'
  BY <1>0, PulsesStep
<1>5. BaseInv /\ ReachInv /\ HomeInv /\ PulsesInv /\ SleepInv /\ [Next]_vars => SleepInv'
  BY <1>2, SleepStep
<1>6. BaseInv /\ SleepInv => NoReplySleptOver
  BY <1>2, CalmHeard
<1> QED
  BY <1>1, <1>3, <1>4, <1>5, <1>6, InitHome, InitPulses, InitSleep, BaseAlways, ReachStep,
     PTL DEF Spec

=============================================================================
