------------------------- MODULE LdapMessageProofs -------------------------
(***************************************************************************)
(* Whatever the timer, other application threads and Dispose do, and       *)
(* however many answers the server sends, the answers of a request reach   *)
(* the application in order, none twice and none left out.                 *)
(*                                                                         *)
(* The argument: what the application got, the reply in its hands and the  *)
(* replies in the queue together are the answers 1..m, in order, and m is  *)
(* as far as the reader has come (Chain).  Only an abandon empties the     *)
(* queue, and then either the application can take nothing more (Cut) or   *)
(* the reader is not about to add to what was thrown away: that last fact  *)
(* needs the agent's lock, which keeps an abandon and a caller in          *)
(* getLdapMessage apart (Awake, NoLateAdd).                                *)
(*                                                                         *)
(* The last part shows that a search request is the queue that             *)
(* LdapSearchResults is built on (IsQueue).                                *)
(***************************************************************************)
EXTENDS MessageAsQueue, FiniteSetTheorems, TLAPS

\* The sequence s holds exactly the answers in lo+1..hi, in order, among other
\* responses, which are not positive.
Holds(s, lo, hi) ==
  /\ \A k \in 1..Len(s) : s[k] > 0 => s[k] > lo /\ s[k] <= hi
  /\ \A k, l \in 1..Len(s) : k < l /\ s[k] > 0 /\ s[l] > 0 => s[k] < s[l]
  /\ \A v \in (lo + 1)..hi : \E k \in 1..Len(s) : s[k] = v

HasAnswer == \E k \in 1..Len(replies) : replies[k] > 0

\* The caller has a reply in its hands, or found none, and has not returned.
Holding == pc["caller"] \in {"check", "return"} \cup AbandonPlaces

\* The caller will take nothing from the queue any more.
Cut ==
  /\ pc["caller"] # "start"
  /\ \/ ById /\ ~waitForReply
     \/ ~inAgent /\ pc["caller"] \notin {"read", "waitAny", "waitId"}

\* The last answer the caller has got or has in its hands, when n is the last
\* one it got.
Taken(n) == IF Holding /\ rfcMsg > 0 THEN n + 1 ELSE n

InQueue(d) ==
  \E m \in 0..Answers :
    /\ d <= m /\ m <= answered
    /\ Holds(replies, d, m)
    /\ At("reader", "add") => m = answered - 1
    /\ m < answered /\ ~At("reader", "add") => ~inConn \/ ~acceptReplies

ChainAt(n) ==
  /\ Holds(got, 0, n)
  /\ Holding /\ rfcMsg > 0 => rfcMsg = n + 1
  /\ Cut \/ InQueue(Taken(n))

Chain == \E n \in 0..Answers : ChainAt(n)

\* What the places of the threads say about the request.
Stages ==
  /\ pc["caller"] = "start" => ~inConn /\ answered = 0
  /\ pc["caller"] = "waitId" => ById
  /\ pc["caller"] = "waitAny" => ~ById
  /\ pc["caller"] \in AbandonPlaces => ~inAgent
  /\ pc["abandoner"] \in AbandonPlaces => ~inAgent
  /\ pc["abandoner"] \in AbandonPlaces \cup {"found"} => pc["caller"] # "start"
  /\ pc["abandoner"] \in AbandonPlaces \ {"abandon"} => ~acceptReplies
  /\ pc["abandoner"] \in AbandonPlaces \ {"abandon", "ignore"} => ~waitForReply
  /\ pc["reader"] = "add" => answered > 0
  /\ pc["reader"] \in {"stop", "complete", "bindprops", "free"} => answered = Answers
  /\ complete => answered = Answers /\ pc["reader"] # "add"

\* A caller that asked for any message and is about to wait, or waits, beside
\* an answer still has the reader between adding and pulsing.
Awake ==
  /\ ~ById
  /\ At("caller", "waitAny") \/ (Holding /\ rfcMsg = Nothing)
  /\ HasAnswer
  => pc["reader"] \notin {"idle", "add"}

\* An abandon that is about to empty the queue of a caller that will read it
\* meets no reader that is about to add the next answer.
NoLateAdd ==
  /\ ~ById
  /\ At("caller", "read")
  /\ pc["abandoner"] \in {"tell", "pulse", "pulseAgent", "cleanup"}
  /\ HasAnswer
  => pc["reader"] # "add"

OrderInv == TypeOK /\ Stages /\ Awake /\ NoLateAdd /\ Chain

-----------------------------------------------------------------------------
Proceeds(a) ==
  \/ AbandonIgnore(a) \/ AbandonIncomplete(a) \/ AbandonBindProps(a) \/ WriteAbandon(a)

Quiet(a) ==
  AbandonEnter(a) \/ Proceeds(a) \/ AbandonFree(a) \/ AbandonUnlink(a)

LEMMA Cases ==
  ASSUME [Next]_vars
  PROVE  \/ Send \/ Receive \/ UserFinds \/ UserAbandons \/ Dispose
         \/ StartTimer \/ EnterGet \/ ReadById \/ ReadAny \/ Check \/ Return
         \/ AddReply \/ StopAccepting \/ Complete \/ BindProps \/ FreeAfterBind
         \/ TimerSleeps \/ TimerFires
         \/ \E a \in Actors : Quiet(a) \/ AbandonTell(a) \/ Cleanup(a)
                                \/ PulseReplies(a) \/ PulseAgent(a)
         \/ UNCHANGED vars
BY DEF Next, Step, CallerStep, PutReply, Abandon, Awaken, Quiet, Proceeds

LEMMA InitOrder == Init => OrderInv
<1> SUFFICES ASSUME Init PROVE OrderInv
  OBVIOUS
<1>1. FlagsOK
  BY DEF Init, FlagsOK
<1>2. RepliesOK
  BY ConstantsAssumption DEF Init, RepliesOK
<1>3. PlacesOK /\ Stages
  BY DEF Init, PlacesOK, Stages, Actors, Places, AbandonPlaces
<1>4. Awake /\ NoLateAdd
  BY DEF Init, Awake, NoLateAdd, HasAnswer
<1>5. Holds(got, 0, 0) /\ Holds(replies, 0, 0)
  BY DEF Init, Holds
<1>6. InQueue(0)
  BY <1>5, ConstantsAssumption DEF Init, InQueue, Actors, At
<1>7. Chain
  BY <1>5, <1>6, ConstantsAssumption DEF Init, Chain, ChainAt, Taken, Nothing
<1> QED
  BY <1>1, <1>2, <1>3, <1>4, <1>7 DEF OrderInv, TypeOK

-----------------------------------------------------------------------------
LEMMA FlagsPreserved ==
  ASSUME FlagsOK, [Next]_vars
  PROVE  FlagsOK'
<1> USE DEF FlagsOK, flags, lists, TimerStarted
<1>1. CASE Send \/ Receive \/ UserFinds \/ UserAbandons \/ Dispose
  BY <1>1, ConstantsAssumption DEF Send, Receive, UserFinds, UserAbandons, Dispose
<1>2. CASE StartTimer \/ EnterGet \/ ReadById \/ ReadAny \/ Check \/ Return
  BY <1>2, ZenonT(40) DEF StartTimer, EnterGet, ReadById, ReadAny, Pop, PopFails, PopNothing,
     Check, Return
<1>3. CASE AddReply \/ StopAccepting \/ Complete \/ BindProps \/ FreeAfterBind
  BY <1>3 DEF AddReply, StopAccepting, Complete, BindProps, FreeAfterBind, FreeBind
<1>4. CASE TimerSleeps \/ TimerFires
  BY <1>4 DEF TimerSleeps, TimerFires
<1>5. ASSUME NEW a \in Actors, Quiet(a) \/ AbandonTell(a) \/ Cleanup(a) PROVE FlagsOK'
  <2>1. CASE AbandonEnter(a) \/ Proceeds(a)
    BY <2>1 DEF AbandonEnter, Proceeds, AbandonIgnore, AbandonIncomplete, AbandonBindProps,
       WriteAbandon
  <2>2. CASE AbandonFree(a)
    BY <2>2 DEF AbandonFree, FreeBind
  <2>3. CASE AbandonUnlink(a)
    BY <2>3 DEF AbandonUnlink
  <2>4. CASE AbandonTell(a) \/ Cleanup(a)
    BY <2>4 DEF AbandonTell, Cleanup
  <2> QED
    BY <1>5, <2>1, <2>2, <2>3, <2>4 DEF Quiet
<1>6. ASSUME NEW a \in Actors, PulseReplies(a) \/ PulseAgent(a) PROVE FlagsOK'
  BY <1>6 DEF PulseReplies, PulseAgent
<1>7. CASE UNCHANGED vars
  BY <1>7 DEF vars
<1> QED
  BY <1>1, <1>2, <1>3, <1>4, <1>5, <1>6, <1>7, Cases

LEMMA RepliesPreserved ==
  ASSUME RepliesOK, At("reader", "add") => answered \in Replies, [Next]_vars
  PROVE  RepliesOK'
<1> USE DEF RepliesOK, locals
<1>1. CASE Send \/ Receive \/ UserFinds \/ UserAbandons \/ Dispose
  BY <1>1, ConstantsAssumption DEF Send, Receive, UserFinds, UserAbandons, Dispose
<1>2. CASE StartTimer \/ Check
  BY <1>2 DEF StartTimer, Check
<1>3. CASE EnterGet \/ Return
  <2>1. /\ Append(got, Nothing) \in Seq(Replies \cup {Nothing})
        /\ Append(got, rfcMsg) \in Seq(Replies \cup {Nothing})
    OBVIOUS
  <2> QED
    BY <1>3, <2>1 DEF EnterGet, Return
<1>4. CASE ReadById \/ ReadAny
  <2>1. replies # <<>> => Head(replies) \in Replies /\ Tail(replies) \in Seq(Replies)
    OBVIOUS
  <2> QED
    BY <1>4, <2>1 DEF ReadById, ReadAny, Pop, PopFails, PopNothing
<1>5. CASE AddReply \/ StopAccepting \/ Complete \/ BindProps \/ FreeAfterBind
  <2>1. CASE AddReply
    BY <2>1 DEF AddReply, At
  <2>2. CASE StopAccepting \/ Complete \/ BindProps \/ FreeAfterBind
    BY <2>2 DEF StopAccepting, Complete, BindProps, FreeAfterBind
  <2> QED
    BY <1>5, <2>1, <2>2
<1>6. CASE TimerSleeps \/ TimerFires
  BY <1>6 DEF TimerSleeps, TimerFires
<1>7. ASSUME NEW a \in Actors, AbandonTell(a) PROVE RepliesOK'
  <2>1. Informs(a) # Nothing => Informs(a) \in Replies
    BY DEF Informs, Nothing, Replies
  <2>2. Informs(a) # Nothing => Append(replies, Informs(a)) \in Seq(Replies)
    BY <2>1
  <2> QED
    BY <1>7, <2>2 DEF AbandonTell
<1>8. ASSUME NEW a \in Actors,
             Quiet(a) \/ Cleanup(a) \/ PulseReplies(a) \/ PulseAgent(a)
      PROVE  RepliesOK'
  <2>1. UNCHANGED <<answered, rfcMsg, got>> /\ replies' \in {replies, <<>>}
    BY <1>8 DEF Quiet, AbandonEnter, Proceeds, AbandonIgnore, AbandonIncomplete, AbandonBindProps,
       WriteAbandon, AbandonFree, AbandonUnlink, Cleanup, PulseReplies, PulseAgent
  <2>2. <<>> \in Seq(Replies)
    OBVIOUS
  <2> QED
    BY <2>1, <2>2
<1>9. CASE UNCHANGED vars
  BY <1>9 DEF vars
<1> QED
  BY <1>1, <1>2, <1>3, <1>4, <1>5, <1>6, <1>7, <1>8, <1>9, Cases

LEMMA PlacesPreserved ==
  ASSUME PlacesOK, [Next]_vars
  PROVE  PlacesOK'
<1> USE DEF PlacesOK, Actors, Places, AbandonPlaces, At, Goto
<1>1. CASE Send \/ Receive \/ UserFinds \/ UserAbandons
  BY <1>1 DEF Send, Receive, UserFinds, UserAbandons
<1>2. CASE Dispose
  BY <1>2 DEF Dispose
<1>3. CASE StartTimer \/ EnterGet \/ ReadById \/ ReadAny \/ Check \/ Return
  BY <1>3 DEF StartTimer, EnterGet, ReadById, ReadAny, Pop, PopFails, PopNothing, Check, Return
<1>4. CASE AddReply \/ StopAccepting \/ Complete \/ BindProps \/ FreeAfterBind
  BY <1>4 DEF AddReply, StopAccepting, Complete, BindProps, FreeAfterBind, FreeBind
<1>5. CASE TimerSleeps \/ TimerFires
  BY <1>5 DEF TimerSleeps, TimerFires
<1>6. ASSUME NEW a \in Actors, Quiet(a) PROVE PlacesOK'
  BY <1>6 DEF Quiet, AbandonEnter, Proceeds, AbandonIgnore, AbandonIncomplete, AbandonBindProps,
     WriteAbandon, AbandonFree, FreeBind, AbandonUnlink, AfterAbandon
<1>7. ASSUME NEW a \in Actors, AbandonTell(a) \/ Cleanup(a) PROVE PlacesOK'
  BY <1>7 DEF AbandonTell, Cleanup, AfterAbandon
<1>8. ASSUME NEW a \in Actors, PulseReplies(a) \/ PulseAgent(a) PROVE PlacesOK'
  BY <1>8 DEF PulseReplies, PulseAgent, AfterPulse
<1>9. CASE UNCHANGED vars
  BY <1>9 DEF vars
<1> QED
  BY <1>1, <1>2, <1>3, <1>4, <1>5, <1>6, <1>7, <1>8, <1>9, Cases

LEMMA TypesPreserved ==
  ASSUME TypeOK, Stages, [Next]_vars
  PROVE  TypeOK'
<1>1. At("reader", "add") => answered \in Replies
  BY ConstantsAssumption DEF TypeOK, RepliesOK, Stages, Replies, At
<1> QED
  BY <1>1, FlagsPreserved, RepliesPreserved, PlacesPreserved DEF TypeOK

LEMMA StagesPreserved ==
  ASSUME TypeOK, Stages, [Next]_vars
  PROVE  Stages'
<1> USE DEF TypeOK, PlacesOK, Stages, Actors, AbandonPlaces, At, Goto, flags, lists
<1>1. CASE Send \/ UserFinds \/ UserAbandons
  <2>1. CASE Send
    BY <2>1 DEF Send
  <2>2. CASE UserFinds
    BY <2>2 DEF UserFinds
  <2>3. CASE UserAbandons
    BY <2>3 DEF UserAbandons
  <2> QED
    BY <1>1, <2>1, <2>2, <2>3
<1>2. CASE Receive
  BY <1>2, ConstantsAssumption DEF Receive, RepliesOK
<1>3. CASE Dispose
  BY <1>3 DEF Dispose
<1>4. CASE StartTimer \/ EnterGet \/ Check \/ Return
  BY <1>4 DEF StartTimer, EnterGet, Check, Return
<1>5. CASE ReadById \/ ReadAny
  BY <1>5 DEF ReadById, ReadAny, Pop, PopFails, PopNothing
<1>6. CASE AddReply \/ StopAccepting \/ Complete \/ BindProps \/ FreeAfterBind
  BY <1>6 DEF AddReply, StopAccepting, Complete, BindProps, FreeAfterBind, FreeBind
<1>7. CASE TimerSleeps \/ TimerFires
  BY <1>7 DEF TimerSleeps, TimerFires
<1>8. ASSUME NEW a \in Actors, Quiet(a) PROVE Stages'
  <2>1. CASE AbandonEnter(a) \/ Proceeds(a)
    BY <2>1 DEF AbandonEnter, Proceeds, AbandonIgnore, AbandonIncomplete, AbandonBindProps,
       WriteAbandon, AfterAbandon, FlagsOK
  <2>2. CASE AbandonFree(a)
    BY <2>2 DEF AbandonFree, FreeBind
  <2>3. CASE AbandonUnlink(a)
    BY <2>3 DEF AbandonUnlink, FlagsOK
  <2> QED
    BY <1>8, <2>1, <2>2, <2>3 DEF Quiet
<1>9. ASSUME NEW a \in Actors, AbandonTell(a) \/ Cleanup(a) PROVE Stages'
  BY <1>9 DEF AbandonTell, Cleanup, AfterAbandon
<1>10. ASSUME NEW a \in Actors, PulseReplies(a) \/ PulseAgent(a) PROVE Stages'
  BY <1>10 DEF PulseReplies, PulseAgent, AfterPulse
<1>11. CASE UNCHANGED vars
  BY <1>11 DEF vars
<1> QED
  BY <1>1, <1>2, <1>3, <1>4, <1>5, <1>6, <1>7, <1>8, <1>9, <1>10, <1>11, Cases

-----------------------------------------------------------------------------
\* Who else changes the queue adds no answer to it.
LEMMA QueueUnchanged ==
  ASSUME UNCHANGED replies
  PROVE  HasAnswer' <=> HasAnswer
BY DEF HasAnswer

LEMMA QueueTold ==
  ASSUME RepliesOK, NEW a \in Actors, AbandonTell(a)
  PROVE  HasAnswer' <=> HasAnswer
<1>1. CASE UNCHANGED replies
  BY <1>1, QueueUnchanged
<1>2. CASE replies' = Append(replies, Informs(a))
  <2>1. Informs(a) \in Int /\ ~(Informs(a) > 0)
    BY DEF Informs, Nothing, TimedOut, Closed
  <2>2. /\ Len(replies') = Len(replies) + 1
        /\ \A k \in 1..Len(replies) : replies'[k] = replies[k]
        /\ replies'[Len(replies) + 1] = Informs(a)
    BY <1>2, <2>1 DEF RepliesOK
  <2> QED
    BY <2>1, <2>2 DEF HasAnswer, RepliesOK
<1> QED
  BY <1>1, <1>2 DEF AbandonTell

LEMMA AwakePreserved ==
  ASSUME TypeOK, Stages, Awake, [Next]_vars
  PROVE  Awake'
<1> USE DEF TypeOK, PlacesOK, Awake, Holding, Actors, AbandonPlaces, At, Goto
<1>1. CASE Send \/ Receive \/ UserFinds \/ UserAbandons \/ Dispose
  <2>1. HasAnswer' <=> HasAnswer
    BY <1>1, QueueUnchanged DEF Send, Receive, UserFinds, UserAbandons, Dispose
  <2>2. CASE Send
    BY <2>1, <2>2 DEF Send
  <2>3. CASE Receive
    BY <2>1, <2>3 DEF Receive, locals
  <2>4. CASE UserFinds \/ UserAbandons \/ Dispose
    BY <2>1, <2>4 DEF UserFinds, UserAbandons, Dispose, locals
  <2> QED
    BY <1>1, <2>2, <2>3, <2>4
<1>2. CASE StartTimer \/ EnterGet \/ Check \/ Return
  <2>1. HasAnswer' <=> HasAnswer
    BY <1>2, QueueUnchanged DEF StartTimer, EnterGet, Check, Return
  <2> QED
    BY <1>2, <2>1 DEF StartTimer, EnterGet, Check, Return, locals
<1>3. CASE ReadById \/ ReadAny
  <2>1. CASE Pop
    <3>1. rfcMsg' # Nothing /\ pc'["caller"] = "check"
      BY <2>1 DEF Pop, RepliesOK, Replies, Nothing, TimedOut, Closed
    <3> QED
      BY <3>1
  <2>2. CASE ReadById
    BY <2>1, <2>2, QueueUnchanged DEF ReadById, PopFails, PopNothing
  <2>3. CASE ReadAny
    BY <2>1, <2>3 DEF ReadAny, PopFails, PopNothing, HasAnswer
  <2> QED
    BY <1>3, <2>2, <2>3
<1>4. CASE AddReply
  BY <1>4 DEF AddReply
<1>5. CASE StopAccepting \/ Complete \/ BindProps \/ FreeAfterBind
  <2>1. HasAnswer' <=> HasAnswer
    BY <1>5, QueueUnchanged DEF StopAccepting, Complete, BindProps, FreeAfterBind
  <2> QED
    BY <1>5, <2>1 DEF StopAccepting, Complete, BindProps, FreeAfterBind, FreeBind, locals
<1>6. CASE TimerSleeps \/ TimerFires
  <2>1. HasAnswer' <=> HasAnswer
    BY <1>6, QueueUnchanged DEF TimerSleeps, TimerFires
  <2> QED
    BY <1>6, <2>1 DEF TimerSleeps, TimerFires, locals
<1>7. ASSUME NEW a \in Actors, Quiet(a) PROVE Awake'
  <2>1. HasAnswer' <=> HasAnswer
    BY <1>7, QueueUnchanged DEF Quiet, AbandonEnter, Proceeds, AbandonIgnore, AbandonIncomplete,
       AbandonBindProps, WriteAbandon, AbandonFree, AbandonUnlink
  <2> QED
    BY <1>7, <2>1 DEF Quiet, AbandonEnter, Proceeds, AbandonIgnore, AbandonIncomplete,
       AbandonBindProps, WriteAbandon, AbandonFree, FreeBind, AbandonUnlink, AfterAbandon, locals
<1>8. ASSUME NEW a \in Actors, AbandonTell(a) PROVE Awake'
  <2>1. HasAnswer' <=> HasAnswer
    BY <1>8, QueueTold
  <2> QED
    BY <1>8, <2>1 DEF AbandonTell, AfterAbandon, locals
<1>9. ASSUME NEW a \in Actors, Cleanup(a) PROVE Awake'
  BY <1>9 DEF Cleanup, HasAnswer
<1>10. ASSUME NEW a \in Actors, PulseReplies(a) \/ PulseAgent(a) PROVE Awake'
  <2>1. HasAnswer' <=> HasAnswer
    BY <1>10, QueueUnchanged DEF PulseReplies, PulseAgent
  <2> QED
    BY <1>10, <2>1 DEF PulseReplies, PulseAgent, AfterPulse, AgentFree, locals
<1>11. CASE UNCHANGED vars
  BY <1>11, QueueUnchanged DEF vars
<1> QED
  BY <1>1, <1>2, <1>3, <1>4, <1>5, <1>6, <1>7, <1>8, <1>9, <1>10, <1>11, Cases

LEMMA NoLateAddPreserved ==
  ASSUME TypeOK, Stages, Awake, NoLateAdd, [Next]_vars
  PROVE  NoLateAdd'
<1> USE DEF TypeOK, PlacesOK, Stages, NoLateAdd, Actors, AbandonPlaces, At, Goto
<1>1. CASE Send \/ Receive \/ UserFinds \/ UserAbandons \/ Dispose
  <2>1. HasAnswer' <=> HasAnswer
    BY <1>1, QueueUnchanged DEF Send, Receive, UserFinds, UserAbandons, Dispose
  <2>2. CASE Send
    BY <2>1, <2>2 DEF Send
  <2>3. CASE Receive
    BY <2>1, <2>3 DEF Receive
  <2>4. CASE UserFinds \/ UserAbandons \/ Dispose
    BY <2>1, <2>4 DEF UserFinds, UserAbandons, Dispose
  <2> QED
    BY <1>1, <2>2, <2>3, <2>4
<1>2. CASE StartTimer \/ Check \/ Return
  BY <1>2 DEF StartTimer, Check, Return
<1>3. CASE EnterGet
  BY <1>3 DEF EnterGet
<1>4. CASE ReadById \/ ReadAny
  BY <1>4 DEF ReadById, ReadAny, Pop, PopFails, PopNothing
<1>5. CASE AddReply \/ StopAccepting \/ Complete \/ BindProps \/ FreeAfterBind
  BY <1>5 DEF AddReply, StopAccepting, Complete, BindProps, FreeAfterBind, FreeBind
<1>6. CASE TimerSleeps \/ TimerFires
  <2>1. HasAnswer' <=> HasAnswer
    BY <1>6, QueueUnchanged DEF TimerSleeps, TimerFires
  <2> QED
    BY <1>6, <2>1 DEF TimerSleeps, TimerFires
<1>7. ASSUME NEW a \in Actors, Quiet(a) PROVE NoLateAdd'
  <2>1. HasAnswer' <=> HasAnswer
    BY <1>7, QueueUnchanged DEF Quiet, AbandonEnter, Proceeds, AbandonIgnore, AbandonIncomplete,
       AbandonBindProps, WriteAbandon, AbandonFree, AbandonUnlink
  <2>2. CASE AbandonEnter(a) \/ AbandonFree(a)
    BY <2>1, <2>2 DEF AbandonEnter, AbandonFree, FreeBind, AfterAbandon
  <2>3. CASE Proceeds(a)
    BY <2>1, <2>3 DEF Proceeds, AbandonIgnore, AbandonIncomplete, AbandonBindProps, WriteAbandon
  <2>4. CASE AbandonUnlink(a)
    BY <2>1, <2>4 DEF AbandonUnlink, AgentFree, Informs, Nothing
  <2> QED
    BY <1>7, <2>2, <2>3, <2>4 DEF Quiet
<1>8. ASSUME NEW a \in Actors, AbandonTell(a) PROVE NoLateAdd'
  <2>1. HasAnswer' <=> HasAnswer
    BY <1>8, QueueTold
  <2> QED
    BY <1>8, <2>1 DEF AbandonTell, AfterAbandon
<1>9. ASSUME NEW a \in Actors, Cleanup(a) PROVE NoLateAdd'
  BY <1>9 DEF Cleanup, HasAnswer
<1>10. ASSUME NEW a \in Actors, PulseReplies(a) \/ PulseAgent(a) PROVE NoLateAdd'
  <2>1. HasAnswer' <=> HasAnswer
    BY <1>10, QueueUnchanged DEF PulseReplies, PulseAgent
  <2>2. CASE PulseReplies(a)
    BY <2>1, <2>2 DEF PulseReplies
  <2>3. CASE PulseAgent(a)
    BY <2>1, <2>3 DEF PulseAgent, AfterPulse, Awake
  <2> QED
    BY <1>10, <2>2, <2>3
<1>11. CASE UNCHANGED vars
  BY <1>11, QueueUnchanged DEF vars
<1> QED
  BY <1>1, <1>2, <1>3, <1>4, <1>5, <1>6, <1>7, <1>8, <1>9, <1>10, <1>11, Cases

-----------------------------------------------------------------------------
\* A caller that has been cut off from the queue stays so.
LEMMA CutPreserved ==
  ASSUME TypeOK, Stages, Cut, [Next]_vars
  PROVE  Cut'
<1> USE DEF TypeOK, PlacesOK, Stages, Cut, Actors, AbandonPlaces, At, Goto, flags, lists
<1>1. CASE Send \/ Receive \/ UserFinds \/ UserAbandons \/ Dispose
  <2>1. CASE Send \/ Receive \/ Dispose
    BY <2>1 DEF Send, Receive, Dispose
  <2>2. CASE UserFinds \/ UserAbandons
    <3>1. ~inAgent => ~inAgent'
      BY <2>2 DEF UserFinds, UserAbandons
    <3> QED
      BY <2>2, <3>1 DEF UserFinds, UserAbandons
  <2> QED
    BY <1>1, <2>1, <2>2
<1>2. CASE StartTimer \/ EnterGet \/ Check \/ Return
  BY <1>2 DEF StartTimer, EnterGet, Check, Return
<1>3. CASE ReadById \/ ReadAny
  BY <1>3 DEF ReadById, ReadAny, Pop, PopFails, PopNothing
<1>4. CASE AddReply \/ StopAccepting \/ Complete \/ BindProps \/ FreeAfterBind
  BY <1>4 DEF AddReply, StopAccepting, Complete, BindProps, FreeAfterBind, FreeBind
<1>5. CASE TimerSleeps \/ TimerFires
  BY <1>5 DEF TimerSleeps, TimerFires
<1>6. ASSUME NEW a \in Actors, Quiet(a) PROVE Cut'
  <2>1. CASE AbandonEnter(a) \/ Proceeds(a) \/ AbandonFree(a)
    BY <2>1 DEF AbandonEnter, Proceeds, AbandonIgnore, AbandonIncomplete, AbandonBindProps,
       WriteAbandon, AbandonFree, FreeBind, AfterAbandon
  <2>2. CASE AbandonUnlink(a)
    <3>1. ~inAgent => ~inAgent'
      BY <2>2 DEF AbandonUnlink
    <3> QED
      BY <2>2, <3>1 DEF AbandonUnlink
  <2> QED
    BY <1>6, <2>1, <2>2 DEF Quiet
<1>7. ASSUME NEW a \in Actors, AbandonTell(a) \/ Cleanup(a) PROVE Cut'
  BY <1>7 DEF AbandonTell, Cleanup, AfterAbandon
<1>8. ASSUME NEW a \in Actors, PulseReplies(a) \/ PulseAgent(a) PROVE Cut'
  BY <1>8 DEF PulseReplies, PulseAgent, AfterPulse
<1>9. CASE UNCHANGED vars
  BY <1>9 DEF vars
<1> QED
  BY <1>1, <1>2, <1>3, <1>4, <1>5, <1>6, <1>7, <1>8, <1>9, Cases

-----------------------------------------------------------------------------
(* What appending and taking the head do to a sequence of answers.          *)

LEMMA AppendAnswer ==
  ASSUME NEW s \in Seq(Int), NEW lo \in Nat, NEW hi \in Nat, lo <= hi, Holds(s, lo, hi)
  PROVE  Holds(Append(s, hi + 1), lo, hi + 1)
<1> DEFINE t == Append(s, hi + 1)
<1>1. /\ Len(t) = Len(s) + 1
      /\ \A k \in 1..Len(s) : t[k] = s[k] /\ s[k] \in Int
      /\ t[Len(s) + 1] = hi + 1
      /\ Len(s) \in Nat
  OBVIOUS
<1> HIDE DEF t
<1>2. \A k \in 1..Len(t) : t[k] > 0 => t[k] > lo /\ t[k] <= hi + 1
  BY <1>1 DEF Holds
<1>3. \A k, l \in 1..Len(t) : k < l /\ t[k] > 0 /\ t[l] > 0 => t[k] < t[l]
  <2> SUFFICES ASSUME NEW k \in 1..Len(t), NEW l \in 1..Len(t), k < l, t[k] > 0, t[l] > 0
               PROVE  t[k] < t[l]
    OBVIOUS
  <2>1. k \in 1..Len(s) /\ t[k] = s[k] /\ s[k] <= hi
    BY <1>1 DEF Holds
  <2>2. CASE l \in 1..Len(s)
    BY <1>1, <2>1, <2>2 DEF Holds
  <2>3. CASE l = Len(s) + 1
    BY <1>1, <2>1, <2>3
  <2> QED
    BY <1>1, <2>2, <2>3, SMTT(30)
<1>4. \A v \in (lo + 1)..(hi + 1) : \E k \in 1..Len(t) : t[k] = v
  <2> SUFFICES ASSUME NEW v \in (lo + 1)..(hi + 1) PROVE \E k \in 1..Len(t) : t[k] = v
    OBVIOUS
  <2>1. CASE v = hi + 1
    BY <1>1, <2>1
  <2>2. CASE v \in (lo + 1)..hi
    <3>1. PICK k \in 1..Len(s) : s[k] = v
      BY <2>2 DEF Holds
    <3> QED
      BY <1>1, <3>1
  <2> QED
    BY <2>1, <2>2
<1> QED
  BY <1>2, <1>3, <1>4 DEF Holds, t

LEMMA AppendOther ==
  ASSUME NEW s \in Seq(Int), NEW lo \in Nat, NEW hi \in Nat, Holds(s, lo, hi),
         NEW e \in Int, e <= 0
  PROVE  Holds(Append(s, e), lo, hi)
<1> DEFINE t == Append(s, e)
<1>1. /\ Len(t) = Len(s) + 1
      /\ \A k \in 1..Len(s) : t[k] = s[k] /\ s[k] \in Int
      /\ t[Len(s) + 1] = e
      /\ Len(s) \in Nat
  OBVIOUS
<1> HIDE DEF t
<1>2. \A k \in 1..Len(t) : t[k] > 0 => k \in 1..Len(s)
  BY <1>1
<1>3. \A k \in 1..Len(t) : t[k] > 0 => t[k] > lo /\ t[k] <= hi
  BY <1>1, <1>2 DEF Holds
<1>4. \A k, l \in 1..Len(t) : k < l /\ t[k] > 0 /\ t[l] > 0 => t[k] < t[l]
  BY <1>1, <1>2 DEF Holds
<1>5. \A v \in (lo + 1)..hi : \E k \in 1..Len(t) : t[k] = v
  BY <1>1 DEF Holds
<1> QED
  BY <1>3, <1>4, <1>5 DEF Holds, t

LEMMA TakeHead ==
  ASSUME NEW s \in Seq(Int), NEW lo \in Nat, NEW hi \in Nat, lo <= hi,
         Holds(s, lo, hi), s # <<>>
  PROVE  IF Head(s) > 0 THEN Head(s) = lo + 1 /\ lo < hi /\ Holds(Tail(s), lo + 1, hi)
                        ELSE Holds(Tail(s), lo, hi)
<1> DEFINE t == Tail(s)
<1>1. /\ Len(s) \in Nat /\ Len(s) >= 1 /\ Len(t) = Len(s) - 1
      /\ \A k \in 1..Len(t) : t[k] = s[k + 1]
      /\ \A k \in 1..Len(s) : s[k] \in Int
      /\ Head(s) = s[1]
  OBVIOUS
<1> HIDE DEF t
<1>0. \A k \in 1..Len(t) : k + 1 \in 1..Len(s) /\ t[k] = s[k + 1] /\ s[k + 1] \in Int
  BY <1>1
<1>2. \A k, l \in 1..Len(t) : k < l /\ t[k] > 0 /\ t[l] > 0 => t[k] < t[l]
  <2> SUFFICES ASSUME NEW k \in 1..Len(t), NEW l \in 1..Len(t), k < l, t[k] > 0, t[l] > 0
               PROVE  t[k] < t[l]
    OBVIOUS
  <2>1. k + 1 < l + 1 /\ t[k] = s[k + 1] /\ t[l] = s[l + 1]
        /\ k + 1 \in 1..Len(s) /\ l + 1 \in 1..Len(s)
    BY <1>0, <1>1
  <2>2. s[k + 1] < s[l + 1]
    BY <2>1 DEF Holds
  <2> QED
    BY <2>2, <1>0
<1>3. CASE s[1] > 0
  <2>1. s[1] > lo /\ s[1] <= hi
    BY <1>1, <1>3 DEF Holds
  <2>2. PICK k \in 1..Len(s) : s[k] = lo + 1
    BY <2>1, <1>1 DEF Holds
  <2>3. s[1] = lo + 1
    <3>1. 1 < k => s[1] < s[k]
      BY <1>1, <1>3, <2>2 DEF Holds
    <3> QED
      BY <1>1, <2>1, <2>2, <3>1
  <2>4. \A l \in 1..Len(t) : t[l] > 0 => t[l] > lo + 1 /\ t[l] <= hi
    <3> SUFFICES ASSUME NEW l \in 1..Len(t), t[l] > 0 PROVE t[l] > lo + 1 /\ t[l] <= hi
      OBVIOUS
    <3>1. s[l + 1] > 0 /\ 1 < l + 1 /\ 1 \in 1..Len(s)
      BY <1>0, <1>1
    <3>2. s[1] < s[l + 1] /\ s[l + 1] <= hi
      BY <1>0, <1>3, <3>1 DEF Holds
    <3> QED
      BY <1>0, <2>3, <3>2
  <2>5. \A v \in (lo + 2)..hi : \E l \in 1..Len(t) : t[l] = v
    <3> SUFFICES ASSUME NEW v \in (lo + 2)..hi PROVE \E l \in 1..Len(t) : t[l] = v
      OBVIOUS
    <3>1. PICK l \in 1..Len(s) : s[l] = v
      BY DEF Holds
    <3>3. l # 1
      BY <1>1, <2>3, <3>1
    <3>4. l - 1 \in 1..Len(t) /\ (l - 1) + 1 = l
      BY <1>1, <3>1, <3>3
    <3>2. l - 1 \in 1..Len(t) /\ t[l - 1] = v
      BY <1>0, <3>1, <3>4
    <3> QED
      BY <3>2
  <2>6. Holds(t, lo + 1, hi)
    BY <1>2, <2>4, <2>5, SMTT(30) DEF Holds
  <2> QED
    BY <1>1, <1>3, <2>1, <2>3, <2>6 DEF t
<1>4. CASE ~(s[1] > 0)
  <2>1. \A l \in 1..Len(t) : t[l] > 0 => t[l] > lo /\ t[l] <= hi
    BY <1>0 DEF Holds
  <2>2. \A v \in (lo + 1)..hi : \E l \in 1..Len(t) : t[l] = v
    <3> SUFFICES ASSUME NEW v \in (lo + 1)..hi PROVE \E l \in 1..Len(t) : t[l] = v
      OBVIOUS
    <3>1. PICK l \in 1..Len(s) : s[l] = v
      BY DEF Holds
    <3>2. l # 1 /\ l - 1 \in 1..Len(t) /\ t[l - 1] = v
      BY <1>1, <1>4, <3>1
    <3> QED
      BY <3>2
  <2>3. Holds(t, lo, hi)
    BY <1>2, <2>1, <2>2 DEF Holds
  <2> QED
    BY <1>1, <1>4, <2>3 DEF t
<1> QED
  BY <1>3, <1>4

-----------------------------------------------------------------------------
LEMMA QueueTypes ==
  ASSUME RepliesOK
  PROVE  /\ Answers \in Nat /\ answered \in Nat
         /\ replies \in Seq(Int) /\ got \in Seq(Int) /\ rfcMsg \in Int
         /\ rfcMsg <= Answers
<1>1. Answers \in Nat /\ answered \in Nat
  BY ConstantsAssumption DEF RepliesOK
<1>2. Replies \subseteq Int /\ Nothing \in Int
  BY <1>1 DEF Replies, TimedOut, Closed, Nothing
<1>3. rfcMsg \in Int /\ rfcMsg <= Answers
  BY <1>1 DEF RepliesOK, Replies, TimedOut, Closed, Nothing
<1>4. replies \in Seq(Int)
  <2>1. Len(replies) \in Nat /\ replies \in [1..Len(replies) -> Replies]
    BY DEF RepliesOK
  <2>2. replies \in [1..Len(replies) -> Int]
    BY <2>1, <1>2
  <2> QED
    BY <2>1, <2>2
<1>5. got \in Seq(Int)
  <2>1. Len(got) \in Nat /\ got \in [1..Len(got) -> Replies \cup {Nothing}]
    BY DEF RepliesOK
  <2>2. got \in [1..Len(got) -> Int]
    BY <2>1, <1>2
  <2> QED
    BY <2>1, <2>2
<1> QED
  BY <1>1, <1>3, <1>4, <1>5

LEMMA TakenType ==
  ASSUME RepliesOK, NEW n \in 0..Answers, ChainAt(n)
  PROVE  Taken(n) \in 0..Answers
BY QueueTypes DEF ChainAt, Taken

\* Steps that do not touch the queue.
LEMMA InQueueFrame ==
  ASSUME NEW d, InQueue(d), UNCHANGED <<replies, answered>>,
         At("reader", "add")' <=> At("reader", "add"),
         inConn' => inConn, acceptReplies' => acceptReplies
  PROVE  InQueue(d)'
<1>1. PICK m \in 0..Answers :
         /\ d <= m /\ m <= answered
         /\ Holds(replies, d, m)
         /\ At("reader", "add") => m = answered - 1
         /\ m < answered /\ ~At("reader", "add") => ~inConn \/ ~acceptReplies
  BY DEF InQueue
<1>2. Holds(replies', d, m)
  BY <1>1
<1> QED
  BY <1>1, <1>2 DEF InQueue

\* Steps by which the caller gets nothing.
LEMMA ChainFrame ==
  ASSUME RepliesOK, NEW n \in 0..Answers, ChainAt(n), Cut => Cut',
         UNCHANGED <<got, rfcMsg>>, Holding' => Holding, Cut' \/ (Holding => Holding'),
         \A d \in 0..Answers : InQueue(d) => Cut' \/ InQueue(d)'
  PROVE  Chain'
<1>1. Holds(got', 0, n) /\ (Holding' /\ rfcMsg' > 0 => rfcMsg' = n + 1)
  BY DEF ChainAt
<1>2. Taken(n) \in 0..Answers
  BY TakenType
<1>3. Cut' \/ InQueue(Taken(n))'
  <2> SUFFICES ASSUME ~Cut' PROVE InQueue(Taken(n))'
    OBVIOUS
  <2>1. Holding' <=> Holding
    OBVIOUS
  <2>2. Taken(n)' = Taken(n)
    BY <2>1 DEF Taken
  <2>3. InQueue(Taken(n))
    BY DEF ChainAt
  <2>4. \A d \in 0..Answers : d = Taken(n) => InQueue(d)'
    BY <2>3
  <2> QED
    BY <1>2, <2>2, <2>4
<1> QED
  BY <1>1, <1>3 DEF Chain, ChainAt

LEMMA ChainFramed ==
  ASSUME TypeOK, Stages, NEW n \in 0..Answers, ChainAt(n), Cut => Cut',
         \/ UserFinds \/ UserAbandons \/ Dispose \/ StartTimer \/ Check
         \/ StopAccepting \/ Complete \/ BindProps \/ FreeAfterBind \/ TimerSleeps \/ TimerFires
         \/ \E a \in Actors : Quiet(a) \/ PulseReplies(a) \/ PulseAgent(a)
         \/ UNCHANGED vars
  PROVE  Chain'
<1> USE DEF TypeOK, PlacesOK, Stages, Actors, AbandonPlaces, At, Goto, Holding
<1> DEFINE Frame ==
      /\ UNCHANGED <<got, rfcMsg>> /\ UNCHANGED <<replies, answered>>
      /\ At("reader", "add")' <=> At("reader", "add")
      /\ (inConn' => inConn) /\ (acceptReplies' => acceptReplies)
      /\ Holding' => Holding
      /\ Cut' \/ (Holding => Holding')
<1>1. CASE UserFinds \/ UserAbandons \/ Dispose \/ StartTimer \/ Check
  <2>1. UserFinds \/ UserAbandons => Frame
    <3>1. UserFinds => Frame
      BY DEF UserFinds, flags, lists, locals
    <3>2. UserAbandons => Frame
      BY DEF UserAbandons, flags, locals
    <3> QED
      BY <3>1, <3>2
  <2>2. Dispose => Frame
    BY DEF Dispose, flags, locals
  <2>3. StartTimer \/ Check => Frame
    BY DEF StartTimer, Check, flags, lists, locals
  <2>4. Frame
    BY <1>1, <2>1, <2>2, <2>3
  <2> QED
    BY <2>4, InQueueFrame, ChainFrame
<1>2. CASE StopAccepting \/ Complete \/ BindProps \/ FreeAfterBind \/ TimerSleeps \/ TimerFires
  <2>1. Frame
    BY <1>2 DEF StopAccepting, Complete, BindProps, FreeAfterBind, FreeBind, TimerSleeps,
       TimerFires, flags, lists, locals
  <2> QED
    BY <2>1, InQueueFrame, ChainFrame
<1>3. ASSUME NEW a \in Actors, Quiet(a) PROVE Chain'
  <2>1. a = "caller" => Cut
    BY <1>3 DEF Quiet, AbandonEnter, Proceeds, AbandonIgnore, AbandonIncomplete, AbandonBindProps,
       WriteAbandon, AbandonFree, AbandonUnlink, Cut
  <2>2. CASE AbandonEnter(a) \/ Proceeds(a)
    <3>1. ASSUME AbandonEnter(a) PROVE Frame
      <4>1. acceptReplies' => acceptReplies
        BY <3>1 DEF AbandonEnter, FlagsOK
      <4> QED
        BY <2>1, <3>1, <4>1 DEF AbandonEnter, AfterAbandon, flags, lists, locals
    <3>2. AbandonIgnore(a) \/ AbandonIncomplete(a) \/ AbandonBindProps(a) => Frame
      BY DEF AbandonIgnore, AbandonIncomplete, AbandonBindProps, flags, lists, locals
    <3>3. WriteAbandon(a) => Frame
      BY <2>1 DEF WriteAbandon, flags, lists, locals
    <3>4. Frame
      BY <2>2, <3>1, <3>2, <3>3 DEF Proceeds
    <3> QED
      BY <3>4, InQueueFrame, ChainFrame
  <2>3. CASE AbandonFree(a)
    <3>1. Frame
      BY <2>1, <2>3 DEF AbandonFree, FreeBind, flags, lists, locals
    <3> QED
      BY <3>1, InQueueFrame, ChainFrame
  <2>4. CASE AbandonUnlink(a)
    <3>1. Frame
      BY <2>1, <2>4 DEF AbandonUnlink, flags, lists, locals
    <3> QED
      BY <3>1, InQueueFrame, ChainFrame
  <2> QED
    BY <1>3, <2>2, <2>3, <2>4 DEF Quiet
<1>4. ASSUME NEW a \in Actors, PulseReplies(a) \/ PulseAgent(a) PROVE Chain'
  <2>1. Frame
    BY <1>4 DEF PulseReplies, PulseAgent, AfterPulse, flags, lists, locals
  <2> QED
    BY <2>1, InQueueFrame, ChainFrame
<1>5. CASE UNCHANGED vars
  <2>1. Frame
    BY <1>5 DEF vars
  <2> QED
    BY <2>1, InQueueFrame, ChainFrame
<1> QED
  BY <1>1, <1>2, <1>3, <1>4, <1>5

\* The queue is as long as the reader has come, when it is about to add.
LEMMA ChainSend ==
  ASSUME TypeOK, Stages, NEW n \in 0..Answers, ChainAt(n), Cut => Cut', Send
  PROVE  Chain'
<1>1. UNCHANGED <<got, rfcMsg>> /\ UNCHANGED <<replies, answered>> /\ pc["caller"] = "start"
  BY DEF Send, locals, At
<1>2. ~Holding /\ ~Holding' /\ (At("reader", "add")' <=> At("reader", "add"))
  BY DEF Send, TypeOK, PlacesOK, Actors, AbandonPlaces, At, Goto, Holding
<1>3. \A d \in 0..Answers : InQueue(d) => InQueue(d)'
  <2> SUFFICES ASSUME NEW d \in 0..Answers, InQueue(d) PROVE InQueue(d)'
    OBVIOUS
  <2>1. PICK m \in 0..Answers :
           /\ d <= m /\ m <= answered
           /\ Holds(replies, d, m)
           /\ At("reader", "add") => m = answered - 1
    BY DEF InQueue
  <2>2. Holds(replies', d, m) /\ answered = 0 /\ m = 0
    BY <1>1, <2>1 DEF Stages
  <2> QED
    BY <1>1, <1>2, <2>1, <2>2 DEF InQueue
<1> QED
  BY <1>1, <1>2, <1>3, ChainFrame DEF TypeOK

LEMMA ChainReceive ==
  ASSUME TypeOK, Stages, NEW n \in 0..Answers, ChainAt(n), Cut => Cut', Receive
  PROVE  Chain'
<1>1. /\ UNCHANGED <<got, rfcMsg, replies, acceptReplies, inConn>>
      /\ answered < Answers /\ answered' = answered + 1 /\ ~At("reader", "add")
      /\ IF inConn /\ acceptReplies THEN At("reader", "add")' ELSE ~At("reader", "add")'
  BY DEF Receive, flags, lists, locals, TypeOK, PlacesOK, Actors, At, Goto
<1>2. Holding' <=> Holding
  BY DEF Receive, TypeOK, PlacesOK, Actors, AbandonPlaces, At, Goto, Holding
<1>3. \A d \in 0..Answers : InQueue(d) => InQueue(d)'
  <2> SUFFICES ASSUME NEW d \in 0..Answers, InQueue(d) PROVE InQueue(d)'
    OBVIOUS
  <2>1. PICK m \in 0..Answers :
           /\ d <= m /\ m <= answered
           /\ Holds(replies, d, m)
           /\ m < answered => ~inConn \/ ~acceptReplies
    BY <1>1 DEF InQueue
  <2>2. Holds(replies', d, m)
    BY <1>1, <2>1
  <2>3. answered \in Nat /\ Answers \in Nat
    BY QueueTypes DEF TypeOK
  <2>4. d <= m /\ m <= answered'
    BY <1>1, <2>1, <2>3
  <2>5. At("reader", "add")' => m = answered' - 1
    BY <1>1, <2>1, <2>3
  <2>6. ~At("reader", "add")' => ~inConn' \/ ~acceptReplies'
    BY <1>1
  <2> QED
    BY <2>1, <2>2, <2>4, <2>5, <2>6 DEF InQueue
<1> QED
  BY <1>1, <1>2, <1>3, ChainFrame DEF TypeOK

LEMMA ChainAddReply ==
  ASSUME TypeOK, Stages, NEW n \in 0..Answers, ChainAt(n), Cut => Cut', AddReply
  PROVE  Chain'
<1>1. /\ UNCHANGED <<got, rfcMsg, answered>> /\ At("reader", "add")
      /\ replies' = Append(replies, answered) /\ ~At("reader", "add")'
  BY DEF AddReply, locals, TypeOK, PlacesOK, Actors, At, Goto
<1>2. Holding' <=> Holding
  BY DEF AddReply, TypeOK, PlacesOK, Actors, AbandonPlaces, At, Goto, Holding
<1>3. \A d \in 0..Answers : InQueue(d) => InQueue(d)'
  <2> SUFFICES ASSUME NEW d \in 0..Answers, InQueue(d) PROVE InQueue(d)'
    OBVIOUS
  <2>1. PICK m \in 0..Answers :
           d <= m /\ m <= answered /\ Holds(replies, d, m) /\ m = answered - 1
    BY <1>1 DEF InQueue
  <2>2. answered \in 0..Answers /\ replies \in Seq(Int) /\ Answers \in Nat
    BY QueueTypes DEF TypeOK, RepliesOK
  <2>3. Holds(replies', d, answered)
    BY <1>1, <2>1, <2>2, AppendAnswer
  <2>4. d <= answered' /\ answered' <= answered' /\ answered' \in 0..Answers
    BY <1>1, <2>1, <2>2
  <2> QED
    BY <1>1, <2>2, <2>3, <2>4 DEF InQueue
<1> QED
  BY <1>1, <1>2, <1>3, ChainFrame DEF TypeOK

LEMMA ChainTell ==
  ASSUME TypeOK, Stages, NEW n \in 0..Answers, ChainAt(n), Cut => Cut',
         NEW a \in Actors, AbandonTell(a)
  PROVE  Chain'
<1>1. /\ UNCHANGED <<got, rfcMsg, answered, acceptReplies, inConn>>
      /\ replies' = replies \/ (Informs(a) # Nothing /\ replies' = Append(replies, Informs(a)))
  BY DEF AbandonTell, flags, lists, locals
<1>2. /\ a = "caller" => Cut
      /\ Holding' => Holding
      /\ a # "caller" => (Holding' <=> Holding)
      /\ At("reader", "add")' <=> At("reader", "add")
  BY DEF AbandonTell, TypeOK, PlacesOK, Stages, Actors, AbandonPlaces, At, Goto, Holding, Cut
<1>3. \A d \in 0..Answers : InQueue(d) => InQueue(d)'
  <2> SUFFICES ASSUME NEW d \in 0..Answers, InQueue(d) PROVE InQueue(d)'
    OBVIOUS
  <2>1. PICK m \in 0..Answers :
           /\ d <= m /\ m <= answered
           /\ Holds(replies, d, m)
           /\ At("reader", "add") => m = answered - 1
           /\ m < answered /\ ~At("reader", "add") => ~inConn \/ ~acceptReplies
    BY DEF InQueue
  <2>2. Informs(a) # Nothing => Informs(a) \in Int /\ Informs(a) <= 0
    BY DEF Informs, TimedOut, Closed, Nothing
  <2>3. Holds(replies', d, m)
    <3>1. replies \in Seq(Int) /\ d \in Nat /\ m \in Nat
      BY QueueTypes DEF TypeOK
    <3>2. Informs(a) # Nothing => Holds(Append(replies, Informs(a)), d, m)
      BY <2>1, <2>2, <3>1, AppendOther
    <3> QED
      BY <1>1, <2>1, <3>2
  <2> QED
    BY <1>1, <1>2, <2>1, <2>3 DEF InQueue
<1> QED
  BY <1>1, <1>2, <1>3, ChainFrame DEF TypeOK

\* Emptying the queue leaves a gap only where nobody will see it.
LEMMA ChainCleanup ==
  ASSUME TypeOK, Stages, Awake, NoLateAdd, NEW n \in 0..Answers, ChainAt(n),
         Cut => Cut', NEW a \in Actors, Cleanup(a)
  PROVE  Chain'
<1>1. /\ UNCHANGED <<got, rfcMsg, answered>>
      /\ replies' = <<>> /\ ~acceptReplies'
      /\ a \in {"caller", "abandoner"} /\ pc[a] = "cleanup"
  BY DEF Cleanup, locals, TypeOK, PlacesOK, Actors, AbandonPlaces, At
<1>2. /\ a = "caller" => Cut
      /\ Holding' => Holding
      /\ a # "caller" => (Holding' <=> Holding)
      /\ At("reader", "add")' <=> At("reader", "add")
  BY DEF Cleanup, TypeOK, PlacesOK, Stages, Actors, AbandonPlaces, AfterAbandon, At, Goto,
     Holding, Cut
<1>3. Cut \/ ~At("reader", "add") \/ ~HasAnswer
  <2> SUFFICES ASSUME a = "abandoner", ~Cut, HasAnswer PROVE ~At("reader", "add")
    BY <1>1, <1>2
  <2>1. ~waitForReply /\ ~inAgent /\ pc["caller"] # "start" /\ pc["abandoner"] = "cleanup"
    BY <1>1 DEF Stages, AbandonPlaces
  <2>2. ~ById /\ pc["caller"] \in {"read", "waitAny"}
    BY <2>1 DEF Cut, Stages
  <2> QED
    BY <2>1, <2>2 DEF Awake, NoLateAdd, At
<1>4. \A d \in 0..Answers : InQueue(d) => Cut' \/ InQueue(d)'
  <2> SUFFICES ASSUME NEW d \in 0..Answers, InQueue(d), ~Cut PROVE InQueue(d)'
    OBVIOUS
  <2>1. PICK m \in 0..Answers :
           /\ d <= m /\ m <= answered
           /\ Holds(replies, d, m)
           /\ At("reader", "add") => m = answered - 1
    BY DEF InQueue
  <2>2. Holds(replies', d, d)
    BY <1>1 DEF Holds
  <2>3. At("reader", "add") => m = d
    <3> SUFFICES ASSUME At("reader", "add"), d < m PROVE FALSE
      BY <2>1
    <3>1. PICK k \in 1..Len(replies) : replies[k] = d + 1
      BY <2>1 DEF Holds
    <3> QED
      BY <1>3, <3>1 DEF HasAnswer
  <2> QED
    <3>1. d <= answered' /\ d <= d
      BY <1>1, <2>1, QueueTypes DEF TypeOK
    <3>2. At("reader", "add")' => d = answered' - 1
      BY <1>1, <1>2, <2>1, <2>3
    <3> QED
      BY <1>1, <2>2, <3>1, <3>2 DEF InQueue
<1> QED
  BY <1>1, <1>2, <1>4, ChainFrame DEF TypeOK

LEMMA ChainEnter ==
  ASSUME TypeOK, Stages, NEW n \in 0..Answers, ChainAt(n), Cut => Cut', EnterGet
  PROVE  Chain'
<1>1. /\ UNCHANGED <<replies, answered, rfcMsg, acceptReplies, inConn>>
      /\ got' \in {got, Append(got, Nothing)}
  BY DEF EnterGet, flags, lists
<1>2. ~Holding /\ ~Holding' /\ (At("reader", "add")' <=> At("reader", "add"))
  BY DEF EnterGet, TypeOK, PlacesOK, Actors, AbandonPlaces, At, Goto, Holding
<1>3. Holds(got', 0, n)
  <2>1. got \in Seq(Int) /\ n \in Nat /\ Nothing \in Int /\ Nothing <= 0
    BY QueueTypes DEF TypeOK, Nothing
  <2>2. Holds(Append(got, Nothing), 0, n)
    BY <2>1, AppendOther DEF ChainAt
  <2> QED
    BY <1>1, <2>2 DEF ChainAt
<1>4. Taken(n) = n /\ Taken(n)' = n
  BY <1>2 DEF Taken
<1>5. Cut' \/ InQueue(n)'
  BY <1>1, <1>2, <1>4, InQueueFrame DEF ChainAt
<1> QED
  BY <1>2, <1>3, <1>4, <1>5 DEF Chain, ChainAt

\* What was in the caller's hands is what it got.
LEMMA ChainReturn ==
  ASSUME TypeOK, Stages, NEW n \in 0..Answers, ChainAt(n), Cut => Cut', Return
  PROVE  Chain'
<1>1. /\ UNCHANGED <<replies, answered, rfcMsg, acceptReplies, inConn>>
      /\ \/ got' = got /\ rfcMsg = Nothing
         \/ got' = Append(got, rfcMsg)
  BY DEF Return, flags, lists
<1>2. Holding /\ ~Holding' /\ (At("reader", "add")' <=> At("reader", "add"))
  BY DEF Return, TypeOK, PlacesOK, Actors, AbandonPlaces, At, Goto, Holding
<1>3. /\ got \in Seq(Int) /\ n \in Nat /\ rfcMsg \in Int /\ rfcMsg <= Answers
      /\ Answers \in Nat
  BY QueueTypes DEF TypeOK
<1>4. PICK d \in 0..Answers : d = Taken(n)
  BY TakenType DEF TypeOK
<1>8. d = IF rfcMsg > 0 THEN n + 1 ELSE n
  BY <1>2, <1>4 DEF Taken
<1>5. Holds(got', 0, d)
  <2>1. CASE rfcMsg > 0
    <3>1. rfcMsg = n + 1 /\ got' = Append(got, n + 1) /\ 0 <= n
      BY <1>1, <1>2, <2>1 DEF ChainAt, Nothing
    <3> QED
      BY <1>3, <1>8, <2>1, <3>1, AppendAnswer DEF ChainAt
  <2>2. CASE rfcMsg <= 0
    <3>1. Holds(Append(got, rfcMsg), 0, n)
      BY <1>3, <2>2, AppendOther DEF ChainAt
    <3>2. d = n
      BY <1>3, <1>8, <2>2
    <3> QED
      BY <1>1, <1>3, <1>8, <2>2, <3>1, <3>2 DEF ChainAt
  <2> QED
    BY <1>3, <2>1, <2>2
<1>6. Taken(d)' = d
  BY <1>2 DEF Taken
<1>7. Cut' \/ InQueue(d)'
  BY <1>1, <1>2, <1>4, InQueueFrame DEF ChainAt
<1> QED
  BY <1>2, <1>4, <1>5, <1>6, <1>7 DEF Chain, ChainAt

\* What was at the head of the queue is in the caller's hands.
LEMMA ChainPop ==
  ASSUME TypeOK, Stages, NEW n \in 0..Answers, ChainAt(n), Pop, pc["caller"] = "read",
         ~(ById /\ ~waitForReply), UNCHANGED <<got, answered, acceptReplies>>
  PROVE  Chain'
<1>1. ~Holding /\ Holding' /\ (At("reader", "add")' <=> At("reader", "add"))
  BY DEF Pop, TypeOK, PlacesOK, Actors, AbandonPlaces, At, Goto, Holding
<1>2. ~Cut /\ Taken(n) = n
  BY <1>1 DEF Cut, Taken
<1>3. PICK m \in 0..Answers :
         /\ n <= m /\ m <= answered
         /\ Holds(replies, n, m)
         /\ At("reader", "add") => m = answered - 1
         /\ m < answered /\ ~At("reader", "add") => ~inConn \/ ~acceptReplies
  BY <1>2 DEF ChainAt, InQueue
<1>4. /\ replies \in Seq(Int) /\ n \in Nat /\ m \in Nat /\ replies # <<>>
      /\ rfcMsg' = Head(replies) /\ replies' = Tail(replies) /\ (inConn' => inConn)
  <2>1. inConn' => inConn
    BY DEF Pop
  <2> QED
    BY <2>1, QueueTypes DEF TypeOK, Pop
<1>5. IF rfcMsg' > 0 THEN rfcMsg' = n + 1 /\ n < m /\ Holds(replies', n + 1, m)
                     ELSE Holds(replies', n, m)
  BY <1>3, <1>4, TakeHead
<1>6. PICK d \in Nat : d <= m /\ Holds(replies', d, m) /\ Taken(n)' = d
  BY <1>1, <1>3, <1>4, <1>5 DEF Taken
<1>7. InQueue(d)'
  BY <1>1, <1>3, <1>4, <1>6 DEF InQueue
<1>8. Holds(got', 0, n) /\ (rfcMsg' > 0 => rfcMsg' = n + 1)
  BY <1>5 DEF ChainAt
<1> QED
  BY <1>6, <1>7, <1>8 DEF Chain, ChainAt

LEMMA ChainRead ==
  ASSUME TypeOK, Stages, NEW n \in 0..Answers, ChainAt(n), Cut => Cut', ReadById \/ ReadAny
  PROVE  Chain'
<1>1. /\ UNCHANGED <<got, answered, acceptReplies>> /\ pc["caller"] = "read"
      /\ \/ Pop /\ ~(ById /\ ~waitForReply)
         \/ PopNothing
         \/ /\ Goto("caller", "waitId") \/ Goto("caller", "threw")
            /\ UNCHANGED <<rfcMsg, replies, inConn>>
  BY DEF ReadById, ReadAny, PopFails, flags, At
<1>2. CASE Pop /\ ~(ById /\ ~waitForReply)
  BY <1>1, <1>2, ChainPop
<1>3. CASE PopNothing
  <2>1. ~Holding /\ (At("reader", "add")' <=> At("reader", "add"))
        /\ rfcMsg' = 0 /\ UNCHANGED <<replies, inConn>>
    BY <1>1, <1>3 DEF PopFails, PopNothing, Nothing, TypeOK, PlacesOK, Actors, AbandonPlaces, At,
       Goto, Holding
  <2>2. Taken(n) = n /\ Taken(n)' = n
    BY <2>1 DEF Taken
  <2>3. Cut' \/ InQueue(n)'
    BY <1>1, <2>1, <2>2, InQueueFrame DEF ChainAt
  <2> QED
    BY <1>1, <2>1, <2>2, <2>3 DEF Chain, ChainAt
<1>4. CASE /\ Goto("caller", "waitId") \/ Goto("caller", "threw")
           /\ UNCHANGED <<rfcMsg, replies, inConn>>
  <2>1. ~Holding /\ ~Holding' /\ (At("reader", "add")' <=> At("reader", "add"))
    BY <1>1, <1>4 DEF TypeOK, PlacesOK, Actors, AbandonPlaces, At, Goto, Holding
  <2> QED
    BY <1>1, <1>4, <2>1, InQueueFrame, ChainFrame DEF TypeOK
<1> QED
  BY <1>1, <1>2, <1>3, <1>4

LEMMA OrderPreserved ==
  ASSUME OrderInv, [Next]_vars
  PROVE  OrderInv'
<1> USE DEF OrderInv
<1>1. TypeOK' /\ Stages'
  BY TypesPreserved, StagesPreserved
<1>2. Awake' /\ NoLateAdd'
  BY AwakePreserved, NoLateAddPreserved
<1>3. Chain'
  <2>1. PICK n \in 0..Answers : ChainAt(n)
    BY DEF Chain
  <2>2. Cut => Cut'
    BY CutPreserved
  <2> QED
    BY <2>1, <2>2, Cases, ChainFramed, ChainSend, ChainReceive, ChainAddReply, ChainTell,
       ChainCleanup, ChainEnter, ChainReturn, ChainRead
<1> QED
  BY <1>1, <1>2, <1>3

-----------------------------------------------------------------------------
\* Every field, local and program counter of the model stays in its range; in
\* particular only Abandon by the caller or by another application thread
\* reaches Message.cleanup.
THEOREM Types == Spec => []TypeOK
<1>1. OrderInv => TypeOK
  BY DEF OrderInv
<1> QED
  BY InitOrder, OrderPreserved, <1>1, PTL DEF Spec

\* The application gets the server's answers in order, none twice and none
\* left out (Message.putReply, Reply, waitForReply, Abandon, cleanup), for any
\* number of answers, with or without a bind, by id or for any message.
THEOREM Order == Spec => []DeliveredInOrder
<1>1. OrderInv => DeliveredInOrder
  <2> SUFFICES ASSUME OrderInv PROVE DeliveredInOrder
    OBVIOUS
  <2>1. PICK n \in 0..Answers : Holds(got, 0, n)
    BY DEF OrderInv, Chain, ChainAt
  <2>2. got \in Seq(Int) /\ n \in Nat
    BY QueueTypes DEF OrderInv, TypeOK
  <2> SUFFICES ASSUME NEW l \in 1..Len(got), got[l] > 0
               PROVE  /\ \A k \in 1..(l - 1) : got[k] < got[l]
                      /\ got[l] > 1 => \E k \in 1..(l - 1) : got[k] = got[l] - 1
    BY DEF DeliveredInOrder
  <2>3. ASSUME NEW k \in 1..(l - 1) PROVE got[k] < got[l]
    <3>1. k \in 1..Len(got) /\ k < l /\ got[k] \in Int /\ got[l] \in Int
      BY <2>2
    <3>2. got[k] > 0 => got[k] < got[l]
      BY <2>1, <3>1 DEF Holds
    <3> QED
      BY <3>1, <3>2
  <2>4. ASSUME got[l] > 1 PROVE \E k \in 1..(l - 1) : got[k] = got[l] - 1
    <3>1. got[l] \in Int /\ got[l] <= n
      BY <2>1, <2>2 DEF Holds
    <3>0. got[l] - 1 \in (0 + 1)..n
      BY <2>2, <2>4, <3>1
    <3>2. PICK k \in 1..Len(got) : got[k] = got[l] - 1
      BY <2>1, <3>0 DEF Holds
    <3>3. ~(l < k)
      BY <2>1, <2>4, <3>1, <3>2 DEF Holds
    <3>4. k \in 1..(l - 1)
      BY <2>2, <3>1, <3>2, <3>3
    <3> QED
      BY <3>2, <3>4
  <2> QED
    BY <2>3, <2>4
<1> QED
  BY InitOrder, OrderPreserved, <1>1, PTL DEF Spec

-----------------------------------------------------------------------------
\* Who has cleared the flags in Abandon.
PastFlags == {"incomplete", "bindprops", "free", "write", "unlink", "tell", "pulse",
              "pulseAgent", "cleanup"}

\* The flags say how far an abandon, or the reader, has come.
FlagsTell ==
  /\ ~waitForReply => ~acceptReplies
  /\ \A a \in Actors \ {"reader"} : pc[a] \in PastFlags => ~waitForReply
  /\ \A a \in Actors : pc[a] = "ignore" => ~acceptReplies
  /\ pc["reader"] \in {"bindprops", "free"} => complete
  /\ ~bindHeld /\ waitForReply /\ pc["caller"] # "start" => complete \/ ~IsBind

\* A message is cleaned up only after its sleeper was woken, and it can have no
\* other: it has left the agent and its flags are clear.
Gone ==
  /\ released \/ pc["abandoner"] = "cleanup"
       => /\ pc["caller"] \notin {"start", "waitId", "waitAny"}
          /\ ~inAgent /\ ~waitForReply
  /\ pc["abandoner"] = "pulseAgent" => pc["caller"] # "waitId"

\* The caller sleeps; or it asked for any message, found none and is about to
\* sleep, with the agent's lock in its hands.
Waiting ==
  \/ pc["caller"] \in {"waitId", "waitAny"}
  \/ ~ById /\ rfcMsg = Nothing /\ inAgent /\ pc["caller"] \in {"check", "return"}

\* There is something it does not know, which its last look at the message
\* before it sleeps, in check, may still find.
Unseen == replies # <<>> \/ (~waitForReply /\ pc["caller"] # "check")

\* A thread on its way to wake it.  The second of two that free the semaphore of
\* one bind throws, and wakes nobody.
Wakes(a) ==
  /\ pc[a] \in BeforePulse \/ (pc[a] = "pulseAgent" /\ pc["caller"] # "waitId")
  /\ pc[a] \in {"bindprops", "free"} => bindHeld
  /\ IsBind /\ pc[a] \in {"add", "stop", "complete"} => bindHeld
  /\ IsBind /\ pc[a] = "incomplete" => bindHeld \/ complete

\* Who frees the semaphore of a bind that is in the agent, before the reader does,
\* leaves it a response to read.
Freed ==
  /\ pc["caller"] \in {"start", "sent"} => pc["timer"] = "idle"
  /\ IsBind /\ rfcMsg # Nothing =>
       pc["caller"] \in {"check", "return", "end", "threw"} \cup AbandonPlaces
  /\ IsBind /\ ~ById /\ inAgent /\ rfcMsg = Nothing /\ ~bindHeld /\ ~complete
       => replies # <<>> \/ \E a \in {"timer", "closer"} : pc[a] \in {"write", "unlink", "tell"}

WakeInv == FlagsTell /\ Gone /\ Freed /\ (Waiting /\ Unseen => \E a \in Actors : Wakes(a))

LEMMA FlagsTellPreserved ==
  ASSUME TypeOK, Stages, FlagsTell, [Next]_vars
  PROVE  FlagsTell'
<1> USE DEF TypeOK, PlacesOK, FlagsOK, FlagsTell, Stages, PastFlags, AbandonPlaces, Actors, At,
   Goto, flags
<1>1. CASE Send \/ Receive \/ UserFinds \/ UserAbandons
  BY <1>1, ConstantsAssumption DEF Send, Receive, UserFinds, UserAbandons
<1>2. CASE Dispose
  BY <1>2 DEF Dispose
<1>3. CASE StartTimer \/ EnterGet \/ ReadById \/ ReadAny \/ Check \/ Return
  BY <1>3 DEF StartTimer, EnterGet, ReadById, ReadAny, Pop, PopFails, PopNothing, Check, Return
<1>4. CASE AddReply \/ StopAccepting
  BY <1>4 DEF AddReply, StopAccepting
<1>5. CASE Complete \/ BindProps \/ FreeAfterBind
  BY <1>5 DEF Complete, BindProps, FreeAfterBind, FreeBind
<1>6. CASE TimerSleeps \/ TimerFires
  BY <1>6 DEF TimerSleeps, TimerFires
<1>7. ASSUME NEW a \in Actors, AbandonEnter(a) PROVE FlagsTell'
  BY <1>7 DEF AbandonEnter, AfterAbandon
<1>8. ASSUME NEW a \in Actors, Proceeds(a) PROVE FlagsTell'
  BY <1>8 DEF Proceeds, AbandonIgnore, AbandonIncomplete, AbandonBindProps, WriteAbandon
<1>9. ASSUME NEW a \in Actors, AbandonFree(a) PROVE FlagsTell'
  BY <1>9 DEF AbandonFree, FreeBind
<1>10. ASSUME NEW a \in Actors, AbandonUnlink(a) \/ AbandonTell(a) \/ Cleanup(a) PROVE FlagsTell'
  BY <1>10 DEF AbandonUnlink, AbandonTell, Cleanup, AfterAbandon
<1>11. ASSUME NEW a \in Actors, PulseReplies(a) \/ PulseAgent(a) PROVE FlagsTell'
  BY <1>11 DEF PulseReplies, PulseAgent, AfterPulse
<1>12. CASE UNCHANGED vars
  BY <1>12 DEF vars
<1> QED
  BY <1>1, <1>2, <1>3, <1>4, <1>5, <1>6, <1>7, <1>8, <1>9, <1>10, <1>11, <1>12, Cases DEF Quiet

LEMMA GonePreserved ==
  ASSUME TypeOK, Stages, FlagsTell, Gone, [Next]_vars
  PROVE  Gone'
<1> USE DEF TypeOK, PlacesOK, FlagsOK, FlagsTell, Gone, Stages, PastFlags, AbandonPlaces, Actors,
   At, Goto, flags, lists
<1>1. CASE Send \/ Receive \/ Dispose
  BY <1>1 DEF Send, Receive, Dispose
<1>2. CASE UserFinds \/ UserAbandons
  BY <1>2 DEF UserFinds, UserAbandons
<1>3. CASE StartTimer \/ EnterGet \/ ReadById \/ ReadAny \/ Check \/ Return
  BY <1>3 DEF StartTimer, EnterGet, ReadById, ReadAny, Pop, PopFails, PopNothing, Check, Return
<1>4. CASE AddReply \/ StopAccepting \/ Complete \/ BindProps \/ FreeAfterBind
  BY <1>4 DEF AddReply, StopAccepting, Complete, BindProps, FreeAfterBind, FreeBind
<1>6. CASE TimerSleeps \/ TimerFires
  BY <1>6 DEF TimerSleeps, TimerFires
<1>7. ASSUME NEW a \in Actors, AbandonEnter(a) \/ Proceeds(a) PROVE Gone'
  BY <1>7 DEF AbandonEnter, Proceeds, AbandonIgnore, AbandonIncomplete, AbandonBindProps,
     WriteAbandon, AfterAbandon
<1>9. ASSUME NEW a \in Actors, AbandonFree(a) PROVE Gone'
  BY <1>9 DEF AbandonFree, FreeBind
<1>10. ASSUME NEW a \in Actors, AbandonUnlink(a) \/ AbandonTell(a) PROVE Gone'
  BY <1>10 DEF AbandonUnlink, AbandonTell, AfterAbandon
<1>11. ASSUME NEW a \in Actors, Cleanup(a) PROVE Gone'
  BY <1>11 DEF Cleanup, AfterAbandon
<1>12. ASSUME NEW a \in Actors, PulseReplies(a) PROVE Gone'
  BY <1>12 DEF PulseReplies
<1>13. ASSUME NEW a \in Actors, PulseAgent(a) PROVE Gone'
  BY <1>13 DEF PulseAgent, AfterPulse, AgentFree
<1>14. CASE UNCHANGED vars
  BY <1>14 DEF vars
<1> QED
  BY <1>1, <1>2, <1>3, <1>4, <1>6, <1>7, <1>9, <1>10, <1>11, <1>12, <1>13, <1>14, Cases DEF Quiet

LEMMA FreedPreserved ==
  ASSUME TypeOK, Stages, FlagsTell, Gone, Freed, [Next]_vars
  PROVE  Freed'
<1> USE DEF TypeOK, PlacesOK, FlagsOK, FlagsTell, Gone, Freed, Stages, PastFlags, AbandonPlaces,
   Actors,
      At, Goto, flags, lists, locals
<1>1. CASE Send
  BY <1>1, ConstantsAssumption DEF Send
<1>2. CASE Receive \/ Dispose
  BY <1>2 DEF Receive, Dispose
<1>3. CASE UserFinds \/ UserAbandons
  BY <1>3 DEF UserFinds, UserAbandons
<1>4. CASE StartTimer \/ EnterGet \/ Check \/ Return
  <2>1. CASE StartTimer
    BY <2>1 DEF StartTimer
  <2>2. CASE EnterGet
    BY <2>2 DEF EnterGet
  <2>3. CASE Check
    <3>1. pc'["caller"] \in {"abandon", "return"} /\ (inAgent' => inAgent)
      BY <2>3 DEF Check
    <3>2. /\ UNCHANGED <<rfcMsg, replies, bindHeld, complete>>
          /\ pc'["timer"] = pc["timer"] /\ pc'["closer"] = pc["closer"]
      BY <2>3 DEF Check
    <3> QED
      BY <3>1, <3>2
  <2>4. CASE Return
    <3>1. /\ pc'["caller"] \in {"call", "end", "waitAny"}
          /\ IsBind /\ rfcMsg # Nothing => pc'["caller"] = "end"
      BY <2>4 DEF Return
    <3>2. /\ UNCHANGED <<rfcMsg, replies, bindHeld, complete, inAgent>>
          /\ pc'["timer"] = pc["timer"] /\ pc'["closer"] = pc["closer"]
      BY <2>4 DEF Return
    <3> QED
      BY <3>1, <3>2
  <2> QED
    BY <1>4, <2>1, <2>2, <2>3, <2>4
<1>5. CASE ReadById \/ ReadAny
  <2>1. CASE Pop
    <3>1. rfcMsg' # Nothing /\ pc'["caller"] = "check"
      BY <2>1 DEF Pop, RepliesOK, Replies, Nothing, TimedOut, Closed
    <3> QED
      BY <3>1
  <2>2. CASE ReadById
    BY <2>1, <2>2 DEF ReadById, PopFails, PopNothing
  <2>3. CASE ReadAny
    BY <2>1, <2>3 DEF ReadAny, PopFails, PopNothing
  <2> QED
    BY <1>5, <2>2, <2>3
<1>6. CASE AddReply
  <2>1. replies' # <<>>
    BY <1>6 DEF AddReply, RepliesOK
  <2> QED
    BY <1>6, <2>1 DEF AddReply
<1>7. CASE StopAccepting \/ Complete \/ BindProps \/ FreeAfterBind
  BY <1>7 DEF StopAccepting, Complete, BindProps, FreeAfterBind, FreeBind
<1>8. CASE TimerSleeps \/ TimerFires
  BY <1>8 DEF TimerSleeps, TimerFires
<1>9. ASSUME NEW a \in Actors, AbandonEnter(a) \/ Proceeds(a) PROVE Freed'
  BY <1>9 DEF AbandonEnter, Proceeds, AbandonIgnore, AbandonIncomplete, AbandonBindProps,
     WriteAbandon, AfterAbandon
<1>10. ASSUME NEW a \in Actors, AbandonFree(a) PROVE Freed'
  BY <1>10 DEF AbandonFree, FreeBind
<1>11. ASSUME NEW a \in Actors, AbandonUnlink(a) PROVE Freed'
  BY <1>11 DEF AbandonUnlink
<1>12. ASSUME NEW a \in Actors, AbandonTell(a) PROVE Freed'
  <2>1. CASE a \in {"timer", "closer"}
    <3>1. inAgent => ~released
      OBVIOUS
    <3>2. Informs(a) # Nothing
      BY <2>1 DEF Informs, Nothing, TimedOut, Closed
    <3>3. ~released => replies' # <<>>
      BY <1>12, <3>2 DEF AbandonTell, RepliesOK
    <3>4. UNCHANGED <<inAgent, rfcMsg>> /\ (IsBind /\ rfcMsg # Nothing =>
             pc'["caller"] \in {"check", "return", "end", "threw"} \cup AbandonPlaces)
      BY <1>12, <2>1 DEF AbandonTell
    <3>5. pc'["caller"] \in {"start", "sent"} => pc'["timer"] = "idle"
      BY <1>12, <2>1 DEF AbandonTell
    <3> QED
      BY <3>1, <3>3, <3>4, <3>5
  <2>2. CASE a \notin {"timer", "closer"}
    BY <1>12, <2>2 DEF AbandonTell, Informs
  <2> QED
    BY <2>1, <2>2
<1>13. ASSUME NEW a \in Actors, Cleanup(a) PROVE Freed'
  BY <1>13 DEF Cleanup, AfterAbandon
<1>14. ASSUME NEW a \in Actors, PulseReplies(a) \/ PulseAgent(a) PROVE Freed'
  BY <1>14 DEF PulseReplies, PulseAgent, AfterPulse
<1>15. CASE UNCHANGED vars
  BY <1>15 DEF vars
<1> QED
  BY <1>1, <1>2, <1>3, <1>4, <1>5, <1>6, <1>7, <1>8, <1>9, <1>10, <1>11, <1>12, <1>13, <1>14,
     <1>15, Cases DEF Quiet

LEMMA WakersPreserved ==
  ASSUME TypeOK, Stages, WakeInv, [Next]_vars
  PROVE  Waiting' /\ Unseen' => \E a \in Actors : Wakes(a)'
<1> DEFINE Awoken == Waiting /\ Unseen => \E a \in Actors : Wakes(a)
<1>0. Awoken /\ FlagsTell /\ Gone /\ Freed
  BY DEF WakeInv
<1> SUFFICES Awoken'
  OBVIOUS
<1> USE <1>0 DEF TypeOK, PlacesOK, FlagsOK, FlagsTell, Gone, Stages, PastFlags, AbandonPlaces,
      Actors, At, Goto, flags, lists, locals, Freed, Waiting, Unseen, Wakes, BeforePulse
<1>1. CASE Send
  BY <1>1 DEF Send
<1>2. CASE Receive
  BY <1>2 DEF Receive
<1>3. CASE UserFinds \/ UserAbandons
  BY <1>3 DEF UserFinds, UserAbandons
<1>4. CASE Dispose
  BY <1>4 DEF Dispose
<1>5. CASE StartTimer \/ EnterGet
  BY <1>5 DEF StartTimer, EnterGet
<1>6. CASE ReadById \/ ReadAny
  <2>1. CASE Pop
    <3>1. rfcMsg' # Nothing /\ pc'["caller"] = "check"
      BY <2>1 DEF Pop, RepliesOK, Replies, Nothing, TimedOut, Closed
    <3> QED
      BY <3>1
  <2>2. CASE ReadById
    BY <2>1, <2>2 DEF ReadById, PopFails, PopNothing
  <2>3. CASE ReadAny
    BY <2>1, <2>3 DEF ReadAny, PopFails, PopNothing
  <2> QED
    BY <1>6, <2>2, <2>3
<1>7. CASE Check
  BY <1>7 DEF Check
<1>8. CASE Return
  BY <1>8 DEF Return
<1>9. CASE AddReply
  BY <1>9 DEF AddReply
<1>10. CASE StopAccepting \/ Complete \/ BindProps
  BY <1>10 DEF StopAccepting, Complete, BindProps
<1>11. CASE FreeAfterBind
  BY <1>11 DEF FreeAfterBind, FreeBind
<1>12. CASE TimerSleeps \/ TimerFires
  BY <1>12 DEF TimerSleeps, TimerFires
<1>13. ASSUME NEW a \in Actors, AbandonEnter(a) PROVE Awoken'
  BY <1>13 DEF AbandonEnter, AfterAbandon
<1>14. ASSUME NEW a \in Actors, Proceeds(a) PROVE Awoken'
  BY <1>14 DEF Proceeds, AbandonIgnore, AbandonIncomplete, AbandonBindProps, WriteAbandon
<1>15. ASSUME NEW a \in Actors, AbandonFree(a) PROVE Awoken'
  BY <1>15 DEF AbandonFree, FreeBind
<1>16. ASSUME NEW a \in Actors, AbandonUnlink(a) PROVE Awoken'
  BY <1>16 DEF AbandonUnlink
<1>17. ASSUME NEW a \in Actors, AbandonTell(a) PROVE Awoken'
  <2>1. CASE a = "caller"
    BY <1>17, <2>1 DEF AbandonTell, Informs
  <2>2. CASE a # "caller"
    <3>1. pc[a] = "tell" /\ UNCHANGED <<waitForReply, released, inAgent, bindHeld, rfcMsg>>
      BY <1>17 DEF AbandonTell
    <3>2. Waiting' => ~released
      BY <1>17, <2>2 DEF AbandonTell
    <3>3. ~released => pc'[a] = "pulse"
      BY <1>17 DEF AbandonTell
    <3> QED
      BY <3>2, <3>3
  <2> QED
    BY <2>1, <2>2
<1>18. ASSUME NEW a \in Actors, Cleanup(a) PROVE Awoken'
  BY <1>18 DEF Cleanup, AfterAbandon
<1>19. ASSUME NEW a \in Actors, PulseReplies(a) PROVE Awoken'
  BY <1>19 DEF PulseReplies
<1>20. ASSUME NEW a \in Actors, PulseAgent(a) PROVE Awoken'
  BY <1>20 DEF PulseAgent, AfterPulse, AgentFree
<1>21. CASE UNCHANGED vars
  BY <1>21 DEF vars
<1> QED
  BY <1>1, <1>2, <1>3, <1>4, <1>5, <1>6, <1>7, <1>8, <1>9, <1>10, <1>11, <1>12, <1>13, <1>14,
     <1>15, <1>16, <1>17, <1>18, <1>19, <1>20, <1>21, Cases DEF Quiet

LEMMA InitWake == Init => WakeInv
BY DEF Init, WakeInv, FlagsTell, Gone, Freed, Waiting, Actors, PastFlags

\* No wakeup is lost: the caller of getResponse that sleeps while there is a reply
\* to read, or while the request is over, has a thread on its way to wake it,
\* although the flags and the replies change without the lock it sleeps on.
THEOREM NoLostWakeup == Spec => []Inv
<1> DEFINE I == OrderInv /\ WakeInv
<1>1. Init => I
  BY InitOrder, InitWake
<1>2. I /\ [Next]_vars => I'
  <2> SUFFICES ASSUME I, [Next]_vars PROVE I'
    OBVIOUS
  <2>1. OrderInv'
    BY OrderPreserved
  <2>2. TypeOK /\ Stages /\ FlagsTell /\ Gone /\ Freed
    BY DEF OrderInv, WakeInv
  <2>3. FlagsTell' /\ Gone' /\ Freed' /\ (Waiting' /\ Unseen' => \E a \in Actors : Wakes(a)')
    BY <2>2, FlagsTellPreserved, GonePreserved, FreedPreserved, WakersPreserved
  <2> QED
    BY <2>1, <2>3 DEF WakeInv
<1>3. I => Inv
  <2> SUFFICES ASSUME I PROVE SleeperWillBeWoken
    BY DEF Inv, OrderInv
  <2>1. pc["caller"] \in {"waitId", "waitAny"} /\ (replies # <<>> \/ ~waitForReply)
          => \E a \in Actors : Wakes(a)
    BY DEF WakeInv, Waiting, Unseen
  <2> QED
    BY <2>1 DEF SleeperWillBeWoken, WillPulse, Wakes, BeforePulse, At
<1> QED
  BY <1>1, <1>2, <1>3, PTL DEF Spec

-----------------------------------------------------------------------------
(* The request as a queue.  While the message is in the agent nobody throws  *)
(* replies away, so what was queued so far can be counted.                   *)

Delivered == {v \in Queued : v > 0}

\* A reply that the caller still has in its local was returned, where it reads on.
Reading == {"start", "sent", "call", "read", "waitId", "waitAny"}
HandGiven ==
  pc["caller"] \in Reading /\ rfcMsg > 0 => rfcMsg \in Members(got)

\* The answers up to m were queued, and the reader has no other, or the next one in
\* its hands, or will never add one again.
CountedUpTo(m) ==
  /\ Delivered = 1..m
  /\ At("reader", "add") => m = answered - 1
  /\ m < answered /\ ~At("reader", "add") => ~inConn \/ ~acceptReplies

Counted == Listed => \E m \in 0..answered : CountedUpTo(m)

Deciders == {"abandon"}

\* What is over stays over, and what has not begun has not begun.
Informers == {"timer", "closer"}
Ended ==
  /\ ~waitForReply => ~acceptReplies
  /\ released => ~Listed
  /\ \A a \in Actors : pc[a] = "ignore" => ~acceptReplies
  /\ \A a \in Informers : pc[a] \in Telling \ {"ignore"} => ~waitForReply
  /\ ~IsBind => \A a \in Actors : pc[a] \notin {"bindprops", "free"}
  /\ pc["caller"] \in {"start", "sent"} => pc["timer"] = "idle"

QueueInv == HandGiven /\ Counted /\ Ended

LEMMA InitQueue == Init => QueueInv
<1> SUFFICES ASSUME Init PROVE QueueInv
  OBVIOUS
<1>1. HandGiven /\ Ended
  BY DEF Init, HandGiven, Ended, Nothing, Informers, Telling, Actors, Listed, At
<1>2. Members(got) = {} /\ Members(replies) = {}
  BY DEF Init, Members
<1>3. Delivered = {}
  BY <1>2 DEF Init, Delivered, Queued, Nothing
<1>4. CountedUpTo(0) /\ 0 \in 0..answered
  BY <1>3 DEF Init, CountedUpTo, At, Actors
<1> QED
  BY <1>1, <1>4 DEF QueueInv, Counted

-----------------------------------------------------------------------------
(* The sequences of replies.                                                *)

LEMMA MembersOfAppend ==
  ASSUME NEW T, NEW s \in Seq(T), NEW e \in T
  PROVE  Members(Append(s, e)) = Members(s) \cup {e}
<1>1. /\ Len(Append(s, e)) = Len(s) + 1 /\ Len(s) \in Nat
      /\ \A k \in 1..Len(s) : Append(s, e)[k] = s[k]
      /\ Append(s, e)[Len(s) + 1] = e
  OBVIOUS
<1>2. 1..(Len(s) + 1) = 1..Len(s) \cup {Len(s) + 1}
  BY <1>1
<1> QED
  BY <1>1, <1>2 DEF Members

LEMMA MembersOfTail ==
  ASSUME NEW T, NEW s \in Seq(T), s # <<>>
  PROVE  Members(s) = {Head(s)} \cup Members(Tail(s))
<1>1. /\ Len(s) \in Nat \ {0} /\ Len(Tail(s)) = Len(s) - 1
      /\ \A k \in 1..(Len(s) - 1) : Tail(s)[k] = s[k + 1]
      /\ Head(s) = s[1]
  OBVIOUS
<1>2. ASSUME NEW k \in 1..Len(s) PROVE s[k] \in {Head(s)} \cup Members(Tail(s))
  <2>1. CASE k = 1
    BY <1>1, <2>1
  <2>2. CASE k # 1
    <3>1. k - 1 \in 1..(Len(s) - 1) /\ (k - 1) + 1 = k
      BY <1>1, <2>2
    <3>2. Tail(s)[k - 1] = s[k]
      BY <1>1, <3>1
    <3> QED
      BY <1>1, <3>1, <3>2 DEF Members
  <2> QED
    BY <2>1, <2>2
<1>3. ASSUME NEW k \in 1..Len(Tail(s)) PROVE Tail(s)[k] \in Members(s)
  <2>1. k + 1 \in 1..Len(s) /\ Tail(s)[k] = s[k + 1]
    BY <1>1
  <2> QED
    BY <2>1 DEF Members
<1>4. Head(s) \in Members(s)
  BY <1>1 DEF Members
<1> QED
  BY <1>2, <1>3, <1>4 DEF Members

LEMMA AsRepliesOfAppend ==
  ASSUME NEW T, NEW s \in Seq(T), NEW e \in T
  PROVE  AsReplies(Append(s, e)) = Append(AsReplies(s), AsReply(e))
<1>1. /\ Len(Append(s, e)) = Len(s) + 1 /\ Len(s) \in Nat
      /\ \A k \in 1..Len(s) : Append(s, e)[k] = s[k]
      /\ Append(s, e)[Len(s) + 1] = e
  OBVIOUS
<1> DEFINE all == {AsReply(v) : v \in T}
<1>2. AsReplies(s) \in Seq(all) /\ Len(AsReplies(s)) = Len(s) /\ AsReply(e) \in all
  <2>1. \A k \in 1..Len(s) : AsReply(s[k]) \in all
    OBVIOUS
  <2>2. AsReplies(s) \in [1..Len(s) -> all] /\ AsReply(e) \in all
    BY <2>1 DEF AsReplies
  <2> HIDE DEF all
  <2> QED
    BY <1>1, <2>2
<1> HIDE DEF all
<1>3. /\ Append(AsReplies(s), AsReply(e)) \in Seq(all)
      /\ Len(Append(AsReplies(s), AsReply(e))) = Len(s) + 1
      /\ \A k \in 1..Len(s) : Append(AsReplies(s), AsReply(e))[k] = AsReplies(s)[k]
      /\ Append(AsReplies(s), AsReply(e))[Len(s) + 1] = AsReply(e)
  BY <1>2
<1>4. \A k \in 1..(Len(s) + 1) :
        Append(AsReplies(s), AsReply(e))[k] = AsReply(Append(s, e)[k])
  BY <1>1, <1>3 DEF AsReplies
<1>5. /\ AsReplies(Append(s, e)) = [k \in 1..(Len(s) + 1) |-> AsReply(Append(s, e)[k])]
      /\ Append(AsReplies(s), AsReply(e))
           = [k \in 1..(Len(s) + 1) |-> Append(AsReplies(s), AsReply(e))[k]]
  BY <1>1, <1>3 DEF AsReplies
<1> QED
  BY <1>4, <1>5

LEMMA AsRepliesOfTail ==
  ASSUME NEW T, NEW s \in Seq(T), s # <<>>
  PROVE  AsReplies(s) # <<>> /\ AsReplies(Tail(s)) = Tail(AsReplies(s))
<1>1. /\ Len(s) \in Nat \ {0} /\ Len(Tail(s)) = Len(s) - 1
      /\ \A k \in 1..(Len(s) - 1) : Tail(s)[k] = s[k + 1]
  OBVIOUS
<1> DEFINE all == {AsReply(v) : v \in T}
<1>2. AsReplies(s) \in Seq(all) /\ Len(AsReplies(s)) = Len(s)
  <2>1. \A k \in 1..Len(s) : AsReply(s[k]) \in all
    OBVIOUS
  <2>2. AsReplies(s) \in [1..Len(s) -> all]
    BY <2>1 DEF AsReplies
  <2> HIDE DEF all
  <2> QED
    BY <1>1, <2>2
<1> HIDE DEF all
<1>3. /\ AsReplies(s) # <<>>
      /\ Tail(AsReplies(s)) \in Seq(all) /\ Len(Tail(AsReplies(s))) = Len(s) - 1
      /\ \A k \in 1..(Len(s) - 1) : Tail(AsReplies(s))[k] = AsReplies(s)[k + 1]
  BY <1>1, <1>2
<1>4. \A k \in 1..(Len(s) - 1) : Tail(AsReplies(s))[k] = AsReply(Tail(s)[k])
  BY <1>1, <1>3 DEF AsReplies
<1>5. /\ AsReplies(Tail(s)) = [k \in 1..(Len(s) - 1) |-> AsReply(Tail(s)[k])]
      /\ Tail(AsReplies(s)) = [k \in 1..(Len(s) - 1) |-> Tail(AsReplies(s))[k]]
  BY <1>1, <1>3 DEF AsReplies
<1> QED
  BY <1>3, <1>4, <1>5

\* The greatest of the answers 1..m, or 0, whatever other responses there are.
LEMMA LastOne ==
  ASSUME NEW S \in SUBSET Int, NEW m \in Nat, {v \in S : v > 0} = 1..m
  PROVE  Max(S \cup {0}) = m
<1>1. m \in S \cup {0}
  OBVIOUS
<1>2. \A v \in S \cup {0} : m >= v
  OBVIOUS
<1> DEFINE T == S \cup {0}
<1>3. \E x \in T : \A v \in T : x >= v
  BY <1>1, <1>2
<1> HIDE DEF T
<1>4. Max(T) \in T /\ \A v \in T : Max(T) >= v
  BY <1>3, Zenon DEF Max
<1>5. Max(S \cup {0}) \in S \cup {0} /\ \A v \in S \cup {0} : Max(S \cup {0}) >= v
  BY <1>4 DEF T
<1>6. Max(S \cup {0}) >= m /\ m >= Max(S \cup {0}) /\ Max(S \cup {0}) \in Int
  <2>1. S \cup {0} \subseteq Int
    OBVIOUS
  <2>2. Max(S \cup {0}) >= m /\ m >= Max(S \cup {0})
    BY <1>1, <1>2, <1>5, Zenon
  <2> QED
    BY <1>5, <2>1, <2>2
<1>7. \A x \in Int : x >= m /\ m >= x => x = m
  OBVIOUS
<1> QED
  BY <1>6, <1>7

LEMMA CuttersAre ==
  ASSUME NEW p, NEW places
  PROVE  Cutters(p, places) = (IF p["timer"] \in places THEN 1 ELSE 0)
                                + (IF p["closer"] \in places THEN 1 ELSE 0)
<1> DEFINE S == {a \in {"timer", "closer"} : p[a] \in places}
<1>1. Cardinality({}) = 0 /\ IsFiniteSet({"timer"}) /\ Cardinality({"timer"}) = 1
      /\ Cardinality({"closer"}) = 1
  BY FS_EmptySet, FS_Singleton
<1>2. Cardinality({"timer"} \cup {"closer"}) = 2
  <2>1. "closer" \notin {"timer"}
    OBVIOUS
  <2> QED
    BY <1>1, <2>1, FS_AddElement
<1>3. S = (IF p["timer"] \in places THEN {"timer"} ELSE {})
            \cup (IF p["closer"] \in places THEN {"closer"} ELSE {})
  OBVIOUS
<1>4. Cutters(p, places) = Cardinality(S)
  BY DEF Cutters
<1> HIDE DEF S
<1>5. CASE p["timer"] \in places /\ p["closer"] \in places
  BY <1>2, <1>3, <1>4, <1>5
<1>6. CASE p["timer"] \in places /\ p["closer"] \notin places
  <2>1. S = {"timer"}
    BY <1>3, <1>6
  <2> QED
    BY <1>1, <1>4, <1>6, <2>1
<1>7. CASE p["timer"] \notin places /\ p["closer"] \in places
  <2>1. S = {"closer"}
    BY <1>3, <1>7
  <2> QED
    BY <1>1, <1>4, <1>7, <2>1
<1>8. CASE p["timer"] \notin places /\ p["closer"] \notin places
  <2>1. S = {}
    BY <1>3, <1>8
  <2> QED
    BY <1>1, <1>4, <1>8, <2>1
<1> QED
  BY <1>5, <1>6, <1>7, <1>8

-----------------------------------------------------------------------------
LEMMA EndedPreserved ==
  ASSUME TypeOK, Stages, Ended, [Next]_vars
  PROVE  Ended'
<1> USE DEF TypeOK, PlacesOK, FlagsOK, Stages, Ended, Listed, Informers, Telling, Actors,
            AbandonPlaces, At, Goto, flags, lists
<1>1. CASE Send \/ UserFinds \/ UserAbandons \/ Dispose
  <2>1. CASE Send
    BY <2>1 DEF Send
  <2>2. CASE UserFinds
    BY <2>2 DEF UserFinds
  <2>3. CASE UserAbandons
    BY <2>3 DEF UserAbandons
  <2>4. CASE Dispose
    BY <2>4 DEF Dispose
  <2> QED
    BY <1>1, <2>1, <2>2, <2>3, <2>4
<1>2. CASE Receive
  BY <1>2 DEF Receive
<1>3. CASE StartTimer \/ EnterGet \/ Check \/ Return
  <2>1. CASE StartTimer
    BY <2>1 DEF StartTimer
  <2>2. CASE EnterGet
    BY <2>2 DEF EnterGet
  <2>3. CASE Check
    BY <2>3 DEF Check
  <2>4. CASE Return
    BY <2>4 DEF Return
  <2> QED
    BY <1>3, <2>1, <2>2, <2>3, <2>4
<1>4. CASE ReadById \/ ReadAny
  BY <1>4 DEF ReadById, ReadAny, Pop, PopFails, PopNothing
<1>5. CASE AddReply \/ StopAccepting \/ Complete \/ BindProps \/ FreeAfterBind
  BY <1>5 DEF AddReply, StopAccepting, Complete, BindProps, FreeAfterBind, FreeBind
<1>6. CASE TimerSleeps \/ TimerFires
  <2>1. CASE TimerSleeps
    BY <2>1 DEF TimerSleeps
  <2>2. CASE TimerFires
    BY <2>2 DEF TimerFires
  <2> QED
    BY <1>6, <2>1, <2>2
<1>7. ASSUME NEW a \in Actors, Quiet(a) PROVE Ended'
  <2>1. CASE AbandonEnter(a)
    BY <2>1 DEF AbandonEnter, AfterAbandon
  <2>2. CASE AbandonIgnore(a)
    <3>1. /\ ~acceptReplies /\ UNCHANGED <<acceptReplies, released, inAgent>> /\ ~waitForReply'
          /\ pc' = [pc EXCEPT ![a] = "incomplete"] /\ pc[a] = "ignore"
      BY <2>2 DEF AbandonIgnore
    <3> QED
      BY <3>1
  <2>5. CASE AbandonIncomplete(a) \/ AbandonBindProps(a) \/ WriteAbandon(a)
    <3>1. /\ UNCHANGED <<waitForReply, acceptReplies, released, inAgent>>
          /\ pc[a] \in {"incomplete", "bindprops", "write"}
          /\ pc' = [pc EXCEPT ![a] = pc'[a]]
          /\ pc'[a] \in {"tell", "bindprops", "free", "write", "unlink", "threw"}
          /\ ~IsBind => pc'[a] \notin {"bindprops", "free"}
      BY <2>5 DEF AbandonIncomplete, AbandonBindProps, WriteAbandon
    <3>2. a \in Informers => ~waitForReply
      BY <3>1
    <3>3. \A b \in Actors : b # a => pc'[b] = pc[b]
      BY <3>1
    <3> QED
      BY <3>1, <3>2, <3>3
  <2>3. CASE AbandonFree(a)
    BY <2>3 DEF AbandonFree, FreeBind
  <2>4. CASE AbandonUnlink(a)
    BY <2>4 DEF AbandonUnlink
  <2> QED
    BY <1>7, <2>1, <2>2, <2>3, <2>4, <2>5 DEF Quiet, Proceeds
<1>8. ASSUME NEW a \in Actors, AbandonTell(a) PROVE Ended'
  BY <1>8 DEF AbandonTell
<1>9. ASSUME NEW a \in Actors, Cleanup(a) PROVE Ended'
  BY <1>9 DEF Cleanup, AfterAbandon
<1>10. ASSUME NEW a \in Actors, PulseReplies(a) \/ PulseAgent(a) PROVE Ended'
  BY <1>10 DEF PulseReplies, PulseAgent, AfterPulse
<1>11. CASE UNCHANGED vars
  BY <1>11 DEF vars
<1> QED
  BY <1>1, <1>2, <1>3, <1>4, <1>5, <1>6, <1>7, <1>8, <1>9, <1>10, <1>11, Cases

\* Who leaves got and rfcMsg alone, and does not let the caller read on.
LEMMA HandFrame ==
  ASSUME HandGiven, UNCHANGED <<got, rfcMsg>>,
         pc'["caller"] \in Reading => pc["caller"] \in Reading
  PROVE  HandGiven'
BY DEF HandGiven, Members

LEMMA HandGivenPreserved ==
  ASSUME TypeOK, HandGiven, [Next]_vars
  PROVE  HandGiven'
<1> USE DEF TypeOK, PlacesOK, Reading, Actors, AbandonPlaces, At, Goto
<1>1. CASE Send \/ UserFinds \/ UserAbandons \/ Dispose \/ Receive
  BY <1>1, HandFrame DEF Send, UserFinds, UserAbandons, Dispose, Receive, locals
<1>2. CASE StartTimer \/ Check
  BY <1>2, HandFrame DEF StartTimer, Check, locals
<1>3. CASE EnterGet
  <2>1. CASE UNCHANGED got
    BY <1>3, <2>1, HandFrame DEF EnterGet
  <2>2. CASE pc'["caller"] = "end"
    BY <2>2 DEF HandGiven
  <2> QED
    BY <1>3, <2>1, <2>2 DEF EnterGet
<1>4. CASE ReadById \/ ReadAny
  <2>1. CASE pc'["caller"] \in {"check", "threw"}
    BY <2>1 DEF HandGiven
  <2>2. CASE pc'["caller"] = "waitId" /\ UNCHANGED <<got, rfcMsg>>
    BY <1>4, <2>2, HandFrame DEF ReadById, ReadAny
  <2> QED
    BY <1>4, <2>1, <2>2 DEF ReadById, ReadAny, Pop, PopFails, PopNothing
<1>5. CASE Return
  <2>1. got \in Seq(Int) /\ rfcMsg \in Int
    BY QueueTypes
  <2>2. CASE got' = Append(got, rfcMsg)
    <3>1. rfcMsg \in Members(Append(got, rfcMsg))
      BY <2>1, MembersOfAppend
    <3>2. rfcMsg' = rfcMsg
      BY <1>5 DEF Return
    <3> QED
      BY <2>2, <3>1, <3>2 DEF HandGiven
  <2>3. CASE rfcMsg = Nothing /\ UNCHANGED rfcMsg
    BY <2>3 DEF HandGiven, Nothing
  <2> QED
    BY <1>5, <2>2, <2>3 DEF Return
<1>6. CASE AddReply \/ StopAccepting \/ Complete \/ BindProps \/ FreeAfterBind
  BY <1>6, HandFrame DEF AddReply, StopAccepting, Complete, BindProps, FreeAfterBind, FreeBind,
     locals
<1>7. CASE TimerSleeps \/ TimerFires
  BY <1>7, HandFrame DEF TimerSleeps, TimerFires, locals
<1>8. ASSUME NEW a \in Actors, Quiet(a) PROVE HandGiven'
  BY <1>8, HandFrame DEF Quiet, AbandonEnter, Proceeds, AbandonIgnore, AbandonIncomplete,
     AbandonBindProps, WriteAbandon, AbandonFree, FreeBind, AbandonUnlink, AfterAbandon, locals
<1>9. ASSUME NEW a \in Actors, AbandonTell(a) \/ Cleanup(a) PROVE HandGiven'
  BY <1>9, HandFrame DEF AbandonTell, Cleanup, AfterAbandon, locals
<1>10. ASSUME NEW a \in Actors, PulseReplies(a) \/ PulseAgent(a) PROVE HandGiven'
  BY <1>10, HandFrame DEF PulseReplies, PulseAgent, AfterPulse, locals
<1>11. CASE UNCHANGED vars
  BY <1>11, HandFrame DEF vars
<1> QED
  BY <1>1, <1>2, <1>3, <1>4, <1>5, <1>6, <1>7, <1>8, <1>9, <1>10, <1>11, Cases

LEMMA DeliveredFrame ==
  ASSUME UNCHANGED <<got, rfcMsg, replies>>
  PROVE  Delivered' = Delivered
BY DEF Delivered, Queued, Members

LEMMA CountedFrame ==
  ASSUME Counted, Delivered' = Delivered, UNCHANGED answered,
         Listed' => Listed,
         At("reader", "add")' <=> At("reader", "add"),
         inConn' => inConn \/ answered = 0,
         acceptReplies' => acceptReplies
  PROVE  Counted'
<1> SUFFICES ASSUME Listed' PROVE \E m \in 0..answered' : CountedUpTo(m)'
  BY DEF Counted
<1>1. PICK m \in 0..answered : CountedUpTo(m)
  BY DEF Counted
<1>2. CountedUpTo(m)'
  <2>1. m < answered => answered # 0
    OBVIOUS
  <2> QED
    BY <1>1, <2>1 DEF CountedUpTo
<1> QED
  BY <1>1, <1>2

\* What the caller takes from the queue it has in its hands, and what it had there it
\* has returned.
LEMMA DeliveredRead ==
  ASSUME TypeOK, HandGiven, pc["caller"] \in Reading, UNCHANGED got,
         Pop \/ (PopNothing /\ UNCHANGED replies)
  PROVE  Delivered' = Delivered
<1>1. replies \in Seq(Int) /\ got \in Seq(Int) /\ rfcMsg \in Int
  BY QueueTypes DEF TypeOK
<1>2. rfcMsg > 0 => rfcMsg \in Members(got)
  BY DEF HandGiven
<1>3. Members(got)' = Members(got)
  BY DEF Members
<1>4. CASE Pop
  <2>1. Members(replies) = {rfcMsg'} \cup Members(replies')
    BY <1>1, <1>4, MembersOfTail DEF Pop
  <2>2. Members(replies)' = Members(replies')
    BY DEF Members
  <2> QED
    BY <1>2, <1>3, <2>1, <2>2 DEF Delivered, Queued
<1>5. CASE PopNothing /\ UNCHANGED replies
  <2>1. Members(replies)' = Members(replies) /\ ~(rfcMsg' > 0)
    BY <1>5 DEF PopFails, PopNothing, Members, Nothing
  <2> QED
    BY <1>2, <1>3, <2>1 DEF Delivered, Queued
<1> QED
  BY <1>4, <1>5

\* A response that is no answer, appended to what is returned or to the queue.
LEMMA DeliveredReturn ==
  ASSUME TypeOK, UNCHANGED <<rfcMsg, replies>>, got' \in {got, Append(got, rfcMsg)}
  PROVE  Delivered' = Delivered
<1>1. got \in Seq(Int) /\ rfcMsg \in Int
  BY QueueTypes DEF TypeOK
<1>2. Members(got)' = Members(got) \/ Members(got)' = Members(got) \cup {rfcMsg}
  <2>1. Members(Append(got, rfcMsg)) = Members(got) \cup {rfcMsg}
    BY <1>1, MembersOfAppend
  <2>2. Members(got)' = Members(got')
    BY DEF Members
  <2> QED
    BY <2>1, <2>2
<1>3. Members(replies)' = Members(replies)
  BY DEF Members
<1> QED
  BY <1>2, <1>3 DEF Delivered, Queued

LEMMA DeliveredTell ==
  ASSUME TypeOK, NEW a \in Actors, AbandonTell(a)
  PROVE  Delivered' = Delivered
<1>1. replies \in Seq(Int) /\ UNCHANGED <<got, rfcMsg>>
  BY QueueTypes DEF TypeOK, AbandonTell, locals
<1>2. CASE UNCHANGED replies
  BY <1>1, <1>2, DeliveredFrame
<1>3. CASE replies' = Append(replies, Informs(a))
  <2>1. Informs(a) \in Int /\ ~(Informs(a) > 0)
    BY DEF Informs, Nothing, TimedOut, Closed
  <2>2. Members(replies') = Members(replies) \cup {Informs(a)}
    BY <1>1, <1>3, <2>1, MembersOfAppend
  <2>3. Members(replies)' = Members(replies') /\ Members(got)' = Members(got)
    BY <1>1 DEF Members
  <2> QED
    BY <1>1, <2>1, <2>2, <2>3 DEF Delivered, Queued
<1> QED
  BY <1>2, <1>3 DEF AbandonTell

LEMMA DeliveredAdd ==
  ASSUME TypeOK, Stages, AddReply
  PROVE  Delivered' = Delivered \cup {answered}
<1>1. replies \in Seq(Int) /\ answered \in Nat /\ answered > 0 /\ answered \in Int
  BY QueueTypes DEF TypeOK, AddReply, Stages, At
<1>2. UNCHANGED <<got, rfcMsg>> /\ replies' = Append(replies, answered)
  BY DEF AddReply, locals
<1>3. Members(replies') = Members(replies) \cup {answered}
  BY <1>1, <1>2, MembersOfAppend
<1>4. Members(replies)' = Members(replies') /\ Members(got)' = Members(got)
  BY <1>2 DEF Members
<1> QED
  BY <1>1, <1>2, <1>3, <1>4 DEF Delivered, Queued

LEMMA CountedPreserved ==
  ASSUME TypeOK, Stages, QueueInv, [Next]_vars
  PROVE  Counted'
<1> USE DEF TypeOK, PlacesOK, FlagsOK, Stages, Listed, Actors, AbandonPlaces, At, Goto, flags, lists
<1>0. HandGiven /\ Counted /\ answered \in Nat
  BY QueueTypes DEF QueueInv
<1>1. CASE Send
  BY <1>0, <1>1, DeliveredFrame, CountedFrame DEF Send, locals
<1>2. CASE UserFinds \/ UserAbandons \/ Dispose
  BY <1>0, <1>2, DeliveredFrame, CountedFrame DEF UserFinds, UserAbandons, Dispose, locals
<1>3. CASE Receive
  <2> SUFFICES ASSUME Listed' PROVE \E m \in 0..answered' : CountedUpTo(m)'
    BY DEF Counted
  <2>1. Delivered' = Delivered /\ answered' = answered + 1 /\ Listed
        /\ UNCHANGED <<inConn, acceptReplies>> /\ pc["reader"] = "idle"
        /\ pc'["reader"] = (IF inConn /\ acceptReplies THEN "add" ELSE "idle")
    BY <1>3, DeliveredFrame DEF Receive, locals
  <2>2. PICK m \in 0..answered : CountedUpTo(m)
    BY <1>0, <2>1 DEF Counted
  <2>3. CountedUpTo(m)'
    BY <1>0, <2>1, <2>2 DEF CountedUpTo
  <2> QED
    BY <1>0, <2>1, <2>2, <2>3
<1>4. CASE StartTimer \/ Check
  BY <1>0, <1>4, DeliveredFrame, CountedFrame DEF StartTimer, Check, locals
<1>5. CASE EnterGet
  <2>1. CASE UNCHANGED got
    BY <1>0, <1>5, <2>1, DeliveredFrame, CountedFrame DEF EnterGet
  <2>2. CASE ~inAgent
    BY <1>5, <2>2 DEF EnterGet, Counted
  <2> QED
    BY <1>5, <2>1, <2>2 DEF EnterGet
<1>6. CASE ReadById \/ ReadAny
  <2>1. CASE Pop \/ (PopNothing /\ UNCHANGED replies)
    <3>1. Delivered' = Delivered
      BY <1>0, <1>6, <2>1, DeliveredRead DEF ReadById, ReadAny, Reading
    <3>2. inConn' => inConn
      BY <2>1 DEF Pop, PopFails, PopNothing
    <3> QED
      BY <1>0, <1>6, <2>1, <3>1, <3>2, CountedFrame DEF ReadById, ReadAny, Pop, PopFails,
         PopNothing
  <2>2. CASE UNCHANGED <<rfcMsg, replies, inConn>> /\ pc'["caller"] \in {"waitId", "threw"}
    BY <1>0, <1>6, <2>2, DeliveredFrame, CountedFrame DEF ReadById, ReadAny, Pop, PopFails,
       PopNothing
  <2> QED
    BY <1>6, <2>1, <2>2 DEF ReadById, ReadAny, PopFails, PopNothing
<1>7. CASE Return
  BY <1>0, <1>7, DeliveredReturn, CountedFrame DEF Return
<1>8. CASE AddReply
  <2> SUFFICES ASSUME Listed' PROVE \E m \in 0..answered' : CountedUpTo(m)'
    BY DEF Counted
  <2>1. Delivered' = Delivered \cup {answered} /\ answered' = answered /\ Listed
        /\ pc["reader"] = "add" /\ pc'["reader"] # "add" /\ answered > 0
    BY <1>8, DeliveredAdd DEF AddReply
  <2>2. PICK m \in 0..answered : CountedUpTo(m)
    BY <1>0, <2>1 DEF Counted
  <2>3. m = answered - 1 /\ Delivered = 1..m
    BY <2>1, <2>2 DEF CountedUpTo
  <2>4. Delivered' = 1..answered'
    BY <1>0, <2>1, <2>3
  <2>5. CountedUpTo(answered)'
    BY <1>0, <2>1, <2>4 DEF CountedUpTo
  <2> QED
    BY <1>0, <2>1, <2>5
<1>9. CASE StopAccepting \/ Complete \/ BindProps \/ FreeAfterBind
  BY <1>0, <1>9, DeliveredFrame, CountedFrame DEF StopAccepting, Complete, BindProps,
     FreeAfterBind, FreeBind, locals
<1>10. CASE TimerSleeps \/ TimerFires
  BY <1>0, <1>10, DeliveredFrame, CountedFrame DEF TimerSleeps, TimerFires, locals
<1>11. ASSUME NEW a \in Actors, Quiet(a) PROVE Counted'
  <2>1. UNCHANGED <<got, rfcMsg, replies, answered>>
        /\ (inAgent' => inAgent) /\ (inConn' => inConn) /\ (acceptReplies' => acceptReplies)
    BY <1>11 DEF Quiet, AbandonEnter, Proceeds, AbandonIgnore, AbandonIncomplete,
       AbandonBindProps, WriteAbandon, AbandonFree, AbandonUnlink, locals
  <2>2. /\ pc'["caller"] # "start" \/ pc'["caller"] = pc["caller"]
        /\ pc'["reader"] = "add" <=> pc["reader"] = "add"
    BY <1>11 DEF Quiet, AbandonEnter, Proceeds, AbandonIgnore, AbandonIncomplete,
       AbandonBindProps, WriteAbandon, AbandonFree, FreeBind, AbandonUnlink, AfterAbandon
  <2> QED
    BY <1>0, <2>1, <2>2, DeliveredFrame, CountedFrame
<1>12. ASSUME NEW a \in Actors, AbandonTell(a) PROVE Counted'
  <2>1. Delivered' = Delivered
    BY <1>12, DeliveredTell
  <2>2. UNCHANGED <<answered, inAgent, inConn, acceptReplies>>
        /\ pc'["reader"] = pc["reader"] /\ (pc'["caller"] = "start" => pc["caller"] = "start")
    BY <1>12 DEF AbandonTell
  <2> QED
    BY <1>0, <2>1, <2>2, CountedFrame
<1>13. ASSUME NEW a \in Actors, Cleanup(a) PROVE Counted'
  <2>1. ~inAgent' /\ pc'["caller"] # "start"
    BY <1>13 DEF Cleanup, AfterAbandon
  <2> QED
    BY <2>1 DEF Counted
<1>14. ASSUME NEW a \in Actors, PulseReplies(a) \/ PulseAgent(a) PROVE Counted'
  <2>1. UNCHANGED <<got, rfcMsg, replies, answered, inAgent, inConn, acceptReplies>>
    BY <1>14 DEF PulseReplies, PulseAgent, locals
  <2>2. (pc'["reader"] = "add" <=> pc["reader"] = "add")
        /\ (pc'["caller"] = "start" => pc["caller"] = "start")
    BY <1>14 DEF PulseReplies, PulseAgent, AfterPulse
  <2> QED
    BY <1>0, <2>1, <2>2, DeliveredFrame, CountedFrame
<1>15. CASE UNCHANGED vars
  BY <1>0, <1>15, DeliveredFrame, CountedFrame DEF vars
<1> QED
  BY <1>1, <1>2, <1>3, <1>4, <1>5, <1>6, <1>7, <1>8, <1>9, <1>10, <1>11, <1>12, <1>13, <1>14,
     <1>15, Cases

LEMMA QueuePreserved ==
  ASSUME TypeOK, Stages, QueueInv, [Next]_vars
  PROVE  QueueInv'
BY EndedPreserved, HandGivenPreserved, CountedPreserved DEF QueueInv

-----------------------------------------------------------------------------
(* Each step of the request is one of the queue, or none.                    *)

QueueStep ==
  \/ Abstract!Arrives \/ Abstract!Settles
  \/ Abstract!TakeReply \/ Abstract!TakeNull
  \/ UserAbandons /\ Abstract!AbandonAll
  \/ UNCHANGED (Abstract!queue)

\* A message outside the agent does not come back, and nobody can tell what becomes
\* of it.
LEMMA Hidden ==
  ASSUME ~Listed, ~Listed'
  PROVE  UNCHANGED (Abstract!queue)
<1>1. /\ (acceptReplies /\ Listed)' = (acceptReplies /\ Listed)
      /\ (waitForReply /\ Listed)' = (waitForReply /\ Listed)
      /\ Listed' = Listed
  BY DEF Listed
<1>2. /\ (At("reader", "add") /\ Listed)' = (At("reader", "add") /\ Listed)
      /\ (At("reader", "stop") /\ Listed)' = (At("reader", "stop") /\ Listed)
  OBVIOUS
<1>3. /\ (IF Listed THEN AsReplies(replies) ELSE <<>>)' = <<>>
      /\ (IF Listed THEN AsReplies(replies) ELSE <<>>) = <<>>
      /\ (IF Listed THEN Max(Queued \cup {0}) ELSE 0)' = 0
      /\ (IF Listed THEN Max(Queued \cup {0}) ELSE 0) = 0
  OBVIOUS
<1>4. /\ (IF waitForReply /\ Listed THEN Cutters(pc, {"abandon"}) ELSE 0)' = 0
      /\ (IF waitForReply /\ Listed THEN Cutters(pc, {"abandon"}) ELSE 0) = 0
      /\ (IF Listed THEN Cutters(pc, Telling) ELSE 0)' = 0
      /\ (IF Listed THEN Cutters(pc, Telling) ELSE 0) = 0
  OBVIOUS
<1> QED
  BY <1>1, <1>2, <1>3, <1>4 DEF Abstract!queue

LEMMA Leaves ==
  ASSUME ~Listed'
  PROVE  Abstract!Leave
BY DEF Abstract!Leave

LEMMA ListedBefore ==
  ASSUME TypeOK, [Next]_vars, Listed'
  PROVE  Listed
<1> USE DEF TypeOK, PlacesOK, Listed, Actors, AbandonPlaces, At, Goto, lists
<1>1. CASE Send \/ Receive \/ UserFinds \/ UserAbandons \/ Dispose
  <2>1. CASE Send
    BY <2>1 DEF Send
  <2>2. CASE Receive
    BY <2>2 DEF Receive
  <2>3. CASE UserFinds \/ UserAbandons
    BY <2>3 DEF UserFinds, UserAbandons
  <2>4. CASE Dispose
    BY <2>4 DEF Dispose
  <2> QED
    BY <1>1, <2>1, <2>2, <2>3, <2>4
<1>2. CASE StartTimer \/ EnterGet \/ ReadById \/ ReadAny \/ Check \/ Return
  BY <1>2 DEF StartTimer, EnterGet, ReadById, ReadAny, Pop, PopFails, PopNothing, Check, Return
<1>3. CASE AddReply \/ StopAccepting \/ Complete \/ BindProps \/ FreeAfterBind
  BY <1>3 DEF AddReply, StopAccepting, Complete, BindProps, FreeAfterBind, FreeBind
<1>4. CASE TimerSleeps \/ TimerFires
  BY <1>4 DEF TimerSleeps, TimerFires
<1>5. ASSUME NEW a \in Actors, Quiet(a) PROVE Listed
  <2>1. inAgent' => inAgent
    BY <1>5 DEF Quiet, AbandonEnter, Proceeds, AbandonIgnore, AbandonIncomplete, AbandonBindProps,
       WriteAbandon, AbandonFree, AbandonUnlink
  <2>2. pc'["caller"] = "start" => pc["caller"] = "start"
    <3>1. CASE AbandonEnter(a) \/ Proceeds(a)
      BY <3>1 DEF AbandonEnter, Proceeds, AbandonIgnore, AbandonIncomplete, AbandonBindProps,
         WriteAbandon, AfterAbandon
    <3>2. CASE AbandonFree(a) \/ AbandonUnlink(a)
      BY <3>2 DEF AbandonFree, FreeBind, AbandonUnlink
    <3> QED
      BY <1>5, <3>1, <3>2 DEF Quiet
  <2> QED
    BY <2>1, <2>2
<1>6. ASSUME NEW a \in Actors, AbandonTell(a) \/ Cleanup(a) PROVE Listed
  BY <1>6 DEF AbandonTell, Cleanup, AfterAbandon
<1>7. ASSUME NEW a \in Actors, PulseReplies(a) \/ PulseAgent(a) PROVE Listed
  BY <1>7 DEF PulseReplies, PulseAgent, AfterPulse
<1>8. CASE UNCHANGED vars
  BY <1>8 DEF vars
<1> QED
  BY <1>1, <1>2, <1>3, <1>4, <1>5, <1>6, <1>7, <1>8, Cases

LEMMA QueuedType ==
  ASSUME TypeOK
  PROVE  Queued \in SUBSET Int
<1>1. got \in Seq(Int) /\ replies \in Seq(Int) /\ rfcMsg \in Int
  BY QueueTypes DEF TypeOK
<1> QED
  BY <1>1 DEF Queued, Members

\* What the abstract queue calls answered.
LEMMA LastIs ==
  ASSUME TypeOK, Counted, Listed
  PROVE  \E m \in 0..answered : CountedUpTo(m) /\ m \in Nat /\ Max(Queued \cup {0}) = m
<1>1. PICK m \in 0..answered : CountedUpTo(m)
  BY DEF Counted
<1>2. m \in Nat /\ {v \in Queued : v > 0} = 1..m
  BY <1>1, QueueTypes DEF TypeOK, CountedUpTo, Delivered
<1> QED
  BY <1>1, <1>2, QueuedType, LastOne

LEMMA LastFrame ==
  ASSUME TypeOK, TypeOK', Counted, Listed, Delivered' = Delivered
  PROVE  Max(Queued \cup {0})' = Max(Queued \cup {0})
<1>1. PICK m \in 0..answered : CountedUpTo(m) /\ m \in Nat /\ Max(Queued \cup {0}) = m
  BY LastIs
<1>2. {v \in Queued' : v > 0} = 1..m
  BY <1>1 DEF CountedUpTo, Delivered
<1>3. Queued' \in SUBSET Int
  <2>1. got' \in Seq(Int) /\ replies' \in Seq(Int) /\ rfcMsg' \in Int
    <3>1. Replies \subseteq Int /\ Replies \cup {Nothing} \subseteq Int
      BY ConstantsAssumption DEF Replies, TimedOut, Closed, Nothing
    <3>2. replies' \in Seq(Replies) /\ rfcMsg' \in Replies \cup {Nothing}
          /\ got' \in Seq(Replies \cup {Nothing})
      BY DEF TypeOK, RepliesOK, Replies
    <3>3. \A S \in SUBSET Int : \A s \in Seq(S) : s \in Seq(Int)
      <4> SUFFICES ASSUME NEW S \in SUBSET Int, NEW s \in Seq(S) PROVE s \in Seq(Int)
        OBVIOUS
      <4>1. Len(s) \in Nat /\ s \in [1..Len(s) -> S]
        OBVIOUS
      <4>2. s \in [1..Len(s) -> Int]
        BY <4>1
      <4> QED
        BY <4>1, <4>2
    <3> QED
      BY <3>1, <3>2, <3>3
  <2> QED
    BY <2>1 DEF Queued, Members
<1> QED
  BY <1>1, <1>2, <1>3, LastOne

LEMMA CuttersFrame ==
  ASSUME NEW places, \A a \in Informers : pc'[a] \in places <=> pc[a] \in places
  PROVE  Cutters(pc', places) = Cutters(pc, places)
BY CuttersAre DEF Informers

\* The steps that the reader of the queue does not notice.
SameCutters ==
  \A a \in Informers : /\ waitForReply => (pc'[a] \in Deciders <=> pc[a] \in Deciders)
                       /\ pc'[a] \in Telling <=> pc[a] \in Telling
SamePutter ==
  /\ At("reader", "add")' <=> At("reader", "add")
  /\ At("reader", "stop")' <=> At("reader", "stop")

LEMMA Unnoticed ==
  ASSUME TypeOK, TypeOK', Counted, Listed, Listed', Delivered' = Delivered,
         UNCHANGED <<replies, acceptReplies, waitForReply>>, SamePutter, SameCutters
  PROVE  UNCHANGED (Abstract!queue)
<1>1. Max(Queued \cup {0})' = Max(Queued \cup {0})
  BY LastFrame
<1>2. /\ waitForReply => Cutters(pc', Deciders) = Cutters(pc, Deciders)
      /\ Cutters(pc', Telling) = Cutters(pc, Telling)
  BY CuttersFrame DEF SameCutters
<1>3. AsReplies(replies)' = AsReplies(replies)
  BY DEF AsReplies
<1> QED
  BY <1>1, <1>2, <1>3 DEF Abstract!queue, SamePutter, Deciders

LEMMA Cuts ==
  ASSUME TypeOK, TypeOK', Counted, Listed, Listed', Delivered' = Delivered, SamePutter,
         waitForReply, UNCHANGED <<replies, waitForReply>>,
         acceptReplies' \in {acceptReplies, FALSE},
         NEW a \in Informers, pc[a] \notin Deciders \cup Telling, pc'[a] \in Deciders,
         \A b \in Informers : b # a => pc'[b] = pc[b]
  PROVE  Abstract!Cut
<1>1. Max(Queued \cup {0})' = Max(Queued \cup {0}) /\ AsReplies(replies)' = AsReplies(replies)
  BY LastFrame DEF AsReplies
<1>2. /\ Cutters(pc, Deciders) + Cutters(pc, Telling) < 2
      /\ Cutters(pc', Deciders) = Cutters(pc, Deciders) + 1
      /\ Cutters(pc', Telling) = Cutters(pc, Telling)
  <2>1. pc'[a] \notin Telling /\ pc[a] \notin Deciders /\ pc[a] \notin Telling
    BY DEF Deciders, Telling
  <2>2. \A b : pc[b] \in Deciders => pc[b] \notin Telling
    BY DEF Deciders, Telling
  <2>3. CASE a = "timer"
    <3>1. pc'["closer"] = pc["closer"]
      BY <2>3 DEF Informers
    <3> QED
      BY <2>1, <2>2, <2>3, <3>1, CuttersAre
  <2>4. CASE a = "closer"
    <3>1. pc'["timer"] = pc["timer"]
      BY <2>4 DEF Informers
    <3> QED
      BY <2>1, <2>2, <2>4, <3>1, CuttersAre
  <2> QED
    BY <2>3, <2>4 DEF Informers
<1>3. (acceptReplies /\ Listed)' \in {acceptReplies /\ Listed, FALSE}
  <2>1. acceptReplies \in BOOLEAN /\ acceptReplies' \in BOOLEAN
    BY DEF TypeOK, FlagsOK
  <2> QED
    BY <2>1
<1>4. /\ UNCHANGED (IF Listed THEN AsReplies(replies) ELSE <<>>)
      /\ UNCHANGED (waitForReply /\ Listed)
      /\ Listed' = Listed
  BY <1>1 DEF Listed
<1>5. /\ UNCHANGED (IF Listed THEN Max(Queued \cup {0}) ELSE 0)
      /\ UNCHANGED (At("reader", "add") /\ Listed)
      /\ UNCHANGED (At("reader", "stop") /\ Listed)
  BY <1>1 DEF SamePutter
<1>6. /\ (IF waitForReply /\ Listed THEN Cutters(pc, Deciders) ELSE 0) = Cutters(pc, Deciders)
      /\ (IF waitForReply /\ Listed THEN Cutters(pc, Deciders) ELSE 0)' = Cutters(pc', Deciders)
      /\ (IF Listed THEN Cutters(pc, Telling) ELSE 0) = Cutters(pc, Telling)
      /\ (IF Listed THEN Cutters(pc, Telling) ELSE 0)' = Cutters(pc', Telling)
  OBVIOUS
<1> QED
  BY <1>2, <1>3, <1>4, <1>5, <1>6 DEF Abstract!Cut, Abstract!server, Deciders

LEMMA Decides ==
  ASSUME TypeOK, TypeOK', Counted, Listed, Listed', Delivered' = Delivered, SamePutter,
         waitForReply, UNCHANGED <<replies, waitForReply>>, ~acceptReplies',
         NEW a \in Informers, pc[a] \in Deciders, pc'[a] \in Telling,
         \A b \in Informers : b # a => pc'[b] = pc[b]
  PROVE  Abstract!Decide
<1>1. Max(Queued \cup {0})' = Max(Queued \cup {0}) /\ AsReplies(replies)' = AsReplies(replies)
  BY LastFrame DEF AsReplies
<1>2. /\ Cutters(pc, Deciders) > 0
      /\ Cutters(pc', Deciders) = Cutters(pc, Deciders) - 1
      /\ Cutters(pc', Telling) = Cutters(pc, Telling) + 1
  <2>1. pc'[a] \notin Deciders /\ pc[a] \notin Telling
    BY DEF Deciders, Telling
  <2> QED
    BY <2>1, CuttersAre DEF Informers
<1> QED
  BY <1>1, <1>2 DEF Abstract!Decide, Abstract!server, SamePutter, Deciders

LEMMA Closes ==
  ASSUME TypeOK, TypeOK', Counted, Listed, Listed', Delivered' = Delivered, SamePutter,
         waitForReply, UNCHANGED <<replies, acceptReplies>>, ~waitForReply',
         NEW a \in Informers, pc[a] \in Telling, pc'[a] \in Telling,
         \A b \in Informers : b # a => pc'[b] = pc[b]
  PROVE  Abstract!Close
<1>1. Max(Queued \cup {0})' = Max(Queued \cup {0}) /\ AsReplies(replies)' = AsReplies(replies)
  BY LastFrame DEF AsReplies
<1>2. Cutters(pc, Telling) > 0 /\ Cutters(pc', Telling) = Cutters(pc, Telling)
  BY CuttersAre DEF Informers, Telling
<1> QED
  BY <1>1, <1>2 DEF Abstract!Close, Abstract!server, SamePutter

LEMMA Tells ==
  ASSUME TypeOK, TypeOK', Counted, Listed, Listed', Delivered' = Delivered, SamePutter,
         ~waitForReply, UNCHANGED <<acceptReplies, waitForReply>>,
         NEW a \in Informers, replies' = Append(replies, Informs(a)),
         pc[a] \in Telling, pc'[a] \notin Telling,
         \A b \in Informers : b # a => pc'[b] = pc[b]
  PROVE  Abstract!Tell
<1>1. Max(Queued \cup {0})' = Max(Queued \cup {0})
  BY LastFrame
<1>2. Cutters(pc, Telling) > 0 /\ Cutters(pc', Telling) = Cutters(pc, Telling) - 1
  BY CuttersAre DEF Informers, Telling
<1>3. Answers \in Nat \ {0} /\ Informs(a) \in {-1, -2}
  BY ConstantsAssumption DEF Informs, TimedOut, Closed, Informers
<1>4. AsReply(Informs(a)) = [kind |-> "closed", number |-> 0]
  BY <1>3 DEF AsReply
<1>5. replies \in Seq(Int) /\ Informs(a) \in Int
  BY <1>3, QueueTypes DEF TypeOK
<1>6. AsReplies(Append(replies, Informs(a))) = Append(AsReplies(replies), AsReply(Informs(a)))
  BY <1>5, AsRepliesOfAppend
<1>7. AsReplies(replies)' = Append(AsReplies(replies), [kind |-> "closed", number |-> 0])
  BY <1>4, <1>6 DEF AsReplies
<1> QED
  BY <1>1, <1>2, <1>7 DEF Abstract!Tell, Abstract!server, Abstract!flags, SamePutter

LEMMA Puts ==
  ASSUME TypeOK, TypeOK', Stages, Counted, Counted', Listed, Listed', SameCutters, AddReply
  PROVE  Abstract!Answer \/ Abstract!Finish
<1>1. /\ Answers \in Nat \ {0} /\ answered \in Nat /\ answered > 0 /\ answered <= Answers
      /\ replies \in Seq(Int)
  BY QueueTypes, ConstantsAssumption DEF TypeOK, RepliesOK, AddReply, Stages, At
<1>2. PICK m \in 0..answered : CountedUpTo(m) /\ m \in Nat /\ Max(Queued \cup {0}) = m
  BY LastIs
<1>3. m = answered - 1 /\ Delivered' = 1..answered
  <2>1. m = answered - 1 /\ Delivered = 1..m
    BY <1>2 DEF CountedUpTo, AddReply
  <2>2. Delivered' = Delivered \cup {answered}
    BY DeliveredAdd
  <2> QED
    BY <1>1, <2>1, <2>2
<1>4. Max(Queued \cup {0})' = answered
  <2>1. Queued' \in SUBSET Int
    <3>1. Queued' = Queued \cup {answered}
      <4>1. UNCHANGED <<got, rfcMsg>> /\ replies' = Append(replies, answered)
        BY DEF AddReply, locals
      <4>2. Members(replies') = Members(replies) \cup {answered}
        BY <1>1, <4>1, MembersOfAppend
      <4>3. Members(replies)' = Members(replies') /\ Members(got)' = Members(got)
        BY <4>1 DEF Members
      <4> QED
        BY <4>1, <4>2, <4>3 DEF Queued
    <3> QED
      BY <1>1, <3>1, QueuedType
  <2>2. {v \in Queued' : v > 0} = 1..answered
    BY <1>3 DEF Delivered
  <2> QED
    BY <1>1, <2>1, <2>2, LastOne
<1>5. /\ waitForReply => Cutters(pc', Deciders) = Cutters(pc, Deciders)
      /\ Cutters(pc', Telling) = Cutters(pc, Telling)
  BY CuttersFrame DEF SameCutters
<1>6. AsReplies(replies)' = Append(AsReplies(replies), AsReply(answered))
  <2>1. AsReplies(Append(replies, answered)) = Append(AsReplies(replies), AsReply(answered))
    BY <1>1, AsRepliesOfAppend
  <2> QED
    BY <2>1 DEF AsReplies, AddReply
<1>7. UNCHANGED <<acceptReplies, waitForReply>> /\ pc["reader"] = "add"
      /\ pc'["reader"] = (IF answered = Answers THEN "stop" ELSE "pulse")
  BY DEF AddReply, flags, At, Goto, TypeOK, PlacesOK, Actors
<1>8. CASE answered = Answers
  <2>1. AsReply(answered) = [kind |-> "success", number |-> answered]
    BY <1>1, <1>8 DEF AsReply
  <2>2. Abstract!Put(Abstract!Result)
    BY <1>1, <1>2, <1>3, <1>4, <1>6, <2>1 DEF Abstract!Put, Abstract!Result
  <2> QED
    BY <1>5, <1>7, <1>8, <2>2 DEF Abstract!Finish, Abstract!flags, Abstract!cutters, At, Deciders,
       Telling
<1>9. CASE answered # Answers
  <2>1. AsReply(answered) = [kind |-> "entry", number |-> answered]
    <3>1. answered \in 1..(Answers - 1) /\ answered # Answers
      BY <1>1, <1>9
    <3> QED
      BY <3>1 DEF AsReply
  <2>2. Abstract!Put({"entry", "reference"})
    BY <1>1, <1>2, <1>3, <1>4, <1>6, <2>1 DEF Abstract!Put
  <2>3. m < Answers - 1
    BY <1>1, <1>3, <1>9
  <2> QED
    BY <1>2, <1>5, <1>7, <1>9, <2>2, <2>3 DEF Abstract!Answer, Abstract!flags, Abstract!cutters,
       At, Deciders, Telling
<1> QED
  BY <1>8, <1>9

LEMMA Takes ==
  ASSUME TypeOK, TypeOK', Counted, Listed, Listed', Delivered' = Delivered, SamePutter, SameCutters,
         UNCHANGED <<acceptReplies, waitForReply>>,
         replies # <<>>, replies' = Tail(replies)
  PROVE  Abstract!TakeReply
<1>1. Max(Queued \cup {0})' = Max(Queued \cup {0})
  BY LastFrame
<1>2. /\ waitForReply => Cutters(pc', Deciders) = Cutters(pc, Deciders)
      /\ Cutters(pc', Telling) = Cutters(pc, Telling)
  BY CuttersFrame DEF SameCutters
<1>3. AsReplies(replies) # <<>> /\ AsReplies(Tail(replies)) = Tail(AsReplies(replies))
  BY QueueTypes, AsRepliesOfTail DEF TypeOK
<1>4. AsReplies(replies)' = Tail(AsReplies(replies))
  BY <1>3 DEF AsReplies
<1> QED
  BY <1>1, <1>2, <1>3, <1>4 DEF Abstract!TakeReply, Abstract!server, Abstract!flags,
     Abstract!cutters, SamePutter, Deciders, Telling

\* A step while the message is in the agent and stays there.
LEMMA ListedStep ==
  ASSUME TypeOK, TypeOK', Stages, QueueInv, Counted', Listed, Listed', ~IsBind, [Next]_vars
  PROVE  QueueStep
<1> USE DEF Actors, AbandonPlaces, At, Goto, flags, lists, Informers, Deciders, Telling
<1>1. HandGiven /\ Counted /\ Ended /\ PlacesOK /\ FlagsOK
  BY DEF QueueInv, TypeOK
<1>2. CASE Send
  BY <1>1, <1>2, DeliveredFrame, Unnoticed DEF Send, QueueStep, SamePutter, SameCutters, PlacesOK,
     locals
<1>3. CASE Receive
  <2>1. /\ Delivered' = Delivered /\ UNCHANGED <<replies, acceptReplies, waitForReply>>
        /\ \A b \in Informers : pc'[b] = pc[b]
        /\ pc["reader"] = "idle"
    BY <1>1, <1>3, DeliveredFrame DEF Receive, locals, PlacesOK
  <2>2. CASE inConn /\ acceptReplies
    <3>1. Max(Queued \cup {0})' = Max(Queued \cup {0}) /\ AsReplies(replies)' = AsReplies(replies)
      BY <1>1, <2>1, LastFrame DEF AsReplies
    <3>2. /\ Cutters(pc', Deciders) = Cutters(pc, Deciders)
          /\ Cutters(pc', Telling) = Cutters(pc, Telling)
      BY <2>1, CuttersFrame
    <3>3. pc'["reader"] = "add"
      BY <1>1, <1>3, <2>2 DEF Receive, PlacesOK
    <3>4. Abstract!Accept
      BY <2>1, <2>2, <3>1, <3>2, <3>3 DEF Abstract!Accept, Abstract!flags, Abstract!cutters
    <3> QED
      BY <3>4 DEF QueueStep, Abstract!Arrives
  <2>3. CASE ~(inConn /\ acceptReplies)
    <3>1. pc' = pc
      BY <1>3, <2>3 DEF Receive
    <3> QED
      BY <1>1, <2>1, <3>1, Unnoticed DEF QueueStep, SamePutter, SameCutters
  <2> QED
    BY <2>2, <2>3
<1>4. CASE UserFinds \/ UserAbandons
  BY <1>1, <1>4, DeliveredFrame, Unnoticed DEF UserFinds, UserAbandons, QueueStep, SamePutter,
     SameCutters, PlacesOK, locals
<1>5. CASE Dispose
  <2>1. /\ Delivered' = Delivered /\ UNCHANGED <<replies, acceptReplies, waitForReply>>
        /\ pc["closer"] = "idle" /\ pc'["closer"] \in {"abandon", "end"}
        /\ pc'["timer"] = pc["timer"]
    BY <1>1, <1>5, DeliveredFrame DEF Dispose, locals, PlacesOK
  <2>2. SamePutter
    <3>1. PICK r \in {pc["reader"]} \cup
                (IF pc["reader"] \in {"idle", "threw"} THEN {"end"} ELSE {}) :
            pc' = [pc EXCEPT !["closer"] = IF inConn THEN "abandon" ELSE "end",
                             !["reader"] = r]
      BY <1>5 DEF Dispose
    <3>2. pc'["reader"] = r
      BY <1>1, <3>1 DEF PlacesOK
    <3> QED
      BY <3>1, <3>2 DEF SamePutter
  <2>3. CASE waitForReply /\ pc'["closer"] = "abandon"
    <3>1. Abstract!Cut
      BY <1>1, <2>1, <2>2, <2>3, Cuts
    <3> QED
      BY <3>1 DEF QueueStep, Abstract!Arrives
  <2>4. CASE ~(waitForReply /\ pc'["closer"] = "abandon")
    <3>1. SameCutters
      BY <2>1, <2>4 DEF SameCutters
    <3> QED
      BY <1>1, <2>1, <2>2, <3>1, Unnoticed DEF QueueStep
  <2> QED
    BY <2>3, <2>4
<1>6. CASE StartTimer \/ EnterGet \/ Check \/ Return
  <2>1. UNCHANGED <<replies, acceptReplies, waitForReply, rfcMsg>>
    BY <1>6 DEF StartTimer, EnterGet, Check, Return, locals
  <2>2. Delivered' = Delivered
    <3>1. CASE got' = got
      BY <2>1, <3>1, DeliveredFrame
    <3>2. CASE EnterGet
      BY <1>1, <2>1, <3>1, <3>2 DEF EnterGet, Listed, PlacesOK
    <3>3. CASE Return
      BY <2>1, <3>3, DeliveredReturn DEF Return
    <3> QED
      BY <1>6, <3>1, <3>2, <3>3 DEF StartTimer, Check, locals
  <2>3. SamePutter /\ SameCutters
    <3>1. /\ pc'["reader"] = pc["reader"] /\ pc'["closer"] = pc["closer"]
          /\ pc'["timer"] = pc["timer"] \/ (pc["timer"] = "idle" /\ pc'["timer"] = "run")
      BY <1>1, <1>6 DEF StartTimer, EnterGet, Check, Return, PlacesOK, Ended
    <3> QED
      BY <3>1 DEF SamePutter, SameCutters
  <2> QED
    BY <1>1, <2>1, <2>2, <2>3, Unnoticed DEF QueueStep
<1>7. CASE ReadById \/ ReadAny
  <2>1. UNCHANGED <<acceptReplies, waitForReply, got>> /\ pc["caller"] = "read"
    BY <1>7 DEF ReadById, ReadAny
  <2>2. SamePutter /\ SameCutters
    BY <1>1, <1>7 DEF ReadById, ReadAny, Pop, PopFails, PopNothing, SamePutter, SameCutters,
       PlacesOK
  <2>3. CASE Pop
    <3>1. Delivered' = Delivered
      BY <1>1, <2>1, <2>3, DeliveredRead DEF Reading
    <3>2. Abstract!TakeReply
      BY <1>1, <2>1, <2>2, <2>3, <3>1, Takes DEF Pop
    <3> QED
      BY <3>2 DEF QueueStep
  <2>4. CASE PopNothing /\ UNCHANGED replies
    <3>1. Delivered' = Delivered
      BY <1>1, <2>1, <2>4, DeliveredRead DEF Reading
    <3> QED
      BY <1>1, <2>1, <2>2, <2>4, <3>1, Unnoticed DEF QueueStep
  <2>5. CASE UNCHANGED <<rfcMsg, replies>>
    <3>1. Delivered' = Delivered
      BY <2>1, <2>5, DeliveredFrame
    <3> QED
      BY <1>1, <2>1, <2>2, <2>5, <3>1, Unnoticed DEF QueueStep
  <2> QED
    BY <1>7, <2>3, <2>4, <2>5 DEF ReadById, ReadAny, PopFails, PopNothing
<1>8. CASE AddReply
  <2>1. SameCutters
    BY <1>1, <1>8 DEF AddReply, SameCutters, PlacesOK
  <2> QED
    BY <1>1, <1>8, <2>1, Puts DEF QueueStep, Abstract!Settles
<1>9. CASE StopAccepting
  <2>1. /\ Delivered' = Delivered /\ UNCHANGED <<replies, waitForReply>> /\ ~acceptReplies'
        /\ \A b \in Informers : pc'[b] = pc[b]
        /\ pc["reader"] = "stop" /\ pc'["reader"] = "complete"
    BY <1>1, <1>9, DeliveredFrame DEF StopAccepting, locals, PlacesOK
  <2>2. Max(Queued \cup {0})' = Max(Queued \cup {0}) /\ AsReplies(replies)' = AsReplies(replies)
    BY <1>1, <2>1, LastFrame DEF AsReplies
  <2>3. /\ Cutters(pc', Deciders) = Cutters(pc, Deciders)
        /\ Cutters(pc', Telling) = Cutters(pc, Telling)
    BY <2>1, CuttersFrame
  <2>4. Abstract!Settle
    BY <2>1, <2>2, <2>3 DEF Abstract!Settle, Abstract!cutters
  <2> QED
    BY <2>4 DEF QueueStep, Abstract!Settles
<1>10. CASE Complete \/ BindProps \/ FreeAfterBind
  <2>1. UNCHANGED <<replies, acceptReplies, waitForReply, got, rfcMsg>>
    BY <1>10 DEF Complete, BindProps, FreeAfterBind, locals
  <2>2. SamePutter /\ SameCutters
    BY <1>1, <1>10 DEF Complete, BindProps, FreeAfterBind, FreeBind, SamePutter, SameCutters,
       PlacesOK
  <2> QED
    BY <1>1, <2>1, <2>2, DeliveredFrame, Unnoticed DEF QueueStep
<1>11. CASE TimerSleeps
  <2>1. UNCHANGED <<replies, acceptReplies, waitForReply, got, rfcMsg>>
    BY <1>11 DEF TimerSleeps, locals
  <2>2. SamePutter /\ SameCutters
    BY <1>1, <1>11 DEF TimerSleeps, SamePutter, SameCutters, PlacesOK
  <2> QED
    BY <1>1, <2>1, <2>2, DeliveredFrame, Unnoticed DEF QueueStep
<1>12. CASE TimerFires
  <2>1. /\ UNCHANGED <<replies, waitForReply, got, rfcMsg>> /\ acceptReplies' = FALSE
        /\ pc["timer"] = "sleep" /\ pc'["timer"] = "abandon" /\ pc'["closer"] = pc["closer"]
        /\ pc'["reader"] = pc["reader"]
    BY <1>1, <1>12 DEF TimerFires, locals, PlacesOK
  <2>2. SamePutter /\ Delivered' = Delivered
    BY <2>1, DeliveredFrame DEF SamePutter
  <2>3. CASE waitForReply
    <3>1. Abstract!Cut
      BY <1>1, <2>1, <2>2, <2>3, Cuts
    <3> QED
      BY <3>1 DEF QueueStep, Abstract!Arrives
  <2>4. CASE ~waitForReply
    <3>1. SameCutters /\ UNCHANGED acceptReplies
      BY <1>1, <2>1, <2>4 DEF SameCutters, Ended, FlagsOK
    <3> QED
      BY <1>1, <2>1, <2>2, <3>1, Unnoticed DEF QueueStep
  <2> QED
    BY <2>3, <2>4
<1>13. ASSUME NEW a \in Actors, Quiet(a) \/ AbandonTell(a) \/ Cleanup(a) PROVE QueueStep
  <2>1. a \in Informers
    <3>1. /\ pc[a] \in AbandonPlaces
          /\ a = "reader" => pc[a] \notin {"bindprops", "free", "pulse", "pulseAgent"}
      BY <1>13 DEF Quiet, AbandonEnter, Proceeds, AbandonIgnore, AbandonIncomplete,
         AbandonBindProps, WriteAbandon, AbandonFree, AbandonUnlink, AbandonTell, Cleanup
    <3>2. a # "reader"
      BY <1>1, <3>1 DEF PlacesOK
    <3> QED
      BY <1>1, <3>1, <3>2 DEF PlacesOK, Stages, Listed
  <2>5. ~released
    BY <1>1 DEF Ended
  <2>2. CASE AbandonEnter(a)
    <3>1. /\ UNCHANGED <<replies, waitForReply, got, rfcMsg>>
          /\ pc[a] = "abandon"
          /\ pc'[a] = (IF waitForReply THEN "ignore" ELSE AfterAbandon[a])
          /\ \A b \in Actors : b # a => pc'[b] = pc[b]
      BY <1>1, <2>2 DEF AbandonEnter, locals, PlacesOK
    <3>2. SamePutter /\ Delivered' = Delivered
      BY <2>1, <3>1, DeliveredFrame DEF SamePutter
    <3>3. CASE waitForReply
      <4>1. ~acceptReplies'
        BY <2>2, <3>3 DEF AbandonEnter
      <4>2. Abstract!Decide
        BY <1>1, <2>1, <3>1, <3>2, <3>3, <4>1, Decides
      <4> QED
        BY <4>2 DEF QueueStep, Abstract!Settles
    <3>4. CASE ~waitForReply
      <4>1. SameCutters
        BY <2>1, <3>1, <3>4 DEF SameCutters, AfterAbandon
      <4>2. UNCHANGED acceptReplies
        BY <1>1, <2>2, <3>4 DEF AbandonEnter, FlagsOK
      <4> QED
        BY <1>1, <3>1, <3>2, <4>1, <4>2, Unnoticed DEF QueueStep
    <3> QED
      BY <3>3, <3>4
  <2>3. CASE AbandonIgnore(a)
    <3>1. /\ UNCHANGED <<replies, acceptReplies, got, rfcMsg>> /\ ~waitForReply'
          /\ pc[a] = "ignore" /\ pc'[a] = "incomplete"
          /\ \A b \in Actors : b # a => pc'[b] = pc[b]
      BY <1>1, <2>3 DEF AbandonIgnore, locals, PlacesOK
    <3>2. SamePutter /\ Delivered' = Delivered
      BY <2>1, <3>1, DeliveredFrame DEF SamePutter
    <3>3. CASE waitForReply
      <4>1. Abstract!Close
        BY <1>1, <2>1, <3>1, <3>2, <3>3, Closes
      <4> QED
        BY <4>1 DEF QueueStep, Abstract!Settles
    <3>4. CASE ~waitForReply
      <4>1. SameCutters
        BY <2>1, <3>1, <3>4 DEF SameCutters
      <4>2. UNCHANGED waitForReply
        BY <1>1, <2>3, <3>4 DEF AbandonIgnore, FlagsOK
      <4> QED
        BY <1>1, <3>1, <3>2, <4>1, <4>2, Unnoticed DEF QueueStep
    <3> QED
      BY <3>3, <3>4
  <2>9. CASE AbandonIncomplete(a) \/ AbandonBindProps(a) \/ WriteAbandon(a)
    <3>1. /\ UNCHANGED <<replies, acceptReplies, waitForReply, got, rfcMsg>>
          /\ pc[a] \in Telling /\ pc[a] # "abandon"
          /\ pc'[a] \in Telling /\ pc'[a] # "abandon"
          /\ \A b \in Actors : b # a => pc'[b] = pc[b]
      BY <1>1, <2>5, <2>9 DEF AbandonIncomplete, AbandonBindProps, WriteAbandon, locals, PlacesOK
    <3>2. SamePutter /\ SameCutters /\ Delivered' = Delivered
      BY <2>1, <3>1, DeliveredFrame DEF SamePutter, SameCutters
    <3> QED
      BY <1>1, <3>1, <3>2, Unnoticed DEF QueueStep
  <2>4. CASE AbandonFree(a)
    BY <1>1, <1>13, <2>4 DEF AbandonFree, Ended
  <2>6. CASE AbandonUnlink(a)
    <3>1. /\ UNCHANGED <<replies, acceptReplies, waitForReply, got, rfcMsg>>
          /\ pc[a] = "unlink" /\ pc'[a] = "tell"
          /\ \A b \in Actors : b # a => pc'[b] = pc[b]
      BY <1>1, <2>5, <2>6 DEF AbandonUnlink, locals, PlacesOK
    <3>2. SamePutter /\ SameCutters /\ Delivered' = Delivered
      BY <2>1, <3>1, DeliveredFrame DEF SamePutter, SameCutters
    <3> QED
      BY <1>1, <3>1, <3>2, Unnoticed DEF QueueStep
  <2>7. CASE AbandonTell(a)
    <3>1. Informs(a) # Nothing
      BY <2>1 DEF Informs, Nothing, TimedOut, Closed
    <3>2. /\ UNCHANGED <<acceptReplies, waitForReply>> /\ replies' = Append(replies, Informs(a))
          /\ pc[a] = "tell" /\ pc'[a] = "pulse"
          /\ \A b \in Actors : b # a => pc'[b] = pc[b]
      BY <1>1, <2>5, <2>7, <3>1 DEF AbandonTell, PlacesOK
    <3>3. SamePutter /\ Delivered' = Delivered /\ ~waitForReply
      BY <1>1, <1>13, <2>1, <2>7, <3>2, DeliveredTell DEF SamePutter, Ended
    <3>4. Abstract!Tell
      BY <1>1, <2>1, <3>2, <3>3, Tells
    <3> QED
      BY <3>4 DEF QueueStep, Abstract!Settles
  <2>8. CASE Cleanup(a)
    BY <1>1, <2>1, <2>8 DEF Cleanup, PlacesOK
  <2> QED
    BY <1>13, <2>2, <2>3, <2>4, <2>6, <2>7, <2>8, <2>9 DEF Quiet, Proceeds
<1>14. ASSUME NEW a \in Actors, PulseReplies(a) \/ PulseAgent(a) PROVE QueueStep
  <2>1. UNCHANGED <<replies, acceptReplies, waitForReply, got, rfcMsg>>
    BY <1>14 DEF PulseReplies, PulseAgent, locals
  <2>2. SamePutter /\ SameCutters
    BY <1>1, <1>14 DEF PulseReplies, PulseAgent, AfterPulse, SamePutter, SameCutters, PlacesOK
  <2> QED
    BY <1>1, <2>1, <2>2, DeliveredFrame, Unnoticed DEF QueueStep
<1>15. CASE UNCHANGED vars
  BY <1>1, <1>15, DeliveredFrame, Unnoticed DEF vars, QueueStep, SamePutter, SameCutters
<1> QED
  BY <1>2, <1>3, <1>4, <1>5, <1>6, <1>7, <1>8, <1>9, <1>10, <1>11, <1>12, <1>13, <1>14, <1>15,
     Cases

\* The step with which it leaves: the caller has found it over, or it is abandoned.
LEMMA LeavingStep ==
  ASSUME TypeOK, Stages, Listed, ~Listed', [Next]_vars
  PROVE  QueueStep
<1> USE DEF TypeOK, PlacesOK, Stages, Listed, Actors, AbandonPlaces, At, Goto, lists
<1>1. Abstract!Leave
  BY Leaves
<1>2. UserAbandons => QueueStep
  BY <1>1 DEF QueueStep, Abstract!AbandonAll
<1>3. CASE Check
  <2>1. ~acceptReplies /\ replies = <<>>
    BY <1>3 DEF Check
  <2>2. ~(acceptReplies /\ Listed)
    BY <2>1
  <2>3. (IF Listed THEN AsReplies(replies) ELSE <<>>) = <<>>
    BY <2>1 DEF AsReplies
  <2>4. Abstract!TakeNull
    BY <1>1, <2>2, <2>3 DEF Abstract!TakeNull
  <2> QED
    BY <2>4 DEF QueueStep
<1>4. CASE Send \/ Receive \/ UserFinds \/ Dispose
  BY <1>4 DEF Send, Receive, UserFinds, Dispose
<1>5. CASE StartTimer \/ EnterGet \/ ReadById \/ ReadAny \/ Return
  BY <1>5 DEF StartTimer, EnterGet, ReadById, ReadAny, Pop, PopFails, PopNothing, Return
<1>6. CASE AddReply \/ StopAccepting \/ Complete \/ BindProps \/ FreeAfterBind
  BY <1>6 DEF AddReply, StopAccepting, Complete, BindProps, FreeAfterBind, FreeBind
<1>7. CASE TimerSleeps \/ TimerFires
  BY <1>7 DEF TimerSleeps, TimerFires
<1>8. ASSUME NEW a \in Actors, Quiet(a) \/ AbandonTell(a) \/ Cleanup(a) PROVE Listed'
  <2>1. a \in {"timer", "closer"}
    BY <1>8 DEF Quiet, AbandonEnter, Proceeds, AbandonIgnore, AbandonIncomplete, AbandonBindProps,
       WriteAbandon, AbandonFree, AbandonUnlink, AbandonTell, Cleanup
  <2>2. pc'["caller"] = pc["caller"]
    BY <1>8, <2>1 DEF Quiet, AbandonEnter, Proceeds, AbandonIgnore, AbandonIncomplete,
       AbandonBindProps, WriteAbandon, AbandonFree, FreeBind, AbandonUnlink, AbandonTell, Cleanup
  <2>3. Informs(a) # Nothing
    BY <2>1 DEF Informs, Nothing, TimedOut, Closed
  <2>4. inAgent' = inAgent
    BY <1>8, <2>3 DEF Quiet, AbandonEnter, Proceeds, AbandonIgnore, AbandonIncomplete,
       AbandonBindProps, WriteAbandon, AbandonFree, AbandonUnlink, AbandonTell, Cleanup, FlagsOK
  <2> QED
    BY <2>2, <2>4
<1>9. ASSUME NEW a \in Actors, PulseReplies(a) \/ PulseAgent(a) PROVE Listed'
  BY <1>9 DEF PulseReplies, PulseAgent, AfterPulse
<1>10. CASE UNCHANGED vars
  BY <1>10 DEF vars
<1> QED
  BY <1>2, <1>3, <1>4, <1>5, <1>6, <1>7, <1>8, <1>9, <1>10, Cases

\* For the thread that reads its answers a search request is the queue that search
\* results are built on: LdapMessage implements ResponseQueue, for any number of
\* answers, read by id or for any message, whatever times out, is abandoned or closes.
\* A bind, whose semaphore may be freed twice, is not such a queue.
THEOREM IsQueue ==
  ASSUME ~IsBind
  PROVE  Spec => ImplementsResponseQueue
<1> DEFINE I == OrderInv /\ QueueInv
<1>1. Init => I
  BY InitOrder, InitQueue
<1>2. I /\ [Next]_vars => I'
  BY OrderPreserved, QueuePreserved DEF OrderInv
<1>3. Init => Abstract!QueueInit
  <2> SUFFICES ASSUME Init PROVE Abstract!QueueInit
    OBVIOUS
  <2>1. TypeOK /\ QueueInv /\ Listed /\ answered = 0
    BY InitOrder, InitQueue DEF OrderInv, Init, Listed, At, Actors
  <2>2. Max(Queued \cup {0}) = 0
    <3>1. PICK m \in 0..answered : Max(Queued \cup {0}) = m
      BY <2>1, LastIs DEF QueueInv
    <3> QED
      BY <2>1, <3>1
  <2>3. Cutters(pc, {"abandon"}) = 0 /\ Cutters(pc, Telling) = 0
    <3>1. pc["timer"] = "idle" /\ pc["closer"] = "idle"
      BY DEF Init, Actors
    <3> QED
      BY <3>1, CuttersAre DEF Telling
  <2>4. AsReplies(replies) = <<>>
    BY DEF Init, AsReplies
  <2> QED
    BY <2>1, <2>2, <2>3, <2>4 DEF Init, Abstract!QueueInit, At, Actors
<1>4. I /\ I' /\ [Next]_vars => QueueStep
  <2> SUFFICES ASSUME I, I', [Next]_vars PROVE QueueStep
    OBVIOUS
  <2>1. TypeOK /\ TypeOK' /\ Stages /\ QueueInv /\ Counted'
    BY DEF OrderInv, QueueInv
  <2>2. CASE Listed /\ Listed'
    BY <2>1, <2>2, ListedStep
  <2>3. CASE Listed /\ ~Listed'
    BY <2>1, <2>3, LeavingStep
  <2>4. CASE ~Listed
    <3>1. ~Listed'
      BY <2>1, <2>4, ListedBefore
    <3> QED
      BY <2>4, <3>1, Hidden DEF QueueStep
  <2> QED
    BY <2>2, <2>3, <2>4
<1>5. I /\ [Next]_vars =>
        [\/ Abstract!Arrives \/ Abstract!Settles
         \/ Abstract!TakeReply \/ Abstract!TakeNull
         \/ UserAbandons /\ Abstract!AbandonAll]_(Abstract!queue)
  BY <1>2, <1>4 DEF QueueStep
<1> QED
  BY <1>1, <1>2, <1>3, <1>5, PTL DEF Spec, ImplementsResponseQueue
=============================================================================
