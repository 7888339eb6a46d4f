---------------------------- MODULE MessageAgent ----------------------------
(***************************************************************************)
(* Queues of several requests, read by several threads: MessageAgent.cs    *)
(* with what Message.cs does to it.  LdapMessage has the interleavings on  *)
(* the fields of one request; here Message.Abandon is one step up to the   *)
(* pulse it ends with, and what is looked at is the list of requests, its  *)
(* monitor, and whom a pulse wakes.                                        *)
(*                                                                         *)
(* The threads: application threads that read any message of a queue; the  *)
(* reader thread of the connection ("putter"); a timer per request, known  *)
(* by the request; and an application thread ("user") that abandons        *)
(* requests or merges two queues.                                          *)
(***************************************************************************)
EXTENDS Integers, SequencesExt

CONSTANTS
  Queues,       \* agents, one per LdapMessageQueue
  Requests,
  Readers,      \* threads that call getResponse()
  Answers,      \* answers of the server to each request, the last the result
  TimeLimited,  \* the requests with a time limit
  UserOps,      \* what the user may do: "abandon", "abandonAll", "merge"
  None          \* no queue, request or thread

ASSUME AgentAssumption ==
  /\ Answers \in Nat \ {0}
  /\ TimeLimited \subseteq Requests
  /\ Readers \cap Requests = {} /\ {"putter", "user"} \cap (Readers \cup Requests) = {}
  /\ UserOps \subseteq {"abandon", "abandonAll", "merge"}
  /\ None \notin Queues \cup Requests \cup Readers

\* What a queue of replies holds besides the answers 1..Answers.
NoReply == 0
TimedOut == -1

\* The locals of a reader outside getResponse.
Nothing == [queue |-> None, next |-> 0, i |-> 0, rfcMsg |-> NoReply]

Threads == Readers \cup TimeLimited \cup {"putter", "user"}

VARIABLES
  messages,      \* MessageAgent.messages of each queue
  indexLastRead, \* of each queue
  owner, waiting,\* the monitor of messages: who is in it, who waits, in order
  agent,         \* Message.agent; None before the request is sent
  replies, acceptReplies, waitForReply, complete,  \* of each Message
  answered,      \* answers the putter has taken from the socket
  at,            \* where each thread is
  info,          \* the request a thread has in hand
  target,        \* the agent a thread is about to pulse
  reader,        \* other locals of getLdapMessage
  user,          \* other locals of merge and AbandonAll
  passed,        \* history: how often a request with replies was passed over
  overlooked     \* history: the requests that took the place of one that was
                 \* dropped, and were not read out since

lists == <<messages, indexLastRead>>
monitors == <<owner, waiting>>
flags == <<acceptReplies, waitForReply, complete>>
locals == <<reader, user>>
history == <<passed, overlooked>>
vars == <<lists, monitors, agent, replies, flags, answered, at, info, target,
          locals, history>>

Init ==
  /\ messages = [q \in Queues |-> <<>>]
  /\ indexLastRead = [q \in Queues |-> 0]
  /\ owner = [q \in Queues |-> None]
  /\ waiting = [q \in Queues |-> <<>>]
  /\ agent = [r \in Requests |-> None]
  /\ replies = [r \in Requests |-> <<>>]
  /\ acceptReplies = [r \in Requests |-> TRUE]
  /\ waitForReply = [r \in Requests |-> TRUE]
  /\ complete = [r \in Requests |-> FALSE]
  /\ answered = [r \in Requests |-> 0]
  /\ at = [t \in Threads |-> "idle"]
  /\ info = [t \in Threads |-> IF t \in TimeLimited THEN t ELSE None]
  /\ target = [t \in Threads |-> None]
  /\ reader = [t \in Readers |-> Nothing]
  /\ user = [queue |-> None, list |-> <<>>, i |-> 0]
  /\ passed = [r \in Requests |-> [s \in Requests |-> 0]]
  /\ overlooked = {}

Sent(r) == agent[r] # None
Goto(t, s) == at' = [at EXCEPT ![t] = s]

\* Message.Abandon(null, null), by a thread that has removed r from a list: the
\* flags, the list of its agent, the replies.  Who comes second does nothing.
Abandon(r, rest) ==
  IF waitForReply[r]
  THEN /\ acceptReplies' = [acceptReplies EXCEPT ![r] = FALSE]
       /\ waitForReply' = [waitForReply EXCEPT ![r] = FALSE]
       /\ messages' = IF complete[r] THEN rest
                      ELSE [rest EXCEPT ![agent[r]] = RemoveFirst(@, r)]
       /\ replies' = [replies EXCEPT ![r] = <<>>]
       /\ UNCHANGED complete
  ELSE messages' = rest /\ UNCHANGED <<flags, replies>>

-----------------------------------------------------------------------------
(* sleepersAwake: the field agent is read, then its monitor is entered and  *)
(* the thread that has waited longest is woken to compete for it.           *)

\* MUTANT: the reply is queued and nobody is told.
WakeNobody(t, s, q, n) == Goto(t, s) /\ UNCHANGED waiting

Wake(t, s, q, n) ==
  LET m == Min({n, Len(waiting[q])})
      woken == ToSet(SubSeq(waiting[q], 1, m))
  IN
  /\ owner[q] \in {None, t}
  /\ waiting' = [waiting EXCEPT ![q] = SubSeq(@, m + 1, Len(@))]
  /\ at' = [b \in Threads |-> IF b = t THEN s ELSE IF b \in woken THEN "enter" ELSE at[b]]

\* Where a thread goes on after sleepersAwake.
AfterPulse(t) == CASE t = "putter" -> "idle"
                   [] t = "user" -> "walk"
                   [] t \in Readers -> "looked"
                   [] OTHER -> "end"

Aim(t) ==
  /\ at[t] = "aim"
  /\ target' = [target EXCEPT ![t] = agent[info[t]]]
  /\ Goto(t, "pulse")
  /\ UNCHANGED <<lists, monitors, agent, replies, flags, answered, info, locals, history>>

Pulse(t) ==
  /\ at[t] = "pulse"
  /\ Wake(t, AfterPulse(t), target[t], 1)
  /\ target' = [target EXCEPT ![t] = None]
  /\ UNCHANGED <<lists, owner, agent, replies, flags, answered, info, locals, history>>

-----------------------------------------------------------------------------
(* MessageAgent.sendMessage *)

Send(r, q) ==
  /\ ~Sent(r)
  /\ messages' = [messages EXCEPT ![q] = Append(@, r)]
  /\ agent' = [agent EXCEPT ![r] = q]
  /\ UNCHANGED <<indexLastRead, monitors, replies, flags, answered, at, info,
                 target, locals, history>>

-----------------------------------------------------------------------------
(* getLdapMessage for any message.  With no message left it returns null.   *)

Get(t, q) ==
  /\ at[t] = "idle"
  /\ messages[q] # <<>>
  /\ reader' = [reader EXCEPT ![t].queue = q]
  /\ Goto(t, "enter")
  /\ UNCHANGED <<lists, monitors, agent, replies, flags, answered, info, target,
                 user, history>>

\* Into the monitor, or back into it from Monitor.Wait: the requests are looked
\* at in turn, from the one after the last that was.
Enter(t) ==
  LET q == reader[t].queue IN
  /\ at[t] = "enter"
  /\ owner[q] = None
  /\ owner' = [owner EXCEPT ![q] = t]
  /\ reader' = [reader EXCEPT ![t].next = indexLastRead[q] + 1, ![t].i = 0]
  /\ Goto(t, "for")
  /\ UNCHANGED <<lists, waiting, agent, replies, flags, answered, info, target,
                 user, history>>

\* MUTANT: every search for a reply begins at the head of the list.
FromTheHead(t) == reader[t].i

InTurn(t) ==
  IF reader[t].next >= Len(messages[reader[t].queue]) THEN 0 ELSE reader[t].next

\* One request is looked at: Message.Reply takes its first reply.
Look(t) ==
  LET q == reader[t].queue
      n == InTurn(t)
      r == messages[q][n + 1]
      found == replies[r] # <<>>
      unread == {s \in ToSet(messages[q]) : replies[s] # <<>>}
  IN
  /\ at[t] = "for"
  /\ reader[t].i < Len(messages[q])
  /\ indexLastRead' = [indexLastRead EXCEPT ![q] = n]
  /\ reader' = [reader EXCEPT ![t].next = n + 1,
                              ![t].rfcMsg = IF found THEN Head(replies[r]) ELSE NoReply]
  /\ info' = [info EXCEPT ![t] = r]
  /\ replies' = [replies EXCEPT ![r] = IF found THEN Tail(@) ELSE @]
  /\ passed' = IF ~found THEN passed
               ELSE [s \in Requests |->
                       IF s = r THEN [o \in Requests |-> 0]
                       ELSE IF s \in unread THEN [passed[s] EXCEPT ![r] = @ + 1]
                       ELSE passed[s]]
  /\ overlooked' = IF Len(replies[r]) > 1 THEN overlooked ELSE overlooked \ {r}
  /\ Goto(t, "check")
  /\ UNCHANGED <<messages, monitors, agent, flags, answered, target, user>>

\* On to the next request, or out of the monitor with the reply.
GoOn(t, turns) ==
  /\ IF reader[t].rfcMsg = NoReply
     THEN /\ reader' = [reader EXCEPT ![t].i = turns]
          /\ Goto(t, "for")
          /\ UNCHANGED owner
     ELSE /\ reader' = [reader EXCEPT ![t] = Nothing]
          /\ Goto(t, "idle")
          /\ owner' = [owner EXCEPT ![reader[t].queue] = None]
  /\ info' = [info EXCEPT ![t] = None]

\* A request that accepts no more and has no replies leaves the list and is
\* abandoned.  The turn does not count, but the request that moves to its place has
\* missed its turn.
Finished(r) == ~acceptReplies[r] /\ replies[r] = <<>>

Keep(t) ==
  /\ at[t] = "check"
  /\ ~Finished(info[t])
  /\ GoOn(t, reader[t].i + 1)
  /\ UNCHANGED <<lists, waiting, agent, replies, flags, answered, target, user, history>>

Drop(t) ==
  /\ at[t] = "check"
  /\ Finished(info[t])
  /\ Abandon(info[t], [messages EXCEPT ![reader[t].queue] = RemoveFirst(@, info[t])])
  /\ LET list == messages[reader[t].queue] IN
     overlooked' = overlooked \cup {list[k] : k \in {reader[t].next + 1} \cap DOMAIN list}
  /\ Goto(t, IF waitForReply[info[t]] THEN "aim" ELSE "looked")
  /\ UNCHANGED <<indexLastRead, monitors, agent, answered, info, target, locals, passed>>

Dropped(t) ==
  /\ at[t] = "looked"
  /\ GoOn(t, reader[t].i)
  /\ UNCHANGED <<lists, waiting, agent, replies, flags, answered, target, user, history>>

\* MUTANT: waits as Thread.Sleep would, with the monitor kept.
SleepInside(t) ==
  /\ at[t] = "for"
  /\ reader[t].i >= Len(messages[reader[t].queue])
  /\ Goto(t, "wait")
  /\ waiting' = [waiting EXCEPT ![reader[t].queue] = Append(@, t)]
  /\ UNCHANGED <<lists, owner, agent, replies, flags, answered, info, target, locals, history>>

\* All were looked at: null if none is left, and otherwise Monitor.Wait.
Wait(t) ==
  LET q == reader[t].queue IN
  /\ at[t] = "for"
  /\ reader[t].i >= Len(messages[q])
  /\ owner' = [owner EXCEPT ![q] = None]
  /\ IF messages[q] = <<>>
     THEN /\ Goto(t, "idle")
          /\ reader' = [reader EXCEPT ![t] = Nothing]
          /\ UNCHANGED waiting
     ELSE /\ Goto(t, "wait")
          /\ reader' = [reader EXCEPT ![t] = [Nothing EXCEPT !.queue = q]]
          /\ waiting' = [waiting EXCEPT ![q] = Append(@, t)]
  /\ UNCHANGED <<lists, agent, replies, flags, answered, info, target, user, history>>

-----------------------------------------------------------------------------
(* The reader thread of the connection: Message.putReply.                   *)

Receive(r) ==
  /\ at["putter"] = "idle"
  /\ Sent(r) /\ acceptReplies[r] /\ answered[r] < Answers
  /\ answered' = [answered EXCEPT ![r] = @ + 1]
  /\ info' = [info EXCEPT !["putter"] = r]
  /\ Goto("putter", "add")
  /\ UNCHANGED <<lists, monitors, agent, replies, flags, target, locals, history>>

AddReply ==
  LET r == info["putter"] IN
  /\ at["putter"] = "add"
  /\ replies' = [replies EXCEPT ![r] = Append(@, answered[r])]
  /\ Goto("putter", IF answered[r] = Answers THEN "settle" ELSE "aim")
  /\ UNCHANGED <<lists, monitors, agent, flags, answered, info, target, locals, history>>

Settle ==
  LET r == info["putter"] IN
  /\ at["putter"] = "settle"
  /\ acceptReplies' = [acceptReplies EXCEPT ![r] = FALSE]
  /\ complete' = [complete EXCEPT ![r] = TRUE]
  /\ Goto("putter", "aim")
  /\ UNCHANGED <<lists, monitors, agent, replies, waitForReply, answered, info,
                 target, locals, history>>

-----------------------------------------------------------------------------
(* The timer of a request: Timeout.Run and the Abandon that informs.        *)

Fire(r) ==
  /\ at[r] = "idle" /\ Sent(r)
  /\ acceptReplies' = [acceptReplies EXCEPT ![r] = FALSE]
  /\ Goto(r, "abandon")
  /\ UNCHANGED <<lists, monitors, agent, replies, waitForReply, complete, answered,
                 info, target, locals, history>>

AbandonInforming(r) ==
  /\ at[r] = "abandon"
  /\ waitForReply' = [waitForReply EXCEPT ![r] = FALSE]
  /\ Goto(r, IF waitForReply[r] THEN "tell" ELSE "end")
  /\ UNCHANGED <<lists, monitors, agent, replies, acceptReplies, complete, answered,
                 info, target, locals, history>>

Tell(r) ==
  /\ at[r] = "tell"
  /\ replies' = [replies EXCEPT ![r] = Append(@, TimedOut)]
  /\ Goto(r, "aim")
  /\ UNCHANGED <<lists, monitors, agent, flags, answered, info, target, locals, history>>

-----------------------------------------------------------------------------
(* The user *)

\* A request is removed from a list and abandoned.
UserDrops(q, r) ==
  /\ Abandon(r, [messages EXCEPT ![q] = RemoveFirst(@, r)])
  /\ Goto("user", IF waitForReply[r] THEN "aim" ELSE "walk")
  /\ info' = [info EXCEPT !["user"] = r]

\* MessageAgent.Abandon finds a request under the monitor, and removes it outside.
Find(r) ==
  /\ "abandon" \in UserOps
  /\ at["user"] = "idle"
  /\ Sent(r) /\ owner[agent[r]] = None
  /\ r \in ToSet(messages[agent[r]])
  /\ user' = [queue |-> agent[r], list |-> <<>>, i |-> 0]
  /\ info' = [info EXCEPT !["user"] = r]
  /\ Goto("user", "found")
  /\ UNCHANGED <<lists, monitors, agent, replies, flags, answered, target, reader, history>>

AbandonOne ==
  /\ at["user"] = "found"
  /\ UserDrops(user.queue, info["user"])
  /\ UNCHANGED <<indexLastRead, monitors, agent, answered, target, locals, history>>

\* AbandonAll counts the requests, and merge copies them, before it begins.
Begin(op, from, to, place) ==
  /\ op \in UserOps
  /\ at["user"] = "idle"
  /\ user' = [queue |-> to, list |-> messages[from], i |-> 0]
  /\ Goto("user", place)
  /\ UNCHANGED <<lists, monitors, agent, replies, flags, answered, info, target,
                 reader, history>>

BeginAbandonAll(q) == Begin("abandonAll", q, q, "walk")
BeginMerge(from, to) == from # to /\ Begin("merge", from, to, "merge")

\* AbandonAll removes from the list that it walks by index.
Walk ==
  LET q == user.queue IN
  /\ at["user"] = "walk"
  /\ \/ /\ user.i < Len(user.list) /\ user.i < Len(messages[q])
        /\ UserDrops(q, messages[q][user.i + 1])
        /\ user' = [user EXCEPT !.i = @ + 1]
     \/ /\ ~(user.i < Len(user.list) /\ user.i < Len(messages[q]))
        /\ Goto("user", IF user.i < Len(user.list) THEN "threw" ELSE "end")
        /\ UNCHANGED <<messages, replies, flags, info, user>>
  /\ UNCHANGED <<indexLastRead, monitors, agent, answered, target, reader, history>>

\* MUTANT: the request is renamed only.
MergeNameOnly ==
  /\ at["user"] = "merge"
  /\ user.i < Len(user.list)
  /\ Goto("user", "name")
  /\ UNCHANGED <<lists, monitors, agent, replies, flags, answered, info, target,
                 locals, history>>

MergeAdd ==
  /\ at["user"] = "merge"
  /\ user.i < Len(user.list)
  /\ messages' = [messages EXCEPT ![user.queue] = Append(@, user.list[user.i + 1])]
  /\ Goto("user", "name")
  /\ UNCHANGED <<indexLastRead, monitors, agent, replies, flags, answered, info,
                 target, locals, history>>

MergeName ==
  /\ at["user"] = "name"
  /\ agent' = [agent EXCEPT ![user.list[user.i + 1]] = user.queue]
  /\ user' = [user EXCEPT !.i = @ + 1]
  /\ Goto("user", "merge")
  /\ UNCHANGED <<lists, monitors, replies, flags, answered, info, target, reader, history>>

\* All threads are woken for several requests, and one for one.
MergePulse ==
  LET q == user.queue IN
  /\ at["user"] = "merge"
  /\ user.i = Len(user.list)
  /\ Wake("user", "end", q, IF user.i > 1 THEN Len(waiting[q]) ELSE user.i)
  /\ UNCHANGED <<lists, owner, agent, replies, flags, answered, info, target, locals, history>>

-----------------------------------------------------------------------------
Reading(t) == Enter(t) \/ Look(t) \/ Keep(t) \/ Drop(t) \/ Dropped(t) \/ Wait(t)
Putting == AddReply \/ Settle
Informing(r) == AbandonInforming(r) \/ Tell(r)
Using == AbandonOne \/ Walk \/ MergeAdd \/ MergeName \/ MergePulse

\* What a thread does once it runs.
Step(t) ==
  \/ t \in Readers /\ Reading(t)
  \/ t = "putter" /\ Putting
  \/ t \in TimeLimited /\ Informing(t)
  \/ t = "user" /\ Using
  \/ Aim(t) \/ Pulse(t)

Next ==
  \/ \E r \in Requests, q \in Queues : Send(r, q)
  \/ \E t \in Readers, q \in Queues : Get(t, q)
  \/ \E r \in Requests : Receive(r) \/ Find(r)
  \/ \E r \in TimeLimited : Fire(r)
  \/ \E q \in Queues : BeginAbandonAll(q) \/ \E from \in Queues : BeginMerge(from, q)
  \/ \E t \in Threads : Step(t)

Spec == Init /\ [][Next]_vars

\* Threads are scheduled; a thread that competes for a monitor gets it in the
\* end.  Nothing is assumed of the server or of what the application does.
FairSpec == Spec /\ \A t \in Threads : SF_vars(Step(t))

\* The same, with a server that answers.
ServedSpec == FairSpec /\ \A r \in Requests : SF_vars(Receive(r))

-----------------------------------------------------------------------------
Replies == 1..Answers \cup {TimedOut}

Places == {"idle", "enter", "for", "check", "looked", "wait", "aim", "pulse", "add",
           "settle", "abandon", "tell", "walk", "found", "merge", "name",
           "threw", "end"}

TypeOK ==
  /\ messages \in [Queues -> Seq(Requests)]
  /\ indexLastRead \in [Queues -> Nat]
  /\ owner \in [Queues -> Readers \cup {None}]
  /\ waiting \in [Queues -> Seq(Readers)]
  /\ agent \in [Requests -> Queues \cup {None}]
  /\ replies \in [Requests -> Seq(Replies)]
  /\ {acceptReplies, waitForReply, complete} \subseteq [Requests -> BOOLEAN]
  /\ answered \in [Requests -> 0..Answers]
  /\ at \in [Threads -> Places]
  /\ info \in [Threads -> Requests \cup {None}]
  /\ target \in [Threads -> Queues \cup {None}]
  /\ reader \in [Readers -> [queue : Queues \cup {None}, next : Nat, i : Nat,
                             rfcMsg : Replies \cup {NoReply}]]
  /\ user \in [queue : Queues \cup {None}, list : Seq(Requests), i : Nat]
  /\ passed \in [Requests -> [Requests -> Nat]]
  /\ overlooked \subseteq Requests

\* A monitor has the thread in it that thinks so, and those that wait are asleep.
MonitorsAgree ==
  /\ \A t \in Readers, q \in Queues :
       owner[q] = t <=> reader[t].queue = q /\ at[t] \notin {"idle", "enter", "wait"}
  /\ \A t \in Readers, q \in Queues :
       t \in ToSet(waiting[q]) <=> reader[t].queue = q /\ at[t] = "wait"
  /\ \A q \in Queues : IsInjective(waiting[q])

\* A reader asleep on a queue in which one of its requests has a reply will be
\* woken, or another reader is on its way to take the reply: although a reply is
\* queued outside the monitor, and each wakes one reader only.  Except the reply of
\* a request that missed its turn.  Not so where a user abandons all requests or
\* one that timed out, or merges lists: see the README.
Awaited(q) ==
  \E r \in ToSet(messages[q]) \ overlooked : agent[r] = q /\ replies[r] # <<>>

WillLook(q) ==
  \/ \E t \in Readers : reader[t].queue = q /\ at[t] # "wait"
  \/ \E t \in Threads : target[t] = q
  \/ \E t \in Threads \ Readers :
       /\ at[t] \in {"aim", "add", "settle", "tell"}
       /\ agent[info[t]] = q
  \/ at["user"] \in {"name", "merge"} /\ user.queue = q

NoReplySleptOver ==
  \A q \in Queues : waiting[q] # <<>> /\ Awaited(q) => WillLook(q)

Inv == TypeOK /\ MonitorsAgree

\* Readers take turns with the requests: one that has a reply, and has not missed
\* its turn, is passed over once, at most, by each of the others.
FairTurns ==
  \A r \in Requests \ overlooked, s \in Requests : passed[r][s] <= 1

\* A getResponse returns when the server answers all requests, unless one of them
\* has missed its turn.  (Under ServedSpec, without timers and abandoning.)
GetReturns == \A t \in Readers : at[t] = "enter" ~> (at[t] = "idle" \/ overlooked # {})

\* A reply that is still wanted is in a request of the list whose readers a
\* reply wakes, before, during and after a merge.
ReplyIsInReach ==
  \A r \in Requests : replies[r] # <<>> /\ waitForReply[r] => r \in ToSet(messages[agent[r]])

\* Does not hold: the search goes on behind the request that moved to the place of
\* one that was dropped, and the thread waits beside its reply.
NobodyIsOverlooked ==
  \A q \in Queues : waiting[q] # <<>> /\ ~WillLook(q) =>
    \A r \in ToSet(messages[q]) : agent[r] = q => replies[r] = <<>>

\* Does not hold: two readers, each in the monitor of its queue, drop requests
\* that a merge has given to the queue of the other, and wait for each other.
NoEmbrace ==
  \A t, u \in Readers :
    ~(/\ t # u /\ at[t] = "pulse" /\ at[u] = "pulse"
      /\ owner[target[t]] = u /\ owner[target[u]] = t)

\* Does not hold: isResponseReceived() looks at one place of the list only, and
\* with one request at a place behind its end.
PollSees(q) ==
  LET next == IF indexLastRead[q] + 1 = Len(messages[q]) THEN 0 ELSE indexLastRead[q] + 1
  IN next < Len(messages[q]) /\ replies[messages[q][next + 1]] # <<>>

PollSeesReplies ==
  \A q \in Queues :
    (\E r \in ToSet(messages[q]) : replies[r] # <<>>) => PollSees(q)
=============================================================================
