---------------------------- MODULE LdapMessage ----------------------------
(***************************************************************************)
(* One request of the LDAP client, from sending it to the last answer      *)
(* read: Message.cs with the callers it has in MessageAgent.cs and in the  *)
(* reader thread of Connection.cs.                                         *)
(*                                                                         *)
(* Five threads meet on a Message: the caller sends it and reads its       *)
(* answers; the reader takes answers from the socket; the timer times it   *)
(* out; the abandoner, another application thread, abandons it; the closer *)
(* runs Connection.Dispose, as an application thread that disconnects or   *)
(* as the reader that lost the connection and will read no more.           *)
(*                                                                         *)
(* Message's fields have no lock of their own, so every access to a field  *)
(* that another thread depends on is a step; a lock(replies) block is one  *)
(* step; lock(messages) of the agent, which the caller holds across        *)
(* several steps, is AgentFree.                                            *)
(***************************************************************************)
EXTENDS Integers, Sequences

CONSTANTS
  Answers,   \* answers of the server: Answers - 1 entries and the result
  IsBind,    \* a bind: owns the write bindHeld, its caller reads one answer
  ById,      \* the caller names the message id in getResponse
  Others,    \* which of the other threads exist
  WriteMayFail \* the write of the request may throw

Actors == {"caller", "reader", "timer", "abandoner", "closer"}

ASSUME ConstantsAssumption ==
  /\ Answers \in Nat \ {0}
  /\ IsBind \in BOOLEAN /\ ById \in BOOLEAN /\ WriteMayFail \in BOOLEAN
  /\ Others \subseteq {"timer", "abandoner", "closer"}

\* What getResponse can return besides the server's answers 1..Answers: null,
\* the "Client request timed out" response, the "connection closed" response.
Nothing == 0
TimedOut == -1
Closed == -2

\* The InterThreadException an actor passes to Message.Abandon.
Informs(a) == CASE a = "timer" -> TimedOut
                [] a = "closer" -> Closed
                [] OTHER -> Nothing

VARIABLES
  acceptReplies, waitForReply, complete,   \* the flags of Message
  replies,     \* Message.replies
  released,    \* cleanup has set conn, msg and bindprops to null
  inConn,      \* the message is in Connection.messages
  inAgent,     \* the message is in MessageAgent.messages
  isStopping,  \* of the timeout thread
  bindHeld,    \* the bind holds the write semaphore
  answered,    \* answers the reader has taken from the socket
  rfcMsg,      \* local of getLdapMessage: the reply about to be returned
  got,         \* history: what getResponse returned, call after call
  pc           \* where each thread is

vars == <<acceptReplies, waitForReply, complete, replies, released, inConn,
          inAgent, isStopping, bindHeld, answered, rfcMsg, got, pc>>

flags == <<acceptReplies, waitForReply, complete>>
lists == <<inConn, inAgent>>
locals == <<rfcMsg, got>>

Init ==
  /\ acceptReplies = TRUE /\ waitForReply = TRUE /\ complete = FALSE
  /\ replies = <<>>
  /\ released = FALSE
  /\ inConn = FALSE /\ inAgent = FALSE
  /\ isStopping = FALSE
  /\ bindHeld = FALSE
  /\ answered = 0
  /\ rfcMsg = Nothing
  /\ got = <<>>
  /\ pc = [a \in Actors |-> IF a = "caller" THEN "start" ELSE "idle"]

At(a, s) == pc[a] = s
Goto(a, s) == pc' = [pc EXCEPT ![a] = s]

\* A caller that asks for any message holds the agent's lock from entering
\* getLdapMessage to leaving it or waiting.
AgentFree(a) ==
  \/ a = "caller"
  \/ ById
  \/ pc["caller"] \in {"start", "sent", "call", "waitAny", "end", "threw"}

TimerStarted == pc["timer"] # "idle"

-----------------------------------------------------------------------------
(* The caller: MessageAgent.sendMessage, Message.sendMessage, then calls of *)
(* getResponse until null, as LdapSearchResults does; a bind makes one.     *)

\* LdapConnection.Bind takes the write bindHeld, the message enters both
\* lists and is written; a write that fails throws to the application.
Send ==
  /\ At("caller", "start")
  /\ bindHeld' = IsBind
  /\ inConn' = TRUE
  /\ inAgent' = TRUE
  /\ Goto("caller", "sent") \/ (WriteMayFail /\ Goto("caller", "threw"))
  /\ UNCHANGED <<flags, replies, released, isStopping, answered, locals>>

\* The timeout thread is started after the write.
StartTimer ==
  /\ At("caller", "sent")
  /\ pc' = [pc EXCEPT !["caller"] = "call",
                      !["timer"] = IF "timer" \in Others THEN "run" ELSE @]
  /\ UNCHANGED <<flags, replies, released, lists, isStopping, bindHeld,
                 answered, locals>>

\* getLdapMessage: no message left, or the reading begins.
EnterGet ==
  /\ At("caller", "call")
  /\ IF inAgent THEN Goto("caller", "read") /\ UNCHANGED got
     ELSE /\ got' = Append(got, Nothing)
          /\ Goto("caller", "end")
  /\ UNCHANGED <<flags, replies, released, lists, isStopping, bindHeld,
                 answered, rfcMsg>>

\* MUTANT: the newest reply is taken first.
PopLast ==
  /\ replies # <<>>
  /\ rfcMsg' = replies[Len(replies)]
  /\ replies' = SubSeq(replies, 1, Len(replies) - 1)
  /\ inConn' = (inConn /\ ~((complete \/ ~acceptReplies) /\ Len(replies) = 1))
  /\ Goto("caller", "check")

\* Message.Reply and the tail of Message.waitForReply: take the first reply; if
\* it is the last one, leave the connection's list.  Only the taking is locked; it
\* is one step with the test behind it, as taking the first reply commutes with
\* what the others do between the two, adding replies and cleaning up.
Pop ==
  /\ replies # <<>>
  /\ rfcMsg' = Head(replies)
  /\ replies' = Tail(replies)
  /\ inConn' = (inConn /\ ~((complete \/ ~acceptReplies) /\ Len(replies) = 1))
  /\ Goto("caller", "check")

\* Cleanup throws the replies away without the lock: one that was counted may be
\* gone when it is read, and the index is out of range.
PopFails ==
  /\ At("abandoner", "cleanup") /\ replies # <<>>
  /\ Goto("caller", "threw")
  /\ UNCHANGED <<rfcMsg, replies, inConn>>

PopNothing ==
  /\ rfcMsg' = Nothing
  /\ Goto("caller", "check")
  /\ UNCHANGED <<replies, inConn>>

\* By id: waitForReply, which waits while the field of that name is set.
ReadById ==
  /\ ById
  /\ At("caller", "read")
  /\ \/ waitForReply /\ (Pop \/ PopFails)
     \/ ~waitForReply /\ PopNothing
     \/ /\ waitForReply /\ replies = <<>>
        /\ Goto("caller", "waitId")
        /\ UNCHANGED <<rfcMsg, replies, inConn>>
  /\ UNCHANGED <<flags, released, inAgent, isStopping, bindHeld, answered, got>>

\* Any message: Message.Reply, which never waits.
ReadAny ==
  /\ ~ById
  /\ At("caller", "read")
  /\ Pop \/ PopFails \/ (replies = <<>> /\ PopNothing)
  /\ UNCHANGED <<flags, released, inAgent, isStopping, bindHeld, answered, got>>

\* MUTANT: a finished request is dropped with the replies nobody has read.
CheckFlagOnly ==
  /\ At("caller", "check")
  /\ IF ~acceptReplies
     THEN inAgent' = FALSE /\ Goto("caller", "abandon")
     ELSE UNCHANGED inAgent /\ Goto("caller", "return")
  /\ UNCHANGED <<flags, replies, released, inConn, isStopping, bindHeld,
                 answered, locals>>

\* A finished request leaves the agent and is abandoned, to free what it has.
Check ==
  /\ At("caller", "check")
  /\ IF ~acceptReplies /\ replies = <<>>
     THEN inAgent' = FALSE /\ Goto("caller", "abandon")
     ELSE UNCHANGED inAgent /\ Goto("caller", "return")
  /\ UNCHANGED <<flags, replies, released, inConn, isStopping, bindHeld,
                 answered, locals>>

\* Without a reply and with the message still there, a caller that asked for
\* any message waits; everyone else returns what was read.
Return ==
  /\ At("caller", "return")
  /\ IF ~ById /\ rfcMsg = Nothing /\ inAgent
     THEN Goto("caller", "waitAny") /\ UNCHANGED got
     ELSE /\ got' = Append(got, rfcMsg)
          /\ Goto("caller", IF IsBind \/ rfcMsg = Nothing THEN "end" ELSE "call")
  /\ UNCHANGED <<flags, replies, released, lists, isStopping, bindHeld,
                 answered, rfcMsg>>

-----------------------------------------------------------------------------
(* The reader: Message.putReply and the sleepersAwake it ends with.         *)

\* An answer arrives; the reader finds the message and tests acceptReplies.
Receive ==
  /\ At("reader", "idle")
  /\ pc["caller"] \notin {"start", "threw"}
  /\ answered < Answers
  /\ answered' = answered + 1
  /\ IF inConn /\ acceptReplies THEN Goto("reader", "add") ELSE UNCHANGED pc
  /\ UNCHANGED <<flags, replies, released, lists, isStopping, bindHeld, locals>>

\* MUTANT: only the result wakes the caller.
AddQuietly ==
  /\ At("reader", "add")
  /\ replies' = Append(replies, answered)
  /\ Goto("reader", IF answered = Answers THEN "stop" ELSE "idle")
  /\ UNCHANGED <<flags, released, lists, isStopping, bindHeld, answered, locals>>

\* MUTANT: the result is queued and the reader goes on at once.
AddAndForget ==
  /\ At("reader", "add")
  /\ replies' = Append(replies, answered)
  /\ Goto("reader", "idle")
  /\ UNCHANGED <<flags, released, lists, isStopping, bindHeld, answered, locals>>

AddReply ==
  /\ At("reader", "add")
  /\ replies' = Append(replies, answered)
  /\ Goto("reader", IF answered = Answers THEN "stop" ELSE "pulse")
  /\ UNCHANGED <<flags, released, lists, isStopping, bindHeld, answered, locals>>

\* The result: stopTimer, which sees the timer only once it was started, and
\* acceptReplies = false.
StopAccepting ==
  /\ At("reader", "stop")
  /\ isStopping' = (isStopping \/ TimerStarted)
  /\ acceptReplies' = FALSE
  /\ Goto("reader", "complete")
  /\ UNCHANGED <<waitForReply, complete, replies, released, lists, bindHeld,
                 answered, locals>>

\* complete = true ...
Complete ==
  /\ At("reader", "complete")
  /\ complete' = TRUE
  /\ Goto("reader", IF IsBind THEN "bindprops" ELSE "pulse")
  /\ UNCHANGED <<acceptReplies, waitForReply, replies, released, lists,
                 isStopping, bindHeld, answered, locals>>

\* ... and then bindprops is tested, which only a bind has, until cleanup.
BindProps ==
  /\ At("reader", "bindprops")
  /\ Goto("reader", IF released THEN "pulse" ELSE "free")
  /\ UNCHANGED <<flags, replies, released, lists, isStopping, bindHeld,
                 answered, locals>>

\* Connection.freeWriteSemaphore throws when the semaphore is not owned; and there
\* is no connection to call after cleanup.
FreeBind(a, next) ==
  /\ bindHeld' = (bindHeld /\ released)
  /\ Goto(a, IF bindHeld /\ ~released THEN next ELSE "threw")

FreeAfterBind ==
  /\ At("reader", "free")
  /\ FreeBind("reader", "pulse")
  /\ UNCHANGED <<flags, replies, released, lists, isStopping, answered, locals>>

-----------------------------------------------------------------------------
(* sleepersAwake: Pulse on replies, then on the agent's messages.           *)

PulseReplies(a) ==
  /\ At(a, "pulse")
  /\ pc' = [b \in Actors |->
              IF b = a THEN "pulseAgent"
              ELSE IF b = "caller" /\ pc[b] = "waitId" THEN "read" ELSE pc[b]]
  /\ UNCHANGED <<flags, replies, released, lists, isStopping, bindHeld,
                 answered, locals>>

\* What a thread does after sleepersAwake: the reader reads on, Abandon cleans
\* up unless it left a response to be read, and the timer goes round its loop.
AfterPulse == [reader |-> "idle", caller |-> "cleanup", abandoner |-> "cleanup",
               timer |-> "run", closer |-> "end"]

PulseAgent(a) ==
  /\ At(a, "pulseAgent")
  /\ AgentFree(a)
  /\ pc' = [b \in Actors |->
              IF b = a THEN AfterPulse[a]
              ELSE IF b = "caller" /\ pc[b] = "waitAny" THEN "read" ELSE pc[b]]
  /\ UNCHANGED <<flags, replies, released, lists, isStopping, bindHeld,
                 answered, locals>>

-----------------------------------------------------------------------------
(* Message.Abandon, run by any thread but the reader.                       *)

\* Where a thread goes on after Abandon.
AfterAbandon == [caller |-> "return", abandoner |-> "end", closer |-> "end",
                 timer |-> "run"]

\* The test of waitForReply that lets a thread through, then acceptReplies =
\* false; in one step, as who clears waitForReply has cleared acceptReplies
\* before, so that the write comes right after the test or changes nothing.
AbandonEnter(a) ==
  /\ At(a, "abandon")
  /\ acceptReplies' = (acceptReplies /\ ~waitForReply)
  /\ Goto(a, IF waitForReply THEN "ignore" ELSE AfterAbandon[a])
  /\ UNCHANGED <<waitForReply, complete, replies, released, lists, isStopping,
                 bindHeld, answered, locals>>

\* waitForReply = false, ...
AbandonIgnore(a) ==
  /\ At(a, "ignore")
  /\ waitForReply' = FALSE
  /\ Goto(a, "incomplete")
  /\ UNCHANGED <<acceptReplies, complete, replies, released, lists, isStopping,
                 bindHeld, answered, locals>>

\* MUTANT: the semaphore of an abandoned bind is not freed.
AbandonKeepsSemaphore(a) ==
  /\ At(a, "incomplete")
  /\ Goto(a, IF complete THEN "tell" ELSE "write")
  /\ UNCHANGED <<flags, replies, released, lists, isStopping, bindHeld,
                 answered, locals>>

\* ... then complete is tested, ...
AbandonIncomplete(a) ==
  /\ At(a, "incomplete")
  /\ Goto(a, IF complete THEN "tell" ELSE IF IsBind THEN "bindprops" ELSE "write")
  /\ UNCHANGED <<flags, replies, released, lists, isStopping, bindHeld,
                 answered, locals>>

\* ... and bindprops.
AbandonBindProps(a) ==
  /\ a # "reader"
  /\ At(a, "bindprops")
  /\ Goto(a, IF released THEN "write" ELSE "free")
  /\ UNCHANGED <<flags, replies, released, lists, isStopping, bindHeld,
                 answered, locals>>

AbandonFree(a) ==
  /\ a # "reader"
  /\ At(a, "free")
  /\ FreeBind(a, "write")
  /\ UNCHANGED <<flags, replies, released, lists, isStopping, answered, locals>>

\* The abandon request is written, which waits for the write semaphore: this bind
\* may hold it, or other requests for any time.  conn is null after cleanup.
WriteAbandon(a) ==
  /\ At(a, "write")
  /\ IF released THEN Goto(a, "threw")
     ELSE ~bindHeld /\ Goto(a, "unlink")
  /\ UNCHANGED <<flags, replies, released, lists, isStopping, bindHeld,
                 answered, locals>>

\* The message leaves the lists; agent.Abandon finds it under the agent's lock.
AbandonUnlink(a) ==
  /\ At(a, "unlink")
  /\ AgentFree(a) \/ Informs(a) # Nothing
  /\ IF released THEN Goto(a, "threw") /\ UNCHANGED lists
     ELSE /\ Goto(a, "tell")
          /\ inConn' = FALSE
          /\ inAgent' = (inAgent /\ Informs(a) # Nothing)
  /\ UNCHANGED <<flags, replies, released, isStopping, bindHeld, answered, locals>>

\* MUTANT: the application is told, but not woken.
TellQuietly(a) ==
  /\ At(a, "tell")
  /\ IF Informs(a) = Nothing
     THEN Goto(a, "pulse") /\ UNCHANGED <<replies, isStopping>>
     ELSE IF released THEN Goto(a, "threw") /\ UNCHANGED <<replies, isStopping>>
     ELSE /\ Goto(a, AfterAbandon[a])
          /\ replies' = Append(replies, Informs(a))
          /\ isStopping' = (isStopping \/ TimerStarted)
  /\ UNCHANGED <<flags, released, lists, bindHeld, answered, locals>>

\* The application is told: one more reply, and the timer is stopped.
AbandonTell(a) ==
  /\ At(a, "tell")
  /\ IF Informs(a) = Nothing
     THEN Goto(a, "pulse") /\ UNCHANGED <<replies, isStopping>>
     ELSE IF released THEN Goto(a, "threw") /\ UNCHANGED <<replies, isStopping>>
     ELSE /\ Goto(a, "pulse")
          /\ replies' = Append(replies, Informs(a))
          /\ isStopping' = (isStopping \/ TimerStarted)
  /\ UNCHANGED <<flags, released, lists, bindHeld, answered, locals>>

Cleanup(a) ==
  /\ At(a, "cleanup")
  /\ isStopping' = (isStopping \/ TimerStarted)
  /\ acceptReplies' = FALSE
  /\ inConn' = FALSE
  /\ replies' = <<>>
  /\ released' = TRUE
  /\ Goto(a, AfterAbandon[a])
  /\ UNCHANGED <<waitForReply, complete, inAgent, bindHeld, answered, locals>>

-----------------------------------------------------------------------------
(* What makes the other threads abandon the request.                        *)

\* Timeout.Run tests IsStopping before it sleeps, not after.
TimerSleeps ==
  /\ At("timer", "run")
  /\ Goto("timer", IF isStopping THEN "end" ELSE "sleep")
  /\ UNCHANGED <<flags, replies, released, lists, isStopping, bindHeld,
                 answered, locals>>

TimerFires ==
  /\ At("timer", "sleep")
  /\ acceptReplies' = FALSE
  /\ Goto("timer", "abandon")
  /\ UNCHANGED <<waitForReply, complete, replies, released, lists, isStopping,
                 bindHeld, answered, locals>>

\* LdapConnection.Abandon(id) finds the message in the connection's list, then
\* in the agent's, or nothing happens; ...
UserFinds ==
  /\ "abandoner" \in Others
  /\ At("abandoner", "idle")
  /\ AgentFree("abandoner")
  /\ Goto("abandoner", IF inConn /\ inAgent THEN "found" ELSE "end")
  /\ UNCHANGED <<flags, replies, released, lists, isStopping, bindHeld,
                 answered, locals>>

\* ... the agent's list is then changed without its lock.
UserAbandons ==
  /\ At("abandoner", "found")
  /\ inAgent' = FALSE
  /\ Goto("abandoner", "abandon")
  /\ UNCHANGED <<flags, replies, released, inConn, isStopping, bindHeld,
                 answered, locals>>

\* Connection.Dispose takes the message from its list and abandons it.  If it
\* is the reader that does so, it will not return to receive another answer.
Dispose ==
  /\ "closer" \in Others
  /\ At("closer", "idle")
  /\ inConn' = FALSE
  /\ Goto("closer", IF inConn THEN "abandon" ELSE "end")
  /\ UNCHANGED <<flags, replies, released, inAgent, isStopping, bindHeld,
                 answered, locals>>

-----------------------------------------------------------------------------
Abandon(a) ==
  \/ AbandonEnter(a) \/ AbandonIgnore(a)
  \/ AbandonIncomplete(a) \/ AbandonBindProps(a) \/ AbandonFree(a)
  \/ AbandonUnlink(a) \/ AbandonTell(a) \/ Cleanup(a)

Awaken(a) == PulseReplies(a) \/ PulseAgent(a)

CallerStep == StartTimer \/ EnterGet \/ ReadById \/ ReadAny \/ Check \/ Return

PutReply == AddReply \/ StopAccepting \/ Complete \/ BindProps \/ FreeAfterBind

\* What a thread does once it runs, without waiting for the world outside.
Step(a) ==
  \/ a = "caller" /\ CallerStep
  \/ a = "reader" /\ PutReply
  \/ a = "timer" /\ (TimerSleeps \/ TimerFires)
  \/ a = "abandoner" /\ UserAbandons
  \/ Abandon(a)
  \/ Awaken(a)

Next ==
  \/ Send \/ Receive \/ UserFinds \/ Dispose
  \/ \E a \in Actors : Step(a) \/ WriteAbandon(a)

Spec == Init /\ [][Next]_vars

\* Threads are scheduled, the timer's sleep ends; nothing is assumed of the
\* server, of the connection, of the other application threads or of the requests
\* that have the write semaphore an abandon waits for.  One condition is enough
\* for all threads but the timer, as each of them makes finitely many steps.
FairSpec ==
  /\ Spec
  /\ WF_vars(Step("timer"))
  /\ WF_vars(\E a \in Actors \ {"timer"} : Step(a))

-----------------------------------------------------------------------------
Replies == 1..Answers \cup {TimedOut, Closed}

FlagsOK ==
  /\ acceptReplies \in BOOLEAN /\ waitForReply \in BOOLEAN /\ complete \in BOOLEAN
  /\ released \in BOOLEAN /\ inConn \in BOOLEAN /\ inAgent \in BOOLEAN
  /\ isStopping \in BOOLEAN /\ bindHeld \in BOOLEAN

RepliesOK ==
  /\ replies \in Seq(Replies)
  /\ answered \in 0..Answers
  /\ rfcMsg \in Replies \cup {Nothing}
  /\ got \in Seq(Replies \cup {Nothing})

\* Where each thread can be; only two of them can get to cleanup.
AbandonPlaces == {"abandon", "ignore", "incomplete", "bindprops", "free",
                  "write", "unlink", "tell", "pulse", "pulseAgent", "cleanup"}

Places == {"idle", "start", "sent", "call", "read", "waitId", "waitAny",
           "check", "return", "add", "stop", "complete", "run", "sleep", "found",
           "end", "threw"} \cup AbandonPlaces

PlacesOK ==
  /\ pc \in [Actors -> Places]
  /\ pc["caller"] \in {"start", "sent", "call", "read", "waitId", "waitAny",
                       "check", "return", "end", "threw"} \cup AbandonPlaces
  /\ pc["reader"] \in {"idle", "add", "stop", "complete", "bindprops", "free",
                       "pulse", "pulseAgent", "threw", "end"}
  /\ pc["timer"] \in {"idle", "run", "sleep", "end", "threw"}
                       \cup (AbandonPlaces \ {"cleanup"})
  /\ pc["abandoner"] \in {"idle", "found", "end", "threw"} \cup AbandonPlaces
  /\ pc["closer"] \in {"idle", "end", "threw"} \cup (AbandonPlaces \ {"cleanup"})

TypeOK == FlagsOK /\ RepliesOK /\ PlacesOK

\* Threads that will pulse replies, or the agent's messages, before they are
\* done with what they have changed.
BeforePulse == {"add", "stop", "complete", "incomplete", "bindprops", "free", "write",
                "unlink", "tell", "pulse"}
WillPulse(places) == \E a \in Actors : pc[a] \in places

\* No wakeup is lost: a caller that sleeps while there is a reply to read, or
\* while the request is over, has a thread on its way to wake it, although
\* flags and replies change without the lock it sleeps on.
SleeperWillBeWoken ==
  replies # <<>> \/ ~waitForReply =>
    /\ At("caller", "waitId") => WillPulse(BeforePulse)
    /\ At("caller", "waitAny") => WillPulse(BeforePulse \cup {"pulseAgent"})

Inv == TypeOK /\ SleeperWillBeWoken

\* The answers returned to the application are those of the server, in their
\* order: when one is returned all before it were, and none is returned twice.
DeliveredInOrder ==
  \A l \in 1..Len(got) : got[l] > 0 =>
    /\ \A k \in 1..(l - 1) : got[k] < got[l]
    /\ got[l] > 1 => \E k \in 1..(l - 1) : got[k] = got[l] - 1

\* The caller is told how its request ended: by the result, by the timeout or
\* by the closing of the connection, not by a null that says nothing.
TheEndIsTold ==
  At("caller", "end") =>
    \E k \in 1..Len(got) : got[k] \in {Answers, TimedOut, Closed}

\* "stops the timeout timer from running": once the result was read no timeout
\* of the same request is.
NoTimeoutAfterResult ==
  \A k, l \in 1..Len(got) : k < l /\ got[k] = Answers => got[l] # TimedOut

\* "Remove msg from connection queue when last reply read".
ReadOutLeavesConnection ==
  At("caller", "end") /\ (\E k \in 1..Len(got) : got[k] = Answers) => ~inConn

\* The application that sent a request gets to the end of its answers: no
\* getResponse blocks for ever, whatever the other threads do, unless the abandon
\* of the request waits for the write semaphore for ever.
CallerEnds ==
  \/ []<>(pc["caller"] \in {"start", "end", "threw"})
  \/ <>[](\E a \in Actors : At(a, "write"))

\* The answer of a bind was read, and the bind cleaned up, before the reader had
\* looked at bindprops and conn.
ReadTooEarly == complete /\ released

\* A bind gives the write semaphore back, whether it is answered, times out, is
\* abandoned or disconnected, in any order, unless an exception took its caller
\* away, as when its request could not be written, or its answer was read too early.
BindReleases == []<>(~bindHeld \/ At("caller", "threw") \/ ReadTooEarly)

\* Do not hold: freeWriteSemaphore throws at a thread that frees what is not held,
\* yet whoever is about to free the semaphore of a bind need not find it held; and
\* "the semaphore is released when the bind response is queued".
FreedOnce == \A a \in Actors : At(a, "free") => bindHeld
ReleasedWhenQueued == complete /\ At("reader", "pulse") => ~bindHeld
=============================================================================
