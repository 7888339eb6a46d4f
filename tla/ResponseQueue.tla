--------------------------- MODULE ResponseQueue ---------------------------
(***************************************************************************)
(* What a queue with one search in it is to the thread that reads it.  The *)
(* reader thread puts answers and settles the request after the result; a  *)
(* disconnection or the timeout cuts it and then puts a reply of its own.  *)
(* LdapMessage is shown to implement QueueSpec.                            *)
(***************************************************************************)
EXTENDS Integers, Sequences

CONSTANTS
  MaxReplies,  \* replies the server sends before its result, at most
  MaxCuts      \* threads that may cut the request: the timeout, Dispose

ASSUME QueueAssumption == MaxReplies \in Nat /\ MaxCuts \in Nat

VARIABLES
  replies,       \* Message.replies
  acceptReplies, \* of Message
  waitForReply,  \* of Message
  inAgent,       \* the message is in MessageAgent.messages; all else is FALSE,
                 \* zero or empty when it is not
  answered,      \* answers queued so far
  adding,        \* an answer was accepted and is not yet queued
  settling,      \* the result is queued, acceptReplies not yet cleared
  deciding,      \* threads about to test waitForReply, which is still set
  telling        \* threads that have cleared acceptReplies, not queued the exception

queue == <<replies, acceptReplies, waitForReply, inAgent, answered, adding,
           settling, deciding, telling>>

flags == <<acceptReplies, waitForReply>>
server == <<answered, adding, settling>>
cutters == <<deciding, telling>>

Result == {"success", "referral", "failure"}
Kinds == {"entry", "reference", "closed"} \cup Result

\* Answers are numbered.
Put(kinds) ==
  /\ answered' = answered + 1
  /\ \E kind \in kinds : replies' = Append(replies, [kind |-> kind, number |-> answered'])

\* What happens to a message that has left the agent, nobody can tell.
Leave ==
  /\ inAgent' = FALSE
  /\ acceptReplies' = FALSE /\ waitForReply' = FALSE
  /\ answered' = 0 /\ adding' = FALSE /\ settling' = FALSE
  /\ deciding' = 0 /\ telling' = 0
  /\ replies' = <<>>

QueueInit ==
  /\ replies = <<>>
  /\ acceptReplies = TRUE /\ waitForReply = TRUE
  /\ inAgent = TRUE
  /\ answered = 0 /\ adding = FALSE /\ settling = FALSE
  /\ deciding = 0 /\ telling = 0

\* putReply as far as the test of acceptReplies.
Accept ==
  /\ acceptReplies /\ ~adding /\ ~settling
  /\ adding' = TRUE
  /\ UNCHANGED <<replies, flags, inAgent, answered, settling, cutters>>

\* putReply of an entry or a reference.
Answer ==
  /\ adding
  /\ answered < MaxReplies
  /\ Put({"entry", "reference"})
  /\ adding' = FALSE
  /\ UNCHANGED <<flags, inAgent, settling, cutters>>

\* putReply of the result, as far as the list of replies.
Finish ==
  /\ adding
  /\ Put(Result)
  /\ adding' = FALSE
  /\ settling' = TRUE
  /\ UNCHANGED <<flags, inAgent, cutters>>

\* The rest of putReply.
Settle ==
  /\ settling
  /\ settling' = FALSE
  /\ acceptReplies' = FALSE
  /\ UNCHANGED <<replies, waitForReply, inAgent, answered, adding, cutters>>

\* The timer fires, which clears acceptReplies, or Dispose takes the message
\* from the connection; also of a request whose result nobody has read yet.
Cut ==
  /\ waitForReply
  /\ deciding + telling < MaxCuts
  /\ deciding' = deciding + 1
  /\ acceptReplies' \in {acceptReplies, FALSE}
  /\ UNCHANGED <<replies, waitForReply, inAgent, server, telling>>

\* Message.Abandon lets through who finds waitForReply set, clears acceptReplies
\* ...
Decide ==
  /\ deciding > 0
  /\ deciding' = deciding - 1
  /\ telling' = telling + 1
  /\ acceptReplies' = FALSE
  /\ UNCHANGED <<replies, waitForReply, inAgent, server>>

\* ... and then waitForReply, which turns back who has not tested it ...
Close ==
  /\ telling > 0 /\ waitForReply
  /\ waitForReply' = FALSE
  /\ deciding' = 0
  /\ UNCHANGED <<replies, acceptReplies, inAgent, server, telling>>

\* ... and queues the exception.
Tell ==
  /\ telling > 0 /\ ~waitForReply
  /\ telling' = telling - 1
  /\ replies' = Append(replies, [kind |-> "closed", number |-> 0])
  /\ UNCHANGED <<flags, inAgent, server, deciding>>

\* getLdapMessage, seen from outside: it takes a reply, or it finds that there
\* are none left and drops the message, or the message is gone already.  It
\* waits otherwise.  The message goes with the last reply of a request that
\* accepts no more, unless another reply was queued meanwhile.
TakeReply ==
  /\ replies # <<>>
  /\ \/ /\ replies' = Tail(replies)
        /\ UNCHANGED <<inAgent, flags, server, cutters>>
     \/ /\ ~acceptReplies /\ Len(replies) = 1
        /\ Leave

\* MUTANT: a reader of a request that has ended meanwhile waits on.
TakeNullAtEntry ==
  /\ ~inAgent
  /\ UNCHANGED queue

TakeNull ==
  /\ ~acceptReplies /\ replies = <<>>
  /\ Leave

\* MessageAgent.AbandonAll: the message goes with all its replies.
AbandonAll == Leave

Arrives == Accept \/ Cut
Settles == Answer \/ Finish \/ Settle \/ Decide \/ Close \/ Tell

QueueNext == Arrives \/ Settles \/ TakeReply \/ TakeNull \/ AbandonAll

QueueSpec == QueueInit /\ [][QueueNext]_queue

QueueTypeOK ==
  /\ replies \in Seq([kind : Kinds, number : 0..(MaxReplies + 1)])
  /\ {acceptReplies, waitForReply, inAgent, adding, settling} \subseteq BOOLEAN
  /\ answered \in 0..(MaxReplies + 1)
  /\ deciding \in 0..MaxCuts /\ telling \in 0..MaxCuts
=============================================================================
