-------------------------- MODULE MessageAsQueue --------------------------
(***************************************************************************)
(* A search request, seen by the thread that reads its queue: LdapMessage  *)
(* implements ResponseQueue, which LdapSearchResults is built on.          *)
(***************************************************************************)
EXTENDS LdapMessage, FiniteSetsExt

\* A request is in the agent from the start; before it is sent nobody can tell.
Listed == inAgent \/ At("caller", "start")

AsReply(r) == CASE r = Answers -> [kind |-> "success", number |-> r]
                [] r \in 1..(Answers - 1) -> [kind |-> "entry", number |-> r]
                [] OTHER -> [kind |-> "closed", number |-> 0]

AsReplies(s) == [k \in 1..Len(s) |-> AsReply(s[k])]

\* The answers queued so far are those that were returned, the one in the
\* caller's hands and those in the queue.
Members(s) == {s[k] : k \in 1..Len(s)}
Queued == Members(got) \cup {rfcMsg} \cup Members(replies)

\* The timer and the closer inform the application; the others that abandon a
\* request have taken it from the agent.
Cutters(p, places) == Cardinality({a \in {"timer", "closer"} : p[a] \in places})

\* Past the test of waitForReply, and the exception not yet queued.
Telling == {"ignore", "incomplete", "bindprops", "free", "write", "unlink", "tell"}

Abstract == INSTANCE ResponseQueue WITH
  MaxReplies <- Answers - 1,
  MaxCuts <- 2,
  replies <- IF Listed THEN AsReplies(replies) ELSE <<>>,
  acceptReplies <- acceptReplies /\ Listed,
  waitForReply <- waitForReply /\ Listed,
  inAgent <- Listed,
  answered <- IF Listed THEN Max(Queued \cup {0}) ELSE 0,
  adding <- At("reader", "add") /\ Listed,
  settling <- At("reader", "stop") /\ Listed,
  deciding <- IF waitForReply /\ Listed THEN Cutters(pc, {"abandon"}) ELSE 0,
  telling <- IF Listed THEN Cutters(pc, Telling) ELSE 0

\* What the five threads do to a request is, for the thread that reads it, what
\* ResponseQueue says: replies come and go in order, the request is settled or
\* cut, an exception follows a cut, a null is read only of a request that is
\* over, and replies are thrown away only when the application abandons it.
ImplementsResponseQueue ==
  /\ Abstract!QueueInit
  /\ [][\/ Abstract!Arrives \/ Abstract!Settles
        \/ Abstract!TakeReply \/ Abstract!TakeNull
        \/ UserAbandons /\ Abstract!AbandonAll]_(Abstract!queue)
=============================================================================
