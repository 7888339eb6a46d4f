--------------------------- MODULE ConnectionLoss ---------------------------
(***************************************************************************)
(* The end of a connection with several requests in it: Connection.Dispose *)
(* beside application threads that are writing requests or wait for their  *)
(* answers (Connection.cs, with Message.Abandon of Message.cs).            *)
(*                                                                         *)
(* Each request is a thread: it sends one request and waits in             *)
(* getResponse.  The closer is the thread in Dispose: the reader, when the *)
(* connection is lost or the server announces that it closes it, or an     *)
(* application thread that disconnects, beside the reader.  The flags of a *)
(* Message are written and tested without a lock by its thread, the reader *)
(* and the closer, so each access is a step.  Two threads in Dispose, TLS  *)
(* and the readers that a reconnection starts are ReaderThread's; the      *)
(* monitors of one request are LdapMessage's, so here a reply that is      *)
(* queued wakes its thread.  A bind that finds the connection closed       *)
(* connects again and leaves this model there.                             *)
(***************************************************************************)
EXTENDS Integers, SequencesExt

CONSTANTS
  Requests,
  Binds,    \* the requests that are binds, which own the semaphore until answered
  Endings,  \* how the connection may end: "lost", "notice", "disconnect"
  None

Closer == "closer"   \* the name of the thread in Dispose to the semaphore

ASSUME LossAssumption ==
  /\ Binds \subseteq Requests
  /\ Endings \subseteq {"lost", "notice", "disconnect"}
  /\ None \notin Requests \cup {"lost", "notice", "disconnect", Closer}
  /\ Closer \notin Requests

VARIABLES
  messages,     \* Connection.messages
  streams,      \* in_Renamed and out_Renamed are not null
  socketOpen, peerUp,
  clientActive,
  bound,        \* bindProperties is set, and not anonymous
  semaphore,    \* writeSemaphoreOwner and writeSemaphoreCount
  at,           \* where each request's thread is
  myOut,        \* local of writeMessage: the stream was not null
  acceptReplies, waitForReply, complete,  \* of each Message
  replies,      \* the number of its replies
  released,     \* its conn and bindprops are null
  reader,       \* where the reader is, as long as it is not the closer
  answered,     \* the request whose answer it has in hand
  ending,       \* why Dispose was called
  closer,       \* where the thread in Dispose is
  info,         \* the request it has taken from the list
  late,         \* history: requests that joined the list after it was emptied
  dropped       \* history: requests removed from it in the place of another one

wires == <<streams, socketOpen, peerUp>>
flags == <<acceptReplies, waitForReply, complete, released>>
reading == <<reader, answered, bound>>
disposing == <<ending, closer, info, clientActive, dropped>>
vars == <<messages, wires, semaphore, at, myOut, flags, replies, reading, disposing,
          late>>

Init ==
  /\ messages = <<>>
  /\ streams = TRUE /\ socketOpen = TRUE /\ peerUp = TRUE
  /\ clientActive = TRUE
  /\ bound \in BOOLEAN
  /\ semaphore = [owner |-> None, count |-> 0]
  /\ at = [r \in Requests |-> IF r \in Binds THEN "new" ELSE "add"]
  /\ myOut = [r \in Requests |-> FALSE]
  /\ acceptReplies = [r \in Requests |-> TRUE]
  /\ waitForReply = [r \in Requests |-> TRUE]
  /\ complete = [r \in Requests |-> FALSE]
  /\ replies = [r \in Requests |-> 0]
  /\ released = [r \in Requests |-> FALSE]
  /\ reader = "read" /\ answered = None
  /\ ending = None /\ closer = "idle" /\ info = None
  /\ late = {} /\ dropped = {}

Goto(r, s) == at' = [at EXCEPT ![r] = s]

\* acquireWriteSemaphore and freeWriteSemaphore by message id; see WriteSemaphore.
Available(r) == semaphore.owner \in {None, r}
Taken(r) == [owner |-> r, count |-> semaphore.count + 1]
Freed == IF semaphore.count = 1 THEN [owner |-> None, count |-> 0]
         ELSE [semaphore EXCEPT !.count = @ - 1]

-----------------------------------------------------------------------------
(* A thread with a request: writeMessage *)

\* A bind takes the semaphore before it is sent.
Begin(r) ==
  /\ at[r] = "new"
  /\ Available(r)
  /\ semaphore' = Taken(r)
  /\ Goto(r, "add")
  /\ UNCHANGED <<messages, wires, myOut, flags, replies, reading, disposing, late>>

\* MUTANT: the request is not tracked, as an abandon request is not.
AddNot(r) ==
  /\ at[r] = "add"
  /\ Goto(r, "test")
  /\ UNCHANGED <<messages, wires, semaphore, myOut, flags, replies, reading, disposing,
                 late>>

\* Where Dispose has found the list empty.
Closing == {"canWrite", "unbind", "stop", "join", "release"}
Emptied == Closing \cup {"close", "end"}

\* The request joins the list of those that wait for answers ...
Add(r) ==
  /\ at[r] = "add"
  /\ messages' = Append(messages, r)
  /\ late' = IF closer \in Emptied THEN late \cup {r} ELSE late
  /\ Goto(r, "test")
  /\ UNCHANGED <<wires, semaphore, myOut, flags, replies, reading, disposing>>

\* ... and only then is the connection tested.
Test(r) ==
  /\ at[r] = "test"
  /\ Goto(r, CASE streams -> "stream"
               [] ~streams /\ r \in Binds -> "connect"
               [] OTHER -> "threw")
  /\ UNCHANGED <<messages, wires, semaphore, myOut, flags, replies, reading, disposing,
                 late>>

\* The stream is read before the semaphore is acquired.
Stream(r) ==
  /\ at[r] = "stream"
  /\ myOut' = [myOut EXCEPT ![r] = streams]
  /\ Goto(r, "acquire")
  /\ UNCHANGED <<messages, wires, semaphore, flags, replies, reading, disposing, late>>

Acquire(r) ==
  /\ at[r] = "acquire"
  /\ Available(r)
  /\ semaphore' = Taken(r)
  /\ Goto(r, "write")
  /\ UNCHANGED <<messages, wires, myOut, flags, replies, reading, disposing, late>>

\* What a write may come to.  A stream that was closed meanwhile takes nothing
\* and says nothing, and an IOException is kept quiet once Dispose has begun.
Written == {"sent"}
Quiet == {"enter"}
Raised == IF clientActive THEN {"threw"} ELSE Quiet

WriteEnds(r) ==
  CASE ~myOut[r] -> Raised
    [] myOut[r] /\ ~socketOpen -> Quiet
    [] myOut[r] /\ socketOpen /\ peerUp -> Written
    [] OTHER -> Written \cup Raised

Write(r) ==
  /\ at[r] = "write"
  /\ \E place \in WriteEnds(r) : Goto(r, place)
  /\ semaphore' = Freed
  /\ myOut' = [myOut EXCEPT ![r] = FALSE]
  /\ UNCHANGED <<messages, wires, flags, replies, reading, disposing, late>>

-----------------------------------------------------------------------------
(* getResponse *)

\* Without a reply the thread sleeps, or gives up a request that accepts no more.
Enter(r) ==
  /\ at[r] \in {"sent", "enter"}
  /\ replies[r] = 0
  /\ Goto(r, IF acceptReplies[r] THEN "asleep" ELSE "giveUp")
  /\ UNCHANGED <<messages, wires, semaphore, myOut, flags, replies, reading, disposing,
                 late>>

\* The last reply that was read takes the request from the list.  Reading it is one
\* step with the test, as it commutes with replies that are added behind it.
Return(r) ==
  /\ at[r] \in {"sent", "enter", "asleep"}
  /\ replies[r] > 0
  /\ replies' = [replies EXCEPT ![r] = @ - 1]
  /\ messages' = IF (complete[r] \/ ~acceptReplies[r]) /\ replies[r] = 1
                 THEN RemoveFirst(messages, r) ELSE messages
  /\ Goto(r, "popped")
  /\ UNCHANGED <<wires, semaphore, myOut, flags, reading, disposing, late>>

Check(r) ==
  /\ at[r] = "popped"
  /\ Goto(r, IF ~acceptReplies[r] /\ replies[r] = 0 THEN "giveUp" ELSE "done")
  /\ UNCHANGED <<messages, wires, semaphore, myOut, flags, replies, reading, disposing,
                 late>>

\* Message.Abandon without an exception for the user: nothing where another thread
\* abandons the request already ...
GiveUp(r) ==
  /\ at[r] = "giveUp"
  /\ Goto(r, IF waitForReply[r] THEN "ignore" ELSE "done")
  /\ UNCHANGED <<messages, wires, semaphore, myOut, flags, replies, reading, disposing,
                 late>>

Ignore(r) ==
  /\ at[r] = "ignore"
  /\ waitForReply' = [waitForReply EXCEPT ![r] = FALSE]
  /\ Goto(r, "incomplete")
  /\ UNCHANGED <<messages, wires, semaphore, myOut, acceptReplies, complete, released,
                 replies, reading, disposing, late>>

Incomplete(r) ==
  /\ at[r] = "incomplete"
  /\ Goto(r, CASE complete[r] -> "cleanup"
               [] ~complete[r] /\ r \in Binds -> "free"
               [] OTHER -> "abandon")
  /\ UNCHANGED <<messages, wires, semaphore, myOut, flags, replies, reading, disposing,
                 late>>

\* ... but the semaphore of a bind is freed, which throws if it is no longer the
\* bind's ...
Free(r) ==
  /\ at[r] = "free"
  /\ semaphore' = IF semaphore.owner = r THEN Freed ELSE semaphore
  /\ Goto(r, IF semaphore.owner = r THEN "abandon" ELSE "threw")
  /\ UNCHANGED <<messages, wires, myOut, flags, replies, reading, disposing, late>>

\* ... an abandon request written, for which the semaphore is acquired and freed,
Abandon(r) ==
  /\ at[r] = "abandon"
  /\ semaphore.owner = None
  /\ Goto(r, "cleanup")
  /\ UNCHANGED <<messages, wires, semaphore, myOut, flags, replies, reading, disposing,
                 late>>

\* and the request leaves the list and forgets its connection.
Cleanup(r) ==
  /\ at[r] = "cleanup"
  /\ messages' = RemoveFirst(messages, r)
  /\ replies' = [replies EXCEPT ![r] = 0]
  /\ released' = [released EXCEPT ![r] = TRUE]
  /\ Goto(r, "done")
  /\ UNCHANGED <<wires, semaphore, myOut, acceptReplies, waitForReply, complete, reading,
                 disposing, late>>

-----------------------------------------------------------------------------
(* The server and the reader *)

Lose ==
  /\ "lost" \in Endings /\ peerUp /\ socketOpen
  /\ peerUp' = FALSE
  /\ UNCHANGED <<messages, streams, socketOpen, semaphore, at, myOut, flags, replies,
                 reading, disposing, late>>

\* The result of a request that is in the list and accepts it; other answers are
\* thrown away.
Receive(r) ==
  /\ reader = "read"
  /\ peerUp /\ socketOpen
  /\ at[r] \in {"sent", "asleep"}
  /\ r \in ToSet(messages) /\ acceptReplies[r]
  /\ reader' = "add" /\ answered' = r
  /\ UNCHANGED <<messages, wires, semaphore, at, myOut, flags, replies, bound, disposing,
                 late>>

\* The reader is ready for the next answer.
Listen == reader' = "read" /\ answered' = None

\* putReply queues it ...
AddReply ==
  /\ reader = "add"
  /\ replies' = [replies EXCEPT ![answered] = @ + 1]
  /\ reader' = "stop"
  /\ UNCHANGED <<messages, wires, semaphore, at, myOut, flags, answered, bound, disposing,
                 late>>

\* ... closes the request to more ...
Stop ==
  /\ reader = "stop"
  /\ acceptReplies' = [acceptReplies EXCEPT ![answered] = FALSE]
  /\ reader' = "complete"
  /\ UNCHANGED <<messages, wires, semaphore, at, myOut, waitForReply, complete, released,
                 replies, answered, bound, disposing, late>>

\* ... and ends there, but for a bind ...
Complete ==
  /\ reader = "complete"
  /\ complete' = [complete EXCEPT ![answered] = TRUE]
  /\ IF answered \in Binds THEN reader' = "bindprops" /\ UNCHANGED answered
     ELSE Listen
  /\ UNCHANGED <<messages, wires, semaphore, at, myOut, acceptReplies, waitForReply,
                 released, replies, bound, disposing, late>>

\* ... that still has its properties.
BindProps ==
  /\ reader = "bindprops"
  /\ IF released[answered] THEN Listen ELSE reader' = "free" /\ UNCHANGED answered
  /\ UNCHANGED <<messages, wires, semaphore, at, myOut, flags, replies, bound, disposing,
                 late>>

\* The reader's catch clause forgets the streams; an active connection is then
\* disposed of.
Fails ==
  /\ streams' = FALSE
  /\ reader' = "ended" /\ answered' = None
  /\ IF ending = None THEN ending' = "lost" /\ closer' = "active"
     ELSE UNCHANGED <<ending, closer>>

\* MUTANT: the answer of a bind does not free the semaphore.
FreeNot ==
  /\ reader = "free"
  /\ Listen
  /\ UNCHANGED <<messages, wires, semaphore, at, myOut, flags, replies, bound, disposing,
                 late>>

\* A bind that succeeds changes the properties of the connection, and the semaphore
\* is freed.  This throws for a request that has no connection any more, and where
\* the semaphore is no longer the bind's.
FreeAnswered ==
  /\ reader = "free"
  /\ \/ /\ ~released[answered] /\ semaphore.owner = answered
        /\ bound' \in BOOLEAN
        /\ semaphore' = Freed
        /\ Listen
        /\ UNCHANGED <<streams, ending, closer>>
     \/ /\ released[answered] \/ semaphore.owner # answered
        /\ Fails
        /\ UNCHANGED <<semaphore, bound>>
  /\ UNCHANGED <<messages, socketOpen, peerUp, at, myOut, flags, replies, info,
                 clientActive, dropped, late>>

\* The read throws.
ReadFails ==
  /\ reader = "read"
  /\ ~(peerUp /\ socketOpen)
  /\ ending = None => "lost" \in Endings
  /\ Fails
  /\ UNCHANGED <<messages, socketOpen, peerUp, semaphore, at, myOut, flags, replies, bound,
                 info, clientActive, dropped, late>>

Ends(e) ==
  /\ ending = None /\ e \in Endings
  /\ ending' = e
  /\ closer' = "active"
  /\ UNCHANGED <<messages, wires, semaphore, at, myOut, flags, replies, answered, bound,
                 info, clientActive, dropped, late>>

\* The server announces the end, to the reader ...
Notice == reader = "read" /\ peerUp /\ Ends("notice") /\ reader' = "ended"

\* ... or a thread of the application disconnects.
Disconnect == streams /\ Ends("disconnect") /\ UNCHANGED reader

-----------------------------------------------------------------------------
(* Dispose *)

CloserGoes(from, to) == closer = from /\ closer' = to

Deactivate ==
  /\ CloserGoes("active", "take")
  /\ clientActive' = FALSE
  /\ UNCHANGED <<messages, wires, semaphore, at, myOut, flags, replies, reading, ending,
                 info, dropped, late>>

\* The head of the list is read ...
Take ==
  /\ closer = "take"
  /\ IF messages = <<>> THEN closer' = "close" /\ info' = None
     ELSE closer' = "remove" /\ info' = Head(messages)
  /\ UNCHANGED <<messages, wires, semaphore, at, myOut, flags, replies, reading, ending,
                 clientActive, dropped, late>>

\* ... and the head is removed, which may be another by now, or none.
RemoveHead ==
  /\ closer = "remove"
  /\ IF messages = <<>>
     THEN closer' = "close" /\ info' = None /\ UNCHANGED <<messages, dropped>>
     ELSE /\ closer' = "abandon"
          /\ messages' = Tail(messages)
          /\ dropped' = dropped \cup ({Head(messages)} \ {info})
          /\ UNCHANGED info
  /\ UNCHANGED <<wires, semaphore, at, myOut, flags, replies, reading, ending, clientActive,
                 late>>

\* Message.Abandon with an exception for the user, beside the thread that reads the
\* answer and the reader that brings it.
AbandonTest ==
  /\ CloserGoes("abandon", IF waitForReply[info] THEN "accept" ELSE "take")
  /\ UNCHANGED <<messages, wires, semaphore, at, myOut, flags, replies, reading, ending,
                 info, clientActive, dropped, late>>

AbandonAccept ==
  /\ CloserGoes("accept", "ignore")
  /\ acceptReplies' = [acceptReplies EXCEPT ![info] = FALSE]
  /\ UNCHANGED <<messages, wires, semaphore, at, myOut, waitForReply, complete, released,
                 replies, reading, ending, info, clientActive, dropped, late>>

AbandonIgnore ==
  /\ CloserGoes("ignore", "incomplete")
  /\ waitForReply' = [waitForReply EXCEPT ![info] = FALSE]
  /\ UNCHANGED <<messages, wires, semaphore, at, myOut, acceptReplies, complete, released,
                 replies, reading, ending, info, clientActive, dropped, late>>

AbandonIncomplete ==
  /\ CloserGoes("incomplete", CASE complete[info] -> "tell"
                                [] ~complete[info] /\ info \in Binds -> "bindprops"
                                [] OTHER -> "write")
  /\ UNCHANGED <<messages, wires, semaphore, at, myOut, flags, replies, reading, ending,
                 info, clientActive, dropped, late>>

AbandonBindProps ==
  /\ CloserGoes("bindprops", IF released[info] THEN "write" ELSE "free")
  /\ UNCHANGED <<messages, wires, semaphore, at, myOut, flags, replies, reading, ending,
                 info, clientActive, dropped, late>>

\* The semaphore of a bind; an exception here leaves Dispose.
AbandonFree ==
  /\ closer = "free"
  /\ IF ~released[info] /\ semaphore.owner = info
     THEN closer' = "write" /\ semaphore' = Freed
     ELSE closer' = "threw" /\ UNCHANGED semaphore
  /\ UNCHANGED <<messages, wires, at, myOut, flags, replies, reading, ending, info,
                 clientActive, dropped, late>>

\* MUTANT: the abandon request is written with the semaphore kept.
WriteAbandonKeeping ==
  /\ closer = "write"
  /\ semaphore.owner = None
  /\ semaphore' = [owner |-> info, count |-> 1]
  /\ closer' = "unlist"
  /\ UNCHANGED <<messages, wires, at, myOut, flags, replies, reading, ending, info,
                 clientActive, dropped, late>>

\* An abandon request, for which the semaphore is acquired and freed ...
WriteAbandon ==
  /\ closer = "write"
  /\ IF released[info] THEN closer' = "threw"
     ELSE semaphore.owner = None /\ closer' = "unlist"
  /\ UNCHANGED <<messages, wires, semaphore, at, myOut, flags, replies, reading, ending,
                 info, clientActive, dropped, late>>

Unlist ==
  /\ CloserGoes("unlist", IF released[info] THEN "threw" ELSE "tell")
  /\ messages' = IF released[info] THEN messages ELSE RemoveFirst(messages, info)
  /\ UNCHANGED <<wires, semaphore, at, myOut, flags, replies, reading, ending, info,
                 clientActive, dropped, late>>

\* ... and the exception, for which the connection is asked for its referral.
Tell ==
  /\ CloserGoes("tell", IF released[info] THEN "threw" ELSE "take")
  /\ replies' = IF released[info] THEN replies ELSE [replies EXCEPT ![info] = @ + 1]
  /\ UNCHANGED <<messages, wires, semaphore, at, myOut, flags, reading, ending, info,
                 clientActive, dropped, late>>

\* The semaphore is acquired; if there was a bind, an unbind is sent ...
CloseAcquire ==
  /\ closer = "close"
  /\ semaphore.owner = None
  /\ semaphore' = [owner |-> Closer, count |-> 1]
  /\ closer' = IF bound /\ streams THEN "canWrite" ELSE "stop"
  /\ UNCHANGED <<messages, wires, at, myOut, flags, replies, reading, ending, info,
                 clientActive, dropped, late>>

\* ... for which the stream is read again, which a reader that fails clears, ...
CanWrite ==
  /\ CloserGoes("canWrite", IF streams THEN "unbind" ELSE "threw")
  /\ UNCHANGED <<messages, wires, semaphore, at, myOut, flags, replies, reading, ending,
                 info, clientActive, dropped, late>>

\* ... and disposed of, which closes the socket.
Unbind ==
  /\ CloserGoes("unbind", "stop")
  /\ socketOpen' = (socketOpen /\ ~streams)
  /\ UNCHANGED <<messages, streams, peerUp, semaphore, at, myOut, flags, replies, reading,
                 ending, info, clientActive, dropped, late>>

\* A thread of the application waits for the reader, which may be waiting for the
\* server.
StopReader ==
  /\ closer = "stop"
  /\ bound' = FALSE
  /\ closer' = IF ending = "disconnect" /\ reader # "ended" THEN "join" ELSE "release"
  /\ UNCHANGED <<messages, wires, semaphore, at, myOut, flags, replies, reader, answered,
                 ending, info, clientActive, dropped, late>>

Join ==
  /\ CloserGoes("join", "release")
  /\ reader = "ended"
  /\ UNCHANGED <<messages, wires, semaphore, at, myOut, flags, replies, reading, ending,
                 info, clientActive, dropped, late>>

\* The socket is closed and the streams are forgotten: no reader is left that could
\* clear them between a test and the use of what was tested.
Close ==
  /\ CloserGoes("release", "end")
  /\ socketOpen' = FALSE /\ streams' = FALSE
  /\ semaphore' = Freed
  /\ UNCHANGED <<messages, peerUp, at, myOut, flags, replies, reading, ending, info,
                 clientActive, dropped, late>>

-----------------------------------------------------------------------------
Send(r) == Begin(r) \/ Add(r) \/ Test(r) \/ Stream(r) \/ Acquire(r) \/ Write(r)

GetResponse(r) == Enter(r) \/ Return(r) \/ Check(r)

GivesUp(r) ==
  GiveUp(r) \/ Ignore(r) \/ Incomplete(r) \/ Free(r) \/ Abandon(r) \/ Cleanup(r)

PutReply ==
  AddReply \/ Stop \/ Complete \/ BindProps \/ FreeAnswered

AbandonInfo ==
  \/ AbandonTest \/ AbandonAccept \/ AbandonIgnore \/ AbandonIncomplete
  \/ AbandonBindProps \/ AbandonFree \/ WriteAbandon \/ Unlist \/ Tell

Closes ==
  CloseAcquire \/ CanWrite \/ Unbind \/ StopReader \/ Join \/ Close

Dispose == Deactivate \/ Take \/ RemoveHead \/ AbandonInfo \/ Closes

Next ==
  \/ \E r \in Requests : Send(r) \/ GetResponse(r) \/ GivesUp(r) \/ Receive(r)
  \/ PutReply \/ ReadFails
  \/ Lose \/ Notice \/ Disconnect
  \/ Dispose

Spec == Init /\ [][Next]_vars

\* Threads that can run are scheduled; as a request is written once, nobody keeps
\* the closer from the semaphore by taking it again and again.  Nothing is assumed
\* of the server, of the application or of the network.
FairSpec ==
  /\ Spec
  /\ WF_vars(Dispose) /\ WF_vars(PutReply \/ ReadFails)
  /\ \A r \in Requests : WF_vars(Write(r)) /\ WF_vars(GivesUp(r))

-----------------------------------------------------------------------------
Places == {"new", "add", "test", "stream", "acquire", "write", "sent", "enter",
           "asleep", "popped", "giveUp", "ignore", "incomplete", "free", "abandon",
           "cleanup", "done", "threw", "connect"}

CloserPlaces == Emptied \cup
  {"idle", "active", "take", "remove", "abandon", "accept", "ignore", "incomplete",
   "bindprops", "free", "write", "unlist", "tell", "threw"}

TypeOK ==
  /\ messages \in Seq(Requests)
  /\ {streams, socketOpen, peerUp, clientActive, bound} \subseteq BOOLEAN
  /\ semaphore \in [owner : Requests \cup {None, Closer}, count : Nat]
  /\ at \in [Requests -> Places]
  /\ {myOut, acceptReplies, waitForReply, complete, released} \subseteq [Requests -> BOOLEAN]
  /\ replies \in [Requests -> Nat]
  /\ reader \in {"read", "add", "stop", "complete", "bindprops", "free", "ended"}
  /\ answered \in Requests \cup {None}
  /\ reader \notin {"read", "ended"} => answered # None
  /\ ending \in Endings \cup {"lost", None}
  /\ closer \in CloserPlaces
  /\ info \in Requests \cup {None}
  /\ closer \notin Emptied \cup {"idle", "active", "take", "threw"} => info # None
  /\ {late, dropped} \subseteq SUBSET Requests

\* How often a request holds the semaphore while it is written, and beyond that.
Writing(r) == IF at[r] = "write" THEN 1 ELSE 0
Held(r) == (IF semaphore.owner = r THEN semaphore.count ELSE 0) - Writing(r)

Open(r) == at[r] # "new" /\ waitForReply[r] /\ ~complete[r]

\* Somebody is on the way to free the semaphore of a bind: its own thread or the
\* closer, which have found it open, or the reader, which has brought the answer.
OnTheWay(r) ==
  \/ ~complete[r] /\ (at[r] = "incomplete" \/ (info = r /\ closer = "incomplete"))
  \/ at[r] = "free"
  \/ info = r /\ closer \in {"bindprops", "free"}
  \/ answered = r /\ reader \in {"bindprops", "free"}

\* As long as a bind is open it owns the semaphore once, and once more while it is
\* written.  Whoever ends it, the reader, its thread or Dispose, then frees the
\* semaphore; nobody frees it for another; and who frees it a second time gets the
\* exception.  One bind keeps it: the answer that is read before the reader has
\* looked at the properties of the bind, which its thread then has released.
SemaphoreAccounted ==
  /\ semaphore.owner = None <=> semaphore.count = 0
  /\ \A r \in Requests : at[r] = "write" => semaphore.owner = r
  /\ \A r \in Binds : Open(r) => Held(r) = 1
  /\ \A r \in Requests :
       Held(r) # 0 => r \in Binds /\ Held(r) = 1 /\ (Open(r) \/ OnTheWay(r) \/ released[r])

Inv == TypeOK /\ SemaphoreAccounted

\* When a connection was lost, no thread sleeps on a request that nobody will
\* answer, because a request joins the list before it tests the streams and the
\* reader forgets the streams before it empties the list.  When it is closed
\* otherwise, a request that joined the emptied list is forgotten; and always one
\* that Dispose removed in the place of a request that just left the list itself.
NoSleeperForgotten ==
  closer = "end" =>
    \A r \in Requests : at[r] = "asleep" /\ replies[r] = 0 =>
      r \in dropped \/ (r \in late /\ ending # "lost")

\* Dispose ends, unless a bind owns the semaphore for ever, for which an abandon
\* request and the end of Dispose wait, or the reader it waits for hears from the
\* server neither an answer nor the end.
BindOwns == semaphore.owner \in Binds
Listens == closer = "join" /\ reader = "read" /\ socketOpen /\ peerUp

Disposing == closer \notin {"idle", "end", "threw"}

DisposeEnds == []<>~Disposing \/ <>[]BindOwns \/ <>[]Listens

\* Do not hold: EveryoneIsTold when the connection ends by a notice or by
\* disconnecting, TakenIsTold when it is lost, DisposeReturns with a bind behind
\* another request in the list, NothingLeaks when a bind is answered.
EveryoneIsTold ==
  closer = "end" => \A r \in Requests : at[r] = "asleep" => replies[r] > 0

TakenIsTold == dropped = {}

DisposeReturns == closer # "idle" ~> closer = "end"

NothingLeaks == \A r \in Requests : released[r] => Held(r) = 0
=============================================================================
