---------------------------- MODULE ReaderThread ----------------------------
(***************************************************************************)
(* The life of a connection and of its reader threads in                   *)
(* Novell.Directory.Ldap/Connection.cs: connect, destroyClone with         *)
(* Dispose, startReader and waitForReader, ReaderThread.Run, and           *)
(* LdapConnection.StartTls, which stops one reader and starts another.     *)
(*                                                                         *)
(* One application thread, number 0, calls the operations; every call of   *)
(* startReader makes one more reader, 1, 2, ...  A socket is up until the  *)
(* peer is lost or this side closes it.  A TLS stream leaves the socket    *)
(* that it wraps open when it is disposed of.  An exception that leaves    *)
(* the finally block of a reader ends the process.  Of the requests on the *)
(* connection only that of StartTls is modelled; the others are the        *)
(* business of LdapMessage and ConnectionLoss.                             *)
(***************************************************************************)
EXTENDS Integers, FiniteSets

CONSTANTS
  Ops,         \* the operations the application calls
  TlsOutcomes, \* what may become of StartTls: "ok", "refused", "busy",
               \* and of the handshake: "rejected"
  MayLose,     \* the peer may go away
  Bound,       \* the application binds, not anonymously, once connected
  MaxReaders,  \* bound: reader threads started
  MaxSockets   \* bound: sockets opened

ASSUME ConstantsAssumption ==
  /\ Ops \subseteq {"connect", "disconnect", "startTls"}
  /\ TlsOutcomes \subseteq {"ok", "refused", "busy", "rejected"}
  /\ {MayLose, Bound} \subseteq BOOLEAN
  /\ {MaxReaders, MaxSockets} \subseteq Nat \ {0}

Readers == 1..MaxReaders
Sockets == 1..MaxSockets
None == 0
App == 0
Free == -1
Threads == Readers \cup {App}

VARIABLES
  in_Renamed,    \* the stream in use, named by its socket, or None
  socket,        \* the field of that name, or None
  sockets,       \* of each socket: "new", "up" or with "tls" around it, "lost",
                 \* "closed"; "unbound" is one whose TLS stream is disposed of
  reader, deadReader, readerThreadEnclosure,   \* readers, or None
  stopOnTls,     \* stopReaderMessageID is the id of the StartTls request
  clientActive,
  bound,         \* bindProperties is set, and not anonymous
  tls,           \* the StartTls request: "no", "sent", "ok", "refused", "lost"
  semOwner,      \* who holds the write semaphore: App, a reader or Free
  started,       \* reader threads started
  pc,            \* of the application thread (0) and of the readers
  myIn,          \* of each reader, the stream it reads
  notify,        \* of each reader, whether it has an exception to report
  op,            \* the operation the application is in or was in last
  outcome,       \* of that operation: "none" yet, "ok", "threw"
  disposeThrew   \* history: a Dispose of the application was left by an exception

vars == <<in_Renamed, socket, sockets, reader, deadReader, stopOnTls,
          readerThreadEnclosure, clientActive, bound, tls, semOwner, started,
          pc, myIn, notify, op, outcome, disposeThrew>>

streams == <<in_Renamed, socket, sockets>>
identity == <<reader, deadReader, readerThreadEnclosure>>
locals == <<myIn, notify, op, outcome, disposeThrew>>

Init ==
  /\ in_Renamed = None /\ socket = None
  /\ sockets = [s \in Sockets |-> "new"]
  /\ reader = None /\ deadReader = None /\ readerThreadEnclosure = None
  /\ stopOnTls = FALSE
  /\ clientActive = TRUE
  /\ bound = FALSE
  /\ tls = "no"
  /\ semOwner = Free
  /\ started = 0
  /\ pc = [t \in Threads |-> IF t = App THEN "idle" ELSE "unborn"]
  /\ myIn = [r \in Readers |-> None]
  /\ notify = [r \in Readers |-> FALSE]
  /\ op = "none" /\ outcome = "none"
  /\ disposeThrew = FALSE

At(t, s) == pc[t] = s
Goto(t, s) == pc' = [pc EXCEPT ![t] = s]

Connected == in_Renamed # None

Alive(s) == sockets[s] \in {"up", "tls", "unbound"}

-----------------------------------------------------------------------------
(* ReaderThread.Run.                                                        *)

ReaderRuns(r) ==
  /\ At(r, "born")
  /\ readerThreadEnclosure' = r
  /\ reader' = r
  /\ Goto(r, "loop")
  /\ UNCHANGED <<streams, deadReader, stopOnTls, clientActive, bound, tls,
                 semOwner, started, locals>>

ReaderLoops(r) ==
  /\ At(r, "loop")
  /\ myIn' = [myIn EXCEPT ![r] = in_Renamed]
  /\ Goto(r, IF in_Renamed = None THEN "finally" ELSE "read")
  /\ UNCHANGED <<streams, identity, stopOnTls, clientActive, bound, tls,
                 semOwner, started, notify, op, outcome, disposeThrew>>

\* The answer to StartTls is queued, which lets the application go on, before
\* the reader asks itself whether to stop.
ReadTlsAnswer(r) ==
  /\ At(r, "read")
  /\ Alive(myIn[r])
  /\ tls = "sent"
  /\ \E answer \in TlsOutcomes \cap {"ok", "refused"} : tls' = answer
  /\ Goto(r, "stopTest")
  /\ UNCHANGED <<streams, identity, stopOnTls, clientActive, bound, semOwner,
                 started, locals>>

StopTest(r) ==
  /\ At(r, "stopTest")
  /\ Goto(r, IF stopOnTls THEN "finally" ELSE "loop")
  /\ UNCHANGED <<streams, identity, stopOnTls, clientActive, bound, tls,
                 semOwner, started, locals>>

\* The read throws: the catch clause decides whether to report a lost
\* connection and forgets the streams, whichever they are by now.
ReadFails(r) ==
  /\ At(r, "read")
  /\ ~Alive(myIn[r])
  /\ notify' = [notify EXCEPT ![r] = clientActive]
  /\ in_Renamed' = None
  /\ Goto(r, "finally")
  /\ UNCHANGED <<socket, sockets, identity, stopOnTls, clientActive, bound,
                 tls, semOwner, started, myIn, op, outcome, disposeThrew>>

\* A notice of disconnection (message id 0) is a return with an exception to
\* report.
ReadShutdownNotice(r) ==
  /\ At(r, "read")
  /\ MayLose /\ Alive(myIn[r])
  /\ notify' = [notify EXCEPT ![r] = TRUE]
  /\ Goto(r, "finally")
  /\ UNCHANGED <<streams, identity, stopOnTls, clientActive, bound, tls,
                 semOwner, started, myIn, op, outcome, disposeThrew>>

Finally(r) ==
  /\ At(r, "finally")
  /\ IF ~clientActive \/ notify[r]
     THEN Goto(r, "dispose") /\ UNCHANGED stopOnTls
     ELSE Goto(r, "trace") /\ stopOnTls' = FALSE
  /\ UNCHANGED <<streams, identity, clientActive, bound, tls, semOwner,
                 started, locals>>

\* Dispose, by a reader or by the application: clientActive is tested, and
\* cleared in a step of its own.
TestActive(t, done) ==
  /\ At(t, "dispose")
  /\ Goto(t, IF clientActive THEN "claim" ELSE done)
  /\ UNCHANGED <<streams, identity, stopOnTls, clientActive, bound, tls,
                 semOwner, started, locals>>

Claim(t, next) ==
  /\ At(t, "claim")
  /\ clientActive' = FALSE
  /\ Goto(t, next)
  /\ UNCHANGED <<streams, identity, stopOnTls, bound, tls, semOwner, started,
                 locals>>

\* A reader then abandons the outstanding request, for which an abandon request is
\* written, for which the semaphore is acquired, before its caller is told ...
ReaderDrains(r) ==
  /\ At(r, "drain")
  /\ tls = "sent" => semOwner = Free
  /\ tls' = IF tls = "sent" THEN "lost" ELSE tls
  /\ Goto(r, "close")
  /\ UNCHANGED <<streams, identity, stopOnTls, clientActive, bound, semOwner,
                 started, locals>>

\* and takes the semaphore to close the socket.
AcquiresToClose(t) ==
  /\ At(t, "close")
  /\ semOwner = Free
  /\ semOwner' = t
  /\ Goto(t, IF bound /\ Connected THEN "canWrite" ELSE "stop")
  /\ UNCHANGED <<streams, identity, stopOnTls, clientActive, bound, tls, started,
                 locals>>

\* If there was a bind, an unbind is sent and its stream is disposed of: the
\* stream is read again for CanWrite ...
CanWrite(t) ==
  /\ At(t, "canWrite")
  /\ Connected
  /\ Goto(t, "unbind")
  /\ UNCHANGED <<streams, identity, stopOnTls, clientActive, bound, tls, semOwner,
                 started, locals>>

\* ... and for the rest, whose exceptions are caught.  Disposing of the socket's
\* own stream closes the socket.
Unbinds(t) ==
  /\ At(t, "unbind")
  /\ sockets' = [s \in Sockets |->
                   CASE s = in_Renamed /\ sockets[s] = "up" -> "closed"
                     [] s = in_Renamed /\ sockets[s] = "tls" -> "unbound"
                     [] OTHER -> sockets[s]]
  /\ Goto(t, "stop")
  /\ UNCHANGED <<in_Renamed, socket, identity, stopOnTls, clientActive, bound, tls,
                 semOwner, started, locals>>

\* The application, but no reader, then stops the reader there is.
Stops(t) ==
  /\ At(t, "stop")
  /\ bound' = FALSE
  /\ Goto(t, IF t = App /\ socket # None /\ reader # None THEN "join" ELSE "release")
  /\ UNCHANGED <<streams, identity, stopOnTls, clientActive, tls, semOwner, started,
                 locals>>

\* To dispose of the stream the field is read twice as well.
FindsStream(t) ==
  /\ At(t, "release")
  /\ socket # None /\ Connected
  /\ Goto(t, "closeIn")
  /\ UNCHANGED <<streams, identity, stopOnTls, clientActive, bound, tls, semOwner,
                 started, locals>>

\* What Closes does before it frees the semaphore.
ClosesSocket(t, next) ==
  /\ \/ At(t, "release") /\ (socket = None \/ ~Connected)
     \/ At(t, "closeIn") /\ Connected
  /\ sockets' = [s \in Sockets |-> IF s = socket THEN "closed" ELSE sockets[s]]
  /\ in_Renamed' = IF socket = None THEN in_Renamed ELSE None
  /\ socket' = None
  /\ Goto(t, next)

\* MUTANT: the semaphore is kept.
ClosesKeeping(t, next) ==
  /\ ClosesSocket(t, next)
  /\ UNCHANGED <<identity, stopOnTls, clientActive, bound, tls, semOwner, started,
                 locals>>

Closes(t, next) ==
  /\ ClosesSocket(t, next)
  /\ semOwner' = Free
  /\ UNCHANGED <<identity, stopOnTls, clientActive, bound, tls, started, locals>>

\* A reader that fails has cleared the field between the two reads: Dispose is
\* left without freeing the semaphore, to the caller of the application or out
\* of the finally block of a reader.
StreamIsGone(t) ==
  /\ pc[t] \in {"canWrite", "closeIn"}
  /\ ~Connected
  /\ IF t = App
     THEN /\ outcome' = "threw"
          /\ disposeThrew' = TRUE
          /\ Goto(App, "return")
     ELSE /\ pc' = [u \in Threads |-> "crashed"]
          /\ UNCHANGED <<outcome, disposeThrew>>
  /\ UNCHANGED <<streams, identity, stopOnTls, clientActive, bound, tls, semOwner,
                 started, myIn, notify, op>>

\* The last two statements of Run read and clear a field that may by now name
\* another reader.
ReaderLeavesTrace(r) ==
  /\ At(r, "trace")
  /\ deadReader' = reader
  /\ Goto(r, "forget")
  /\ UNCHANGED <<streams, reader, readerThreadEnclosure, stopOnTls,
                 clientActive, bound, tls, semOwner, started, locals>>

ReaderEnds(r) ==
  /\ At(r, "forget")
  /\ reader' = None
  /\ Goto(r, "dead")
  /\ UNCHANGED <<streams, deadReader, readerThreadEnclosure, stopOnTls,
                 clientActive, bound, tls, semOwner, started, locals>>

-----------------------------------------------------------------------------
(* The application thread.  connect and disconnect begin with destroyClone, *)
(* which disposes of the connection there is.                               *)

Opened == Cardinality({s \in Sockets : sockets[s] # "new"})

\* MUTANT: connect does not dispose of the connection there is.
BeginAnew(o) ==
  /\ At(App, "idle")
  /\ o # "disconnect" => started < MaxReaders
  /\ o = "connect" => Opened < MaxSockets
  /\ op' = o
  /\ outcome' = "none"
  /\ Goto(App, CASE o = "startTls" -> "tlsAcquire"
                 [] o = "disconnect" /\ Connected -> "dispose"
                 [] o = "connect" -> "waitNull"
                 [] OTHER -> "return")
  /\ UNCHANGED <<streams, identity, stopOnTls, clientActive, bound, tls,
                 semOwner, started, myIn, notify, disposeThrew>>

Begin(o) ==
  /\ At(App, "idle")
  /\ o # "disconnect" => started < MaxReaders
  /\ o = "connect" => Opened < MaxSockets
  /\ op' = o
  /\ outcome' = "none"
  /\ Goto(App, CASE o = "startTls" -> "tlsAcquire"
                 [] o # "startTls" /\ Connected -> "dispose"
                 [] o = "connect" /\ ~Connected -> "waitNull"
                 [] OTHER -> "return")
  /\ UNCHANGED <<streams, identity, stopOnTls, clientActive, bound, tls,
                 semOwner, started, myIn, notify, disposeThrew>>

AfterDispose == IF op = "connect" THEN "waitNull" ELSE "return"

\* MUTANT: Stop raises a flag and does not wait.
JoinsNot ==
  /\ At(App, "join")
  /\ Goto(App, "release")
  /\ UNCHANGED <<streams, identity, stopOnTls, clientActive, bound, tls,
                 semOwner, started, locals>>

\* readerThreadEnclosure.Stop() is Thread.Join.
Joins ==
  /\ At(App, "join")
  /\ At(readerThreadEnclosure, "dead")
  /\ Goto(App, "release")
  /\ UNCHANGED <<streams, identity, stopOnTls, clientActive, bound, tls,
                 semOwner, started, locals>>

\* waitForReader(null): returns when no reader runs, or when no reader ever
\* left a trace, for deadReader is then null as well.
WaitForReaderNull(from, next) ==
  /\ At(App, from)
  /\ reader = None \/ deadReader = None
  /\ deadReader' = None
  /\ Goto(App, next)
  /\ UNCHANGED <<streams, reader, readerThreadEnclosure, stopOnTls,
                 clientActive, bound, tls, semOwner, started, locals>>

\* connect: the semaphore, then a socket unless there is one ...
Opens ==
  /\ At(App, "open")
  /\ semOwner = Free
  /\ semOwner' = App
  /\ IF Connected THEN UNCHANGED streams
     ELSE LET s == Opened + 1
          IN  /\ socket' = s
              /\ in_Renamed' = s
              /\ sockets' = [sockets EXCEPT ![s] = "up"]
  /\ Goto(App, "start")
  /\ UNCHANGED <<identity, stopOnTls, clientActive, bound, tls, started, locals>>

\* ... or an exception: the semaphore is freed in the finally block.
OpenFails ==
  /\ At(App, "open")
  /\ semOwner = Free
  /\ MayLose /\ ~Connected
  /\ socket' = None
  /\ outcome' = "threw"
  /\ Goto(App, "return")
  /\ UNCHANGED <<in_Renamed, sockets, identity, stopOnTls, clientActive, bound,
                 tls, semOwner, started, myIn, notify, op, disposeThrew>>

\* startReader.
Starts ==
  /\ At(App, "start")
  /\ started' = started + 1
  /\ pc' = [pc EXCEPT ![App] = "waitStart", ![started + 1] = "born"]
  /\ UNCHANGED <<streams, identity, stopOnTls, clientActive, bound, tls,
                 semOwner, locals>>

\* waitForReader(r): the field names the new reader ...
ReaderIsThere ==
  /\ At(App, "waitStart")
  /\ reader = started
  /\ deadReader' = None
  /\ Goto(App, "activate")
  /\ UNCHANGED <<streams, reader, readerThreadEnclosure, stopOnTls,
                 clientActive, bound, tls, semOwner, started, locals>>

\* MUTANT: connect frees the semaphore in no finally block.
DeadReaderKeepsSemaphore ==
  /\ At(App, "waitStart")
  /\ reader # started
  /\ deadReader = started
  /\ deadReader' = None
  /\ outcome' = "threw"
  /\ Goto(App, "return")
  /\ UNCHANGED <<streams, reader, readerThreadEnclosure, stopOnTls, semOwner,
                 clientActive, bound, tls, started, myIn, notify, op, disposeThrew>>

\* ... or the trace does, and an exception is thrown: connect frees the
\* semaphore in its finally block, StartTls throws out of its own.
ReaderIsDead ==
  /\ At(App, "waitStart")
  /\ reader # started
  /\ deadReader = started
  /\ deadReader' = None
  /\ semOwner' = IF op = "connect" THEN Free ELSE semOwner
  /\ outcome' = "threw"
  /\ Goto(App, "return")
  /\ UNCHANGED <<streams, reader, readerThreadEnclosure, stopOnTls,
                 clientActive, bound, tls, started, myIn, notify, op, disposeThrew>>

\* The end of connect, and of StartTls; the application then binds.
Activates ==
  /\ At(App, "activate")
  /\ clientActive' = (clientActive \/ op = "connect")
  /\ bound' = (bound \/ (Bound /\ op = "connect"))
  /\ semOwner' = Free
  /\ outcome' = IF outcome = "none" THEN "ok" ELSE outcome
  /\ Goto(App, "return")
  /\ UNCHANGED <<streams, identity, stopOnTls, tls, started, myIn, notify, op, disposeThrew>>

Return ==
  /\ At(App, "return")
  /\ outcome' = IF outcome = "none" THEN "ok" ELSE outcome
  /\ Goto(App, "idle")
  /\ UNCHANGED <<streams, identity, stopOnTls, clientActive, bound, tls,
                 semOwner, started, myIn, notify, op, disposeThrew>>

-----------------------------------------------------------------------------
(* LdapConnection.StartTls; its finally block starts a reader always.       *)

TlsThrows == outcome' = "threw" /\ Goto(App, "start")

\* The semaphore; then outstanding operations or a lost connection make it
\* throw, or the request is sent with its id as the one to stop at.
SendTls ==
  /\ At(App, "tlsAcquire")
  /\ semOwner = Free
  /\ semOwner' = App
  /\ \/ /\ "busy" \in TlsOutcomes
        /\ TlsThrows
        /\ UNCHANGED <<stopOnTls, tls>>
     \/ /\ ~Connected
        /\ stopOnTls' = TRUE
        /\ TlsThrows
        /\ UNCHANGED tls
     \/ /\ Connected
        /\ stopOnTls' = TRUE
        /\ tls' = "sent"
        /\ Goto(App, "tlsAnswer")
        /\ UNCHANGED outcome
  /\ UNCHANGED <<streams, identity, clientActive, bound, started, myIn, notify, op, disposeThrew>>

TlsAnswered ==
  /\ At(App, "tlsAnswer")
  /\ tls # "sent"
  /\ tls' = "no"
  /\ IF tls = "ok" THEN Goto(App, "tlsWaitNull") /\ UNCHANGED outcome ELSE TlsThrows
  /\ UNCHANGED <<streams, identity, stopOnTls, clientActive, bound, semOwner,
                 started, myIn, notify, op, disposeThrew>>

\* MUTANT: no reader is started once TLS is.
HandshakeOnly ==
  /\ At(App, "handshake")
  /\ \/ /\ socket # None /\ sockets[socket] = "up"
        /\ in_Renamed' = socket
        /\ sockets' = [sockets EXCEPT ![socket] = "tls"]
        /\ Goto(App, "activate")
        /\ UNCHANGED outcome
     \/ /\ socket # None /\ sockets[socket] = "up" => "rejected" \in TlsOutcomes
        /\ TlsThrows
        /\ UNCHANGED <<in_Renamed, sockets>>
  /\ UNCHANGED <<socket, identity, stopOnTls, clientActive, bound, tls, semOwner,
                 started, myIn, notify, op, disposeThrew>>

\* The handshake over the socket; the stream that results replaces the socket's.
\* It fails where the peer is gone, where TLS is on already, and where either
\* side rejects the other.
Handshake ==
  /\ At(App, "handshake")
  /\ \/ /\ socket # None /\ sockets[socket] = "up"
        /\ in_Renamed' = socket
        /\ sockets' = [sockets EXCEPT ![socket] = "tls"]
        /\ Goto(App, "start")
        /\ UNCHANGED outcome
     \/ /\ socket # None /\ sockets[socket] = "up" => "rejected" \in TlsOutcomes
        /\ TlsThrows
        /\ UNCHANGED <<in_Renamed, sockets>>
  /\ UNCHANGED <<socket, identity, stopOnTls, clientActive, bound, tls, semOwner,
                 started, myIn, notify, op, disposeThrew>>

-----------------------------------------------------------------------------
\* After an unbind the server closes the connection.
Lose(s) ==
  /\ MayLose \/ sockets[s] = "unbound"
  /\ Alive(s)
  /\ sockets' = [sockets EXCEPT ![s] = "lost"]
  /\ UNCHANGED <<in_Renamed, socket, identity, stopOnTls, clientActive, bound,
                 tls, semOwner, started, pc, locals>>

\* Dispose with the semaphore.
CloseStep(t, next) ==
  \/ AcquiresToClose(t) \/ CanWrite(t) \/ Unbinds(t) \/ Stops(t)
  \/ FindsStream(t) \/ Closes(t, next) \/ StreamIsGone(t)

\* What a reader does without waiting for the server.
ReaderStep(r) ==
  \/ ReaderRuns(r) \/ ReaderLoops(r) \/ StopTest(r) \/ ReadFails(r) \/ Finally(r)
  \/ TestActive(r, "trace") \/ Claim(r, "drain")
  \/ ReaderDrains(r) \/ CloseStep(r, "trace")
  \/ ReaderLeavesTrace(r) \/ ReaderEnds(r)

AppStep ==
  \/ TestActive(App, AfterDispose) \/ Claim(App, "close")
  \/ CloseStep(App, AfterDispose) \/ Joins
  \/ WaitForReaderNull("waitNull", "open") \/ Opens \/ OpenFails
  \/ Starts \/ ReaderIsThere \/ ReaderIsDead \/ Activates \/ Return
  \/ SendTls \/ TlsAnswered \/ WaitForReaderNull("tlsWaitNull", "handshake")
  \/ Handshake

ServerStep ==
  \/ \E r \in Readers : ReadTlsAnswer(r) \/ ReadShutdownNotice(r)
  \/ \E s \in Sockets : Lose(s)

Next ==
  \/ \E o \in Ops : Begin(o)
  \/ AppStep
  \/ \E r \in Readers : ReaderStep(r)
  \/ ServerStep

Spec == Init /\ [][Next]_vars

\* Threads are scheduled; the server answers, or the connection to it is lost,
\* as far as a request is outstanding.
FairSpec ==
  /\ Spec
  /\ WF_vars(AppStep)
  /\ \A r \in Readers : WF_vars(ReaderStep(r)) /\ WF_vars(ReadTlsAnswer(r))

-----------------------------------------------------------------------------
\* Where Dispose holds the semaphore, but for the wait for the reader.
Closing == {"canWrite", "unbind", "stop", "release", "closeIn"}

TypeOK ==
  /\ {in_Renamed, socket} \subseteq Sockets \cup {None}
  /\ sockets \in [Sockets -> {"new", "up", "tls", "unbound", "lost", "closed"}]
  /\ {reader, deadReader, readerThreadEnclosure} \subseteq Readers \cup {None}
  /\ {stopOnTls, clientActive, bound, disposeThrew} \subseteq BOOLEAN
  /\ tls \in {"no", "sent", "ok", "refused", "lost"}
  /\ semOwner \in Threads \cup {Free}
  /\ started \in 0..MaxReaders
  /\ pc[App] \in Closing \cup {"idle", "dispose", "claim", "close", "join", "waitNull",
       "open", "start", "waitStart", "activate", "return", "tlsAcquire", "tlsAnswer",
       "tlsWaitNull", "handshake", "crashed"}
  /\ \A r \in Readers : pc[r] \in Closing \cup {"unborn", "born", "loop", "read",
       "stopTest", "finally", "dispose", "claim", "drain", "close", "trace", "forget",
       "dead", "crashed"}
  /\ myIn \in [Readers -> Sockets \cup {None}]
  /\ notify \in [Readers -> BOOLEAN]
  /\ op \in Ops \cup {"none"}
  /\ outcome \in {"none", "ok", "threw"}

\* startReader "assumes the reader thread is not running": two readers of one
\* stream would each get half of a message.
OneReaderPerSocket ==
  \A r1, r2 \in Readers :
    At(r1, "read") /\ At(r2, "read") /\ myIn[r1] = myIn[r2] => r1 = r2

\* A connection that reports to be connected has a reader, or somebody who is
\* about to notice that it has none.
ConnectedIsRead ==
  At(App, "idle") /\ Connected /\ clientActive =>
    \E r \in Readers : pc[r] \notin {"unborn", "trace", "forget", "dead"}

\* A reader that ends closes the socket it read, never one opened since.
ClosesOwnSocket ==
  [][\A r \in Readers, s \in Sockets :
       semOwner = r /\ semOwner' = Free /\ sockets[s] # sockets'[s] => myIn[r] = s]_vars

\* waitForReader(null) returns when "reader stopped".
OldReaderStopped ==
  At(App, "open") \/ At(App, "handshake") =>
    \A r \in Readers : pc[r] \in {"unborn", "dead"}

\* A reader holds the semaphore inside Dispose only.  The application holds none
\* when no operation is under way, but for one exception: a reader that failed took
\* the stream from under its Dispose, whose exception then left the semaphore taken
\* and the socket open.
SemaphoreReturned ==
  /\ semOwner \in Readers => pc[semOwner] \in Closing \cup {"crashed"}
  /\ At(App, "idle") /\ semOwner = App =>
       disposeThrew /\ ~Connected /\ socket # None /\ ~clientActive

Inv == TypeOK /\ SemaphoreReturned

\* The exception does not happen.
DisposeCompletes == ~disposeThrew /\ ~At(App, "crashed")

\* Every operation returns to the application ...
OpReturns == pc[App] # "idle" ~> pc[App] = "idle"

\* ... where it might wait for ever: for a new reader to show up, for the old
\* one to end, for the answer to StartTls.
StartReaderReturns == At(App, "waitStart") ~> ~At(App, "waitStart")
JoinReturns == At(App, "join") ~> ~At(App, "join")
TlsAnswerReturns == At(App, "tlsAnswer") ~> ~At(App, "tlsAnswer")
=============================================================================
