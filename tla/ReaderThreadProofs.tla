------------------------- MODULE ReaderThreadProofs -------------------------
(***************************************************************************)
(* Proofs about ReaderThread.  The types hold whatever the application     *)
(* calls.  That the write semaphore is returned, but by the one Dispose    *)
(* that a failing reader makes throw, is proved of applications that do    *)
(* not call StartTls, whose finally block throws without freeing it        *)
(* (LdapConnection.StartTls).  As long as the peer does not go away, a     *)
(* connection has a reader; without StartTls too, it has one at a time.    *)
(* A loss breaks either.                                                   *)
(***************************************************************************)
EXTENDS ReaderThread, FiniteSetTheorems, TLAPS

AppPlaces == Closing \cup
  {"idle", "dispose", "claim", "close", "join", "waitNull", "open", "start", "waitStart",
   "activate", "return", "tlsAcquire", "tlsAnswer", "tlsWaitNull", "handshake", "crashed"}
ReaderPlaces == Closing \cup
  {"unborn", "born", "loop", "read", "stopTest", "finally", "dispose", "claim", "drain",
   "close", "trace", "forget", "dead", "crashed"}
Disposing == Closing \cup {"dispose", "claim", "close", "join"}
TlsPlaces == {"tlsAcquire", "tlsAnswer", "tlsWaitNull", "handshake"}

\* A socket that is named has been opened.
NamedIsOpened == \A s \in Sockets : s \in {in_Renamed, socket} => sockets[s] # "new"

\* The places of an operation, and what its guard at the beginning leaves it.
OpPlaces ==
  /\ pc[App] \in {"waitNull", "open"} => op = "connect"
  /\ pc[App] \in Disposing => op \in {"connect", "disconnect"}
  /\ pc[App] \in TlsPlaces => op = "startTls"
  /\ pc[App] \in {"start", "waitStart", "activate"} => op \in {"connect", "startTls"}
  /\ pc[App] \in Disposing \cup {"waitNull", "open"} /\ op = "connect" =>
       started < MaxReaders /\ Opened < MaxSockets
  /\ pc[App] \in TlsPlaces \cup {"start"} => started < MaxReaders
  /\ pc[App] = "waitStart" => started > 0

TypeInv ==
  /\ TypeOK
  /\ pc \in [Threads -> AppPlaces \cup ReaderPlaces]
  /\ NamedIsOpened
  /\ OpPlaces

-----------------------------------------------------------------------------
(* Without StartTls: the application holds the semaphore between acquiring  *)
(* it in connect or in Dispose and freeing it, and for ever after a Dispose *)
(* that was left by an exception; a reader holds it inside Dispose.  The    *)
(* socket stays as it is under whoever holds the semaphore.                 *)

AppHolds == pc[App] \in Closing \cup {"join", "start", "waitStart", "activate"}

Crashed == \A t \in Threads : pc[t] = "crashed"

HalfClosed == ~Connected /\ socket # None /\ ~clientActive

SemInv ==
  \/ Crashed
  \/ /\ semOwner = App <=> AppHolds \/ disposeThrew
     /\ semOwner \in Readers => pc[semOwner] \in Closing
     /\ \A r \in Readers : pc[r] \in Closing => semOwner = r
     /\ Connected => socket # None
     /\ pc[App] \in {"canWrite", "unbind", "closeIn"} => socket # None
     /\ pc[App] \in Closing \cup {"close", "join"} => ~clientActive
     /\ disposeThrew => HalfClosed /\ pc[App] \in {"idle", "return", "waitNull", "open"}

-----------------------------------------------------------------------------
(* Without StartTls, and without a loss: the last reader started is the     *)
(* only one that may be alive, and where it is follows from where the       *)
(* application is.                                                          *)

AllStopped == reader = None /\ \A r \in Readers : pc[r] \in {"unborn", "dead"}

SocketIsUp == Connected /\ socket = in_Renamed /\ sockets[in_Renamed] = "up"

LastReads ==
  /\ started > 0
  /\ pc[started] \in {"loop", "read"}
  /\ pc[started] = "read" => myIn[started] = socket
  /\ reader = started /\ readerThreadEnclosure = started
  /\ Connected /\ socket = in_Renamed

LastEnds ==
  /\ started > 0
  /\ pc[started] \in {"finally", "dispose", "trace", "forget", "dead"}
  /\ pc[started] = "dead" <=> reader = None
  /\ readerThreadEnclosure = started

OrderlyInv ==
  /\ tls = "no" /\ pc[App] # "crashed"
  /\ \A r \in Readers : (r < started => pc[r] = "dead") /\ (r > started <=> pc[r] = "unborn")
  /\ pc[App] \in {"idle", "return"} =>
       \/ LastReads /\ SocketIsUp /\ clientActive
       \/ AllStopped /\ ~Connected
  /\ pc[App] \in {"dispose", "claim"} => LastReads /\ SocketIsUp /\ clientActive
  /\ pc[App] \in {"close", "canWrite", "unbind"} => LastReads /\ SocketIsUp /\ ~clientActive
  /\ pc[App] \in {"stop", "join"} => ~clientActive /\ socket # None /\ (LastReads \/ LastEnds)
  /\ pc[App] \in {"release", "closeIn"} => AllStopped /\ socket # None
  /\ pc[App] = "closeIn" => Connected
  /\ pc[App] \in {"waitNull", "open"} => AllStopped /\ ~Connected
  /\ pc[App] \in {"open", "start", "waitStart"} => deadReader = None
  /\ pc[App] = "start" => AllStopped /\ SocketIsUp
  /\ pc[App] = "waitStart" =>
       /\ SocketIsUp
       /\ \/ started > 0 /\ pc[started] = "born" /\ reader = None
          \/ LastReads
  /\ pc[App] = "activate" => LastReads /\ SocketIsUp

-----------------------------------------------------------------------------
(* The types.                                                               *)

\* What counts the opened sockets is the set of them.
LEMMA OpenedSame ==
  ASSUME {s \in Sockets : sockets'[s] # "new"} = {s \in Sockets : sockets[s] # "new"}
  PROVE  Opened' = Opened
BY Zenon DEF Opened

LEMMA OpenedIsNat == ConstantsAssumption => Opened \in Nat
<1> SUFFICES ASSUME ConstantsAssumption PROVE Opened \in Nat
  OBVIOUS
<1>1. IsFiniteSet(Sockets)
  BY FS_Interval DEF Sockets, ConstantsAssumption
<1>2. IsFiniteSet({s \in Sockets : sockets[s] # "new"})
  BY <1>1, FS_Subset
<1> QED BY <1>2, FS_CardinalityType DEF Opened

LEMMA InitTypes == Init => TypeInv
<1> SUFFICES ASSUME Init PROVE TypeInv
  OBVIOUS
<1> USE DEF Init, App, Readers, Sockets, None, Free, Threads, Closing
<1>1. TypeOK
  <2>1. {stopOnTls, clientActive, bound, disposeThrew} \subseteq BOOLEAN
    BY Zenon
  <2>2. notify \in [Readers -> BOOLEAN]
    OBVIOUS
  <2> QED BY <2>1, <2>2, ConstantsAssumption DEF TypeOK, ConstantsAssumption
<1>2. pc \in [Threads -> AppPlaces \cup ReaderPlaces]
  BY DEF AppPlaces, ReaderPlaces
<1>3. NamedIsOpened
  BY DEF NamedIsOpened
<1>4. OpPlaces
  BY DEF OpPlaces, Disposing, TlsPlaces
<1> QED BY <1>1, <1>2, <1>3, <1>4 DEF TypeInv

LEMMA FlagsAreBoolean ==
  ASSUME TypeOK, Next
  PROVE  {stopOnTls', clientActive', bound', disposeThrew'} \subseteq BOOLEAN
<1>0. /\ stopOnTls \in BOOLEAN /\ clientActive \in BOOLEAN /\ bound \in BOOLEAN
      /\ disposeThrew \in BOOLEAN
  BY Zenon DEF TypeOK
<1>1. stopOnTls' \in {stopOnTls, TRUE, FALSE}
  BY DEF Next, AppStep, ReaderStep, ServerStep, Begin, Lose,
    Activates, AcquiresToClose, CanWrite, Claim, Closes, ClosesSocket, CloseStep, Finally,
    FindsStream, Handshake, Joins, OpenFails, Opens, ReadFails, ReadShutdownNotice,
    ReadTlsAnswer, ReaderDrains, ReaderEnds, ReaderIsDead, ReaderIsThere, ReaderLeavesTrace,
    ReaderLoops, ReaderRuns, Return, SendTls, Starts, Stops, StopTest, StreamIsGone,
    TestActive, TlsAnswered, Unbinds, WaitForReaderNull, streams, identity, locals
<1>2. clientActive' \in {clientActive, TRUE, FALSE, clientActive \/ op = "connect"}
  BY DEF Next, AppStep, ReaderStep, ServerStep, Begin, Lose,
    Activates, AcquiresToClose, CanWrite, Claim, Closes, ClosesSocket, CloseStep, Finally,
    FindsStream, Handshake, Joins, OpenFails, Opens, ReadFails, ReadShutdownNotice,
    ReadTlsAnswer, ReaderDrains, ReaderEnds, ReaderIsDead, ReaderIsThere, ReaderLeavesTrace,
    ReaderLoops, ReaderRuns, Return, SendTls, Starts, Stops, StopTest, StreamIsGone,
    TestActive, TlsAnswered, Unbinds, WaitForReaderNull, streams, identity, locals
<1>3. bound' \in {bound, TRUE, FALSE, bound \/ (Bound /\ op = "connect")}
  BY DEF Next, AppStep, ReaderStep, ServerStep, Begin, Lose,
    Activates, AcquiresToClose, CanWrite, Claim, Closes, ClosesSocket, CloseStep, Finally,
    FindsStream, Handshake, Joins, OpenFails, Opens, ReadFails, ReadShutdownNotice,
    ReadTlsAnswer, ReaderDrains, ReaderEnds, ReaderIsDead, ReaderIsThere, ReaderLeavesTrace,
    ReaderLoops, ReaderRuns, Return, SendTls, Starts, Stops, StopTest, StreamIsGone,
    TestActive, TlsAnswered, Unbinds, WaitForReaderNull, streams, identity, locals
<1>4. disposeThrew' \in {disposeThrew, TRUE}
  BY DEF Next, AppStep, ReaderStep, ServerStep, Begin, Lose,
    Activates, AcquiresToClose, CanWrite, Claim, Closes, ClosesSocket, CloseStep, Finally,
    FindsStream, Handshake, Joins, OpenFails, Opens, ReadFails, ReadShutdownNotice,
    ReadTlsAnswer, ReaderDrains, ReaderEnds, ReaderIsDead, ReaderIsThere, ReaderLeavesTrace,
    ReaderLoops, ReaderRuns, Return, SendTls, Starts, Stops, StopTest, StreamIsGone,
    TestActive, TlsAnswered, Unbinds, WaitForReaderNull, streams, identity, locals
<1> QED BY Zenon, <1>0, <1>1, <1>2, <1>3, <1>4

\* The steps that leave the sockets alone.
LEMMA TypesQuietly ==
  ASSUME TypeInv, Next, UNCHANGED sockets,
         \/ \E o \in Ops : Begin(o)
         \/ AppStep /\ ~(CloseStep(App, AfterDispose) \/ Opens \/ Handshake)
         \/ \E r \in Readers :
              \/ ReaderStep(r) /\ ~CloseStep(r, "trace")
              \/ ReadTlsAnswer(r) \/ ReadShutdownNotice(r)
  PROVE  TypeInv'
<1> USE ConstantsAssumption
    DEF ConstantsAssumption, TypeInv, TypeOK, NamedIsOpened, OpPlaces, Disposing, TlsPlaces,
        AppPlaces, ReaderPlaces, Closing, Threads, Readers, Sockets, App, None, Free, At, Goto,
        Connected, AfterDispose, streams, identity, locals
<1>0. Opened' = Opened /\ {stopOnTls', clientActive', bound', disposeThrew'} \subseteq BOOLEAN
  BY OpenedSame, FlagsAreBoolean
<1>1. ASSUME NEW o \in Ops, Begin(o) PROVE TypeInv'
  BY <1>0, <1>1 DEF Begin
<1>2. CASE TestActive(App, AfterDispose)
  BY <1>0, <1>2 DEF TestActive
<1>3. CASE Claim(App, "close")
  BY <1>0, <1>3 DEF Claim
<1>4. CASE Joins
  BY <1>0, <1>4 DEF Joins
<1>5. CASE WaitForReaderNull("waitNull", "open")
  BY <1>0, <1>5 DEF WaitForReaderNull
<1>6. CASE OpenFails
  BY <1>0, <1>6 DEF OpenFails
<1>7. CASE Starts
  <2>1. started + 1 \in Readers /\ started + 1 # App /\ started \in 0..MaxReaders
    BY <1>7 DEF Starts
  <2>2. /\ pc'[App] = "waitStart"
        /\ \A r \in Readers : pc'[r] \in {pc[r], "born"}
    BY <1>7, <2>1 DEF Starts
  <2>3. started' \in 0..MaxReaders
    BY <1>7, <2>1 DEF Starts
  <2>4. UNCHANGED <<in_Renamed, socket, sockets, reader, deadReader, readerThreadEnclosure,
                    tls, semOwner, myIn, notify, op, outcome, disposeThrew>>
    BY <1>7 DEF Starts
  <2>11. TypeOK'
    BY <1>0, <2>2, <2>3, <2>4
  <2>12. pc' \in [Threads -> AppPlaces \cup ReaderPlaces]
    BY <1>0, <1>7, <2>1 DEF Starts
  <2>13. NamedIsOpened'
    BY <1>0, <1>7, <2>1 DEF Starts
  <2>14. OpPlaces'
    BY <1>0, <1>7, <2>1 DEF Starts
  <2> QED BY <2>11, <2>12, <2>13, <2>14 DEF TypeInv
<1>8. CASE ReaderIsThere
  BY <1>0, <1>8 DEF ReaderIsThere
<1>9. CASE ReaderIsDead
  BY <1>0, <1>9 DEF ReaderIsDead
<1>10. CASE Activates
  BY <1>0, <1>10 DEF Activates
<1>11. CASE Return
  BY <1>0, <1>11 DEF Return
<1>12. CASE SendTls
  <2>1. /\ pc[App] = "tlsAcquire" /\ semOwner' = App
        /\ UNCHANGED <<in_Renamed, socket, sockets, reader, deadReader, readerThreadEnclosure,
                       started, myIn, notify, op>>
    BY <1>12 DEF SendTls
  <2>2. \E place \in {"start", "tlsAnswer"} : Goto(App, place)
    BY <1>12 DEF SendTls, TlsThrows
  <2>3. tls' \in {tls, "sent"} /\ outcome' \in {outcome, "threw"}
    BY <1>12 DEF SendTls, TlsThrows
  <2>11. TypeOK'
    BY <1>0, <2>1, <2>2, <2>3
  <2>12. pc' \in [Threads -> AppPlaces \cup ReaderPlaces]
    BY <2>2
  <2>13. NamedIsOpened'
    BY <2>1
  <2>14. OpPlaces'
    BY <1>0, <2>1, <2>2
  <2> QED BY <2>11, <2>12, <2>13, <2>14 DEF TypeInv
<1>13. CASE TlsAnswered
  <2>1. CASE tls = "ok"
    <3>1. /\ pc[App] = "tlsAnswer" /\ pc' = [pc EXCEPT ![App] = "tlsWaitNull"]
          /\ tls' = "no"
          /\ UNCHANGED <<in_Renamed, socket, sockets, reader, deadReader,
                         readerThreadEnclosure, semOwner, started, myIn, notify, op, outcome>>
      BY <1>13, <2>1 DEF TlsAnswered
    <3>11. TypeOK'
      BY <1>0, <3>1
    <3>12. pc' \in [Threads -> AppPlaces \cup ReaderPlaces]
      BY <3>1
    <3>13. NamedIsOpened'
      BY <1>0, <3>1
    <3>14. OpPlaces'
      BY <1>0, <3>1
    <3> QED BY <3>11, <3>12, <3>13, <3>14 DEF TypeInv
  <2>2. CASE ~(tls = "ok")
    <3>1. /\ pc[App] = "tlsAnswer" /\ pc' = [pc EXCEPT ![App] = "start"]
          /\ tls' = "no" /\ outcome' = "threw"
          /\ UNCHANGED <<in_Renamed, socket, sockets, reader, deadReader,
                         readerThreadEnclosure, semOwner, started, myIn, notify, op>>
      BY <1>13, <2>2 DEF TlsAnswered, TlsThrows
    <3>11. TypeOK'
      BY <1>0, <3>1
    <3>12. pc' \in [Threads -> AppPlaces \cup ReaderPlaces]
      BY <3>1
    <3>13. NamedIsOpened'
      BY <1>0, <3>1
    <3>14. OpPlaces'
      BY <1>0, <3>1
    <3> QED BY <3>11, <3>12, <3>13, <3>14 DEF TypeInv
  <2> QED BY <2>1, <2>2
<1>14. CASE WaitForReaderNull("tlsWaitNull", "handshake")
  BY <1>0, <1>14 DEF WaitForReaderNull
<1>16. ASSUME NEW r \in Readers, ReaderRuns(r) PROVE TypeInv'
  BY <1>0, <1>16 DEF ReaderRuns
<1>17. ASSUME NEW r \in Readers, ReaderLoops(r) PROVE TypeInv'
  BY <1>0, <1>17 DEF ReaderLoops
<1>18. ASSUME NEW r \in Readers, StopTest(r) PROVE TypeInv'
  BY <1>0, <1>18 DEF StopTest
<1>19. ASSUME NEW r \in Readers, ReadFails(r) PROVE TypeInv'
  BY <1>0, <1>19 DEF ReadFails
<1>20. ASSUME NEW r \in Readers, Finally(r) PROVE TypeInv'
  <2>1. PICK place \in {"dispose", "trace"} : Goto(r, place)
    BY <1>20 DEF Finally
  <2>2. UNCHANGED <<in_Renamed, socket, sockets, reader, deadReader, readerThreadEnclosure,
                    tls, semOwner, started, myIn, notify, op, outcome>>
    BY <1>20 DEF Finally
  <2> QED BY <1>0, <2>1, <2>2
<1>21. ASSUME NEW r \in Readers, TestActive(r, "trace") PROVE TypeInv'
  BY <1>0, <1>21 DEF TestActive
<1>22. ASSUME NEW r \in Readers, Claim(r, "drain") PROVE TypeInv'
  BY <1>0, <1>22 DEF Claim
<1>23. ASSUME NEW r \in Readers, ReaderDrains(r) PROVE TypeInv'
  BY <1>0, <1>23 DEF ReaderDrains
<1>24. ASSUME NEW r \in Readers, ReaderLeavesTrace(r) PROVE TypeInv'
  BY <1>0, <1>24 DEF ReaderLeavesTrace
<1>25. ASSUME NEW r \in Readers, ReaderEnds(r) PROVE TypeInv'
  BY <1>0, <1>25 DEF ReaderEnds
<1>26. ASSUME NEW r \in Readers, ReadTlsAnswer(r) PROVE TypeInv'
  BY <1>0, <1>26 DEF ReadTlsAnswer
<1>27. ASSUME NEW r \in Readers, ReadShutdownNotice(r) PROVE TypeInv'
  BY <1>0, <1>27 DEF ReadShutdownNotice
<1> QED
  BY <1>1, <1>2, <1>3, <1>4, <1>5, <1>6, <1>7, <1>8, <1>9, <1>10, <1>11, <1>12, <1>13, <1>14,
     <1>16, <1>17, <1>18, <1>19, <1>20, <1>21, <1>22, <1>23, <1>24, <1>25, <1>26, <1>27
     DEF AppStep, ReaderStep

\* The steps of Dispose with the semaphore, by the application ...
LEMMA TypesOfAppClosing ==
  ASSUME TypeInv, Next, CloseStep(App, AfterDispose)
  PROVE  TypeInv'
<1> USE ConstantsAssumption
    DEF ConstantsAssumption, TypeInv, TypeOK, NamedIsOpened, OpPlaces, Disposing, TlsPlaces,
        AppPlaces, ReaderPlaces, Closing, Threads, Readers, Sockets, App, None, Free, At, Goto,
        Connected, AfterDispose, streams, identity, locals
<1>0. Opened \in Nat /\ {stopOnTls', clientActive', bound', disposeThrew'} \subseteq BOOLEAN
  BY OpenedIsNat, FlagsAreBoolean
<1>1. ASSUME UNCHANGED sockets PROVE Opened' = Opened
  BY <1>1, OpenedSame
<1>2. CASE AcquiresToClose(App)
  BY <1>0, <1>1, <1>2 DEF AcquiresToClose
<1>3. CASE CanWrite(App)
  BY <1>0, <1>1, <1>3 DEF CanWrite
<1>4. CASE Unbinds(App)
  <2>1. Opened' = Opened
    BY OpenedSame, <1>4 DEF Unbinds
  <2> QED BY <1>0, <1>4, <2>1 DEF Unbinds
<1>5. CASE Stops(App)
  BY <1>0, <1>1, <1>5 DEF Stops
<1>6. CASE FindsStream(App)
  BY <1>0, <1>1, <1>6 DEF FindsStream
<1>7. CASE Closes(App, AfterDispose)
  <2>1. Opened' = Opened
    BY OpenedSame, <1>7 DEF Closes, ClosesSocket
  <2> QED BY <1>0, <1>7, <2>1 DEF Closes, ClosesSocket
<1>8. CASE StreamIsGone(App)
  <2>1. /\ pc[App] \in Closing /\ pc' = [pc EXCEPT ![App] = "return"] /\ outcome' = "threw"
        /\ UNCHANGED <<in_Renamed, socket, sockets, reader, deadReader, readerThreadEnclosure,
                       tls, semOwner, started, myIn, notify, op>>
    BY <1>8 DEF StreamIsGone
  <2>11. TypeOK'
    BY <1>0, <2>1
  <2>12. pc' \in [Threads -> AppPlaces \cup ReaderPlaces]
    BY <2>1
  <2>13. NamedIsOpened'
    BY <2>1
  <2>14. OpPlaces'
    BY <1>0, <1>1, <2>1
  <2> QED BY <2>11, <2>12, <2>13, <2>14 DEF TypeInv
<1> QED BY <1>2, <1>3, <1>4, <1>5, <1>6, <1>7, <1>8 DEF CloseStep

\* ... and by a reader.
LEMMA TypesOfReaderClosing ==
  ASSUME TypeInv, Next, NEW r \in Readers, CloseStep(r, "trace")
  PROVE  TypeInv'
<1> USE ConstantsAssumption
    DEF ConstantsAssumption, TypeInv, TypeOK, NamedIsOpened, OpPlaces, Disposing, TlsPlaces,
        AppPlaces, ReaderPlaces, Closing, Threads, Readers, Sockets, App, None, Free, At, Goto,
        Connected, AfterDispose, streams, identity, locals
<1>0. Opened \in Nat /\ {stopOnTls', clientActive', bound', disposeThrew'} \subseteq BOOLEAN
  BY OpenedIsNat, FlagsAreBoolean
<1>1. ASSUME UNCHANGED sockets PROVE Opened' = Opened
  BY <1>1, OpenedSame
<1>2. CASE AcquiresToClose(r)
  BY <1>0, <1>1, <1>2 DEF AcquiresToClose
<1>3. CASE CanWrite(r)
  BY <1>0, <1>1, <1>3 DEF CanWrite
<1>4. CASE Unbinds(r)
  <2>1. Opened' = Opened
    BY OpenedSame, <1>4 DEF Unbinds
  <2> QED BY <1>0, <1>4, <2>1 DEF Unbinds
<1>5. CASE Stops(r)
  BY <1>0, <1>1, <1>5 DEF Stops
<1>6. CASE FindsStream(r)
  BY <1>0, <1>1, <1>6 DEF FindsStream
<1>7. CASE Closes(r, "trace")
  <2>1. Opened' = Opened
    BY OpenedSame, <1>7 DEF Closes, ClosesSocket
  <2> QED BY <1>0, <1>7, <2>1 DEF Closes, ClosesSocket
<1>8. CASE StreamIsGone(r)
  <2>1. /\ pc' = [u \in Threads |-> "crashed"]
        /\ UNCHANGED <<in_Renamed, socket, sockets, reader, deadReader, readerThreadEnclosure,
                       tls, semOwner, started, myIn, notify, op, outcome>>
    BY <1>8 DEF StreamIsGone
  <2>11. TypeOK'
    BY <1>0, <2>1
  <2>12. pc' \in [Threads -> AppPlaces \cup ReaderPlaces]
    BY <2>1
  <2>13. NamedIsOpened'
    BY <2>1
  <2>14. OpPlaces'
    BY <1>0, <2>1
  <2> QED BY <2>11, <2>12, <2>13, <2>14 DEF TypeInv
<1> QED BY <1>2, <1>3, <1>4, <1>5, <1>6, <1>7, <1>8 DEF CloseStep

\* The other steps that change a socket.
LEMMA TypesOfSockets ==
  ASSUME TypeInv, Next,
         Opens \/ Handshake \/ \E s \in Sockets : Lose(s)
  PROVE  TypeInv'
<1> USE ConstantsAssumption
    DEF ConstantsAssumption, TypeInv, TypeOK, NamedIsOpened, OpPlaces, Disposing, TlsPlaces,
        AppPlaces, ReaderPlaces, Closing, Threads, Readers, Sockets, App, None, Free, At, Goto,
        Connected, AfterDispose, streams, identity, locals
<1>0. Opened \in Nat /\ {stopOnTls', clientActive', bound', disposeThrew'} \subseteq BOOLEAN
  BY OpenedIsNat, FlagsAreBoolean
<1>1. ASSUME NEW s \in Sockets, Lose(s) PROVE TypeInv'
  <2>1. Opened' = Opened
    BY OpenedSame, <1>1 DEF Lose, Alive
  <2> QED BY <1>0, <1>1, <2>1 DEF Lose, Alive
<1>2. CASE Opens
  <2>1. Opened + 1 \in Sockets
    BY <1>0, <1>2 DEF Opens
  <2>2. CASE Connected
    BY <1>0, <1>2, <2>2 DEF Opens
  <2>3. CASE ~Connected
    BY SMTT(30), <1>0, <1>2, <2>1, <2>3 DEF Opens
  <2> QED BY <2>2, <2>3
<1>3. CASE Handshake
  <2>1. CASE socket # None /\ in_Renamed' = socket /\ sockets[socket] = "up"
              /\ sockets' = [sockets EXCEPT ![socket] = "tls"] /\ Goto(App, "start")
              /\ UNCHANGED outcome
    <3>1. Opened' = Opened
      BY OpenedSame, <2>1
    <3> QED BY <1>0, <1>3, <2>1, <3>1 DEF Handshake
  <2>2. CASE TlsThrows /\ UNCHANGED <<in_Renamed, sockets>>
    <3>1. Opened' = Opened
      BY OpenedSame, <2>2
    <3> QED BY <1>0, <1>3, <2>2, <3>1 DEF Handshake, TlsThrows
  <2> QED BY <1>3, <2>1, <2>2 DEF Handshake
<1> QED BY <1>1, <1>2, <1>3

LEMMA NextTypes == TypeInv /\ [Next]_vars => TypeInv'
<1>1. ASSUME TypeInv, UNCHANGED vars PROVE TypeInv'
  <2>1. Opened' = Opened
    BY <1>1, OpenedSame DEF vars
  <2> QED
    BY <1>1, <2>1 DEF vars, TypeInv, TypeOK, NamedIsOpened, OpPlaces, At
<1>2. ASSUME TypeInv, Next PROVE TypeInv'
  <2>1. CASE Opens \/ Handshake \/ \E s \in Sockets : Lose(s)
    BY <1>2, <2>1, TypesOfSockets
  <2>2. CASE CloseStep(App, AfterDispose)
    BY <1>2, <2>2, TypesOfAppClosing
  <2>3. CASE \E r \in Readers : CloseStep(r, "trace")
    BY <1>2, <2>3, TypesOfReaderClosing
  <2>4. CASE /\ \/ \E o \in Ops : Begin(o)
                \/ AppStep /\ ~(CloseStep(App, AfterDispose) \/ Opens \/ Handshake)
                \/ \E r \in Readers :
                     \/ ReaderStep(r) /\ ~CloseStep(r, "trace")
                     \/ ReadTlsAnswer(r) \/ ReadShutdownNotice(r)
    <3>1. UNCHANGED sockets
      BY <2>4 DEF AppStep, ReaderStep, Begin,
        Activates, Claim, Finally, Joins, OpenFails, ReadFails, ReadShutdownNotice,
        ReadTlsAnswer, ReaderDrains, ReaderEnds, ReaderIsDead, ReaderIsThere,
        ReaderLeavesTrace, ReaderLoops, ReaderRuns, Return, SendTls, Starts, StopTest,
        TestActive, TlsAnswered, WaitForReaderNull, streams, identity, locals
    <3> QED BY <1>2, <2>4, <3>1, TypesQuietly
  <2> QED BY <1>2, <2>1, <2>2, <2>3, <2>4 DEF Next, ServerStep
<1> QED BY <1>1, <1>2

\* Every variable stays within its type: in particular there is a socket left
\* to open where connect opens one and a thread left where startReader starts
\* one, however the readers interleave.
THEOREM Types == Spec => []TypeOK
<1>1. Init => TypeInv
  BY InitTypes
<1>2. TypeInv /\ [Next]_vars => TypeInv'
  BY NextTypes
<1>3. TypeInv => TypeOK
  BY DEF TypeInv
<1> QED BY <1>1, <1>2, <1>3, PTL DEF Spec

-----------------------------------------------------------------------------
(* The semaphore is returned.                                               *)

\* Without StartTls the application is never at one of its places.
LEMMA NoTlsPlaces ==
  ASSUME "startTls" \notin Ops, TypeInv
  PROVE  pc[App] \notin TlsPlaces /\ op # "startTls"
BY ConstantsAssumption DEF ConstantsAssumption, TypeInv, TypeOK, OpPlaces

\* After the crash only a peer can be lost.
LEMMA CrashedStays ==
  ASSUME TypeInv, Crashed, [Next]_vars
  PROVE  Crashed'
<1> USE DEF Crashed, Threads, At
<1>1. CASE UNCHANGED vars
  BY <1>1 DEF vars
<1>2. CASE \E s \in Sockets : Lose(s)
  BY <1>2 DEF Lose
<1>3. ASSUME NEW t \in Threads, NEW next, CloseStep(t, next) PROVE FALSE
  BY <1>3 DEF CloseStep, AcquiresToClose, CanWrite, Unbinds, Stops, FindsStream, Closes,
              ClosesSocket, StreamIsGone
<1>4. ASSUME NEW r \in Readers, ReaderStep(r) PROVE FALSE
  BY <1>3, <1>4 DEF ReaderStep, ReaderRuns, ReaderLoops, StopTest, ReadFails, Finally, TestActive,
              Claim, ReaderDrains, ReaderLeavesTrace, ReaderEnds
<1>5. CASE AppStep \/ \E o \in Ops : Begin(o)
  BY <1>3, <1>5 DEF AppStep, Begin, TestActive, Claim, Joins, WaitForReaderNull, Opens, OpenFails,
              Starts, ReaderIsThere, ReaderIsDead, Activates, Return, SendTls, TlsAnswered,
              Handshake
<1>6. ASSUME NEW r \in Readers, ReadTlsAnswer(r) \/ ReadShutdownNotice(r) PROVE FALSE
  BY <1>6 DEF ReadTlsAnswer, ReadShutdownNotice
<1> QED BY <1>1, <1>2, <1>4, <1>5, <1>6 DEF Next, ServerStep

LEMMA ReadersSem ==
  ASSUME TypeInv, SemInv, ~Crashed, NEW r \in Readers, ReaderStep(r)
  PROVE  SemInv'
<1> USE ConstantsAssumption
    DEF ConstantsAssumption, TypeInv, TypeOK, OpPlaces, TlsPlaces, SemInv, AppHolds, HalfClosed,
        Closing, Threads, Readers, Sockets, App, None, Free, At, Goto, Connected, AfterDispose,
        streams, identity, locals
<1>1. CASE ReaderRuns(r)
  BY <1>1 DEF ReaderRuns
<1>2. CASE ReaderLoops(r)
  BY <1>2 DEF ReaderLoops
<1>3. CASE StopTest(r)
  BY <1>3 DEF StopTest
<1>4. CASE ReadFails(r)
  BY <1>4 DEF ReadFails
<1>5. CASE Finally(r)
  BY SMTT(30), <1>5 DEF Finally
<1>6. CASE TestActive(r, "trace")
  BY <1>6 DEF TestActive
<1>7. CASE Claim(r, "drain")
  BY <1>7 DEF Claim
<1>8. CASE ReaderDrains(r)
  BY <1>8 DEF ReaderDrains
<1>9. CASE ReaderLeavesTrace(r)
  BY <1>9 DEF ReaderLeavesTrace
<1>10. CASE ReaderEnds(r)
  BY <1>10 DEF ReaderEnds
<1>11. CASE AcquiresToClose(r)
  BY <1>11 DEF AcquiresToClose
<1>12. CASE CanWrite(r)
  BY <1>12 DEF CanWrite
<1>13. CASE Unbinds(r)
  BY <1>13 DEF Unbinds
<1>14. CASE Stops(r)
  BY <1>14 DEF Stops
<1>15. CASE FindsStream(r)
  BY <1>15 DEF FindsStream
<1>16. CASE Closes(r, "trace")
  BY <1>16 DEF Closes, ClosesSocket
<1>17. CASE StreamIsGone(r)
  BY <1>17 DEF StreamIsGone, Crashed
<1> QED
  BY <1>1, <1>2, <1>3, <1>4, <1>5, <1>6, <1>7, <1>8, <1>9, <1>10, <1>11, <1>12, <1>13, <1>14,
     <1>15, <1>16, <1>17
     DEF ReaderStep, CloseStep

LEMMA NextSem ==
  ASSUME "startTls" \notin Ops, TypeInv, SemInv, [Next]_vars
  PROVE  SemInv'
<1> SUFFICES ASSUME ~Crashed PROVE SemInv'
  BY CrashedStays DEF SemInv
<1> USE NoTlsPlaces, ConstantsAssumption
    DEF ConstantsAssumption, TypeInv, TypeOK, OpPlaces, TlsPlaces, SemInv, AppHolds, HalfClosed,
        Closing, Threads, Readers, Sockets, App, None, Free, At, Goto, Connected, AfterDispose,
        streams, identity, locals
<1>1. CASE UNCHANGED vars
  BY <1>1 DEF vars
<1>2. CASE \E r \in Readers : ReaderStep(r)
  BY <1>2, ReadersSem
<1>3. CASE ServerStep
  <2>1. CASE \E s \in Sockets : Lose(s)
    BY <2>1 DEF Lose
  <2>2. ASSUME NEW r \in Readers, ReadTlsAnswer(r) PROVE SemInv'
    BY <2>2 DEF ReadTlsAnswer
  <2>3. ASSUME NEW r \in Readers, ReadShutdownNotice(r) PROVE SemInv'
    BY <2>3 DEF ReadShutdownNotice
  <2> QED BY <1>3, <2>1, <2>2, <2>3 DEF ServerStep
<1>4. ASSUME NEW o \in Ops, Begin(o) PROVE SemInv'
  BY <1>4 DEF Begin
<1>5. CASE TestActive(App, AfterDispose)
  BY <1>5 DEF TestActive
<1>6. CASE Claim(App, "close")
  BY <1>6 DEF Claim
<1>7. CASE Joins
  BY <1>7 DEF Joins
<1>8. CASE WaitForReaderNull("waitNull", "open")
  BY <1>8 DEF WaitForReaderNull
<1>9. CASE Opens
  BY <1>9 DEF Opens
<1>10. CASE OpenFails
  BY <1>10 DEF OpenFails
<1>11. CASE Starts
  <2>1. started \in Nat /\ started + 1 \in Readers /\ pc[App] = "start"
    BY <1>11 DEF Starts
  <2>2. /\ pc'[App] = "waitStart" /\ pc'[started + 1] = "born"
        /\ \A r \in Readers \ {started + 1} : pc'[r] = pc[r]
    BY <1>11, <2>1 DEF Starts
  <2>3. UNCHANGED <<in_Renamed, socket, clientActive, semOwner, disposeThrew>>
    BY <1>11 DEF Starts
  <2> QED BY <2>1, <2>2, <2>3
<1>12. CASE ReaderIsThere
  BY <1>12 DEF ReaderIsThere
<1>13. CASE ReaderIsDead
  BY <1>13 DEF ReaderIsDead
<1>14. CASE Activates
  BY <1>14 DEF Activates
<1>15. CASE Return
  BY <1>15 DEF Return
<1>16. CASE SendTls \/ TlsAnswered \/ Handshake \/ WaitForReaderNull("tlsWaitNull", "handshake")
  BY <1>16 DEF SendTls, TlsAnswered, Handshake, WaitForReaderNull
<1>17. CASE AcquiresToClose(App)
  BY <1>17 DEF AcquiresToClose
<1>18. CASE CanWrite(App)
  BY <1>18 DEF CanWrite
<1>19. CASE Unbinds(App)
  BY <1>19 DEF Unbinds
<1>20. CASE Stops(App)
  BY <1>20 DEF Stops
<1>21. CASE FindsStream(App)
  BY <1>21 DEF FindsStream
<1>22. CASE Closes(App, AfterDispose)
  BY <1>22 DEF Closes, ClosesSocket
<1>23. CASE StreamIsGone(App)
  BY <1>23 DEF StreamIsGone
<1> QED
  BY <1>1, <1>2, <1>3, <1>4, <1>5, <1>6, <1>7, <1>8, <1>9, <1>10, <1>11, <1>12, <1>13, <1>14,
     <1>15, <1>16, <1>17, <1>18, <1>19, <1>20, <1>21, <1>22, <1>23
     DEF Next, AppStep, CloseStep

\* An application that does not call StartTls gets the semaphore back from every
\* connect and disconnect but one, whatever its readers and the peer do meanwhile:
\* the new reader may die at once, the socket may not open, the old reader may have
\* closed everything before.  The one is a Dispose whose stream a failing reader
\* clears between two reads of the field; it leaves the connection half closed.
THEOREM SemaphoreComesBack ==
  ASSUME "startTls" \notin Ops
  PROVE  Spec => []Inv
<1>1. Init => TypeInv /\ SemInv
  BY InitTypes
  DEF Init, SemInv, AppHolds, Connected, HalfClosed, Closing, App, Free, None, Threads, Readers
<1>2. TypeInv /\ SemInv /\ [Next]_vars => (TypeInv /\ SemInv)'
  BY NextTypes, NextSem
<1>3. TypeInv /\ SemInv => Inv
  BY DEF TypeInv, Inv, SemInv, AppHolds, HalfClosed, Crashed, Threads, SemaphoreReturned, Closing,
         At, App, Readers
<1> QED BY <1>1, <1>2, <1>3, PTL DEF Spec

-----------------------------------------------------------------------------
(* One reader at a time.                                                    *)

LEMMA OrderlyReaders ==
  ASSUME MayLose = FALSE, "startTls" \notin Ops, TypeInv, OrderlyInv,
         NEW r \in Readers, ReaderStep(r)
  PROVE  OrderlyInv'
<1> USE ConstantsAssumption
  DEF ConstantsAssumption, TypeInv, TypeOK, OpPlaces, TlsPlaces, Disposing, Closing, Threads,
     Readers,
      Sockets, App, None, Free, At, Goto, AfterDispose, Connected, streams, identity, locals,
      OrderlyInv, AllStopped, SocketIsUp, LastReads, LastEnds
<1>0. r = started /\ started > 0 /\ pc[r] # "unborn" /\ pc[r] # "dead"
  BY DEF ReaderStep, ReaderRuns, ReaderLoops, StopTest, ReadFails, Finally, TestActive,
         Claim, ReaderDrains, CloseStep, AcquiresToClose, CanWrite, Unbinds, Stops,
         FindsStream, Closes, ClosesSocket, StreamIsGone, ReaderLeavesTrace, ReaderEnds
<1>1. CASE ReaderRuns(r)
  BY <1>0, <1>1 DEF ReaderRuns
<1>2. CASE ReaderLoops(r)
  BY <1>0, <1>2 DEF ReaderLoops
<1>3. CASE StopTest(r)
  BY <1>0, <1>3 DEF StopTest
<1>4. CASE ReadFails(r)
  <2>1. pc[r] = "read" /\ ~Alive(myIn[r]) /\ in_Renamed' = None
    BY <1>4 DEF ReadFails
  <2>2. UNCHANGED <<socket, sockets, reader, deadReader, readerThreadEnclosure, clientActive, tls,
                    started>>
    BY <1>4 DEF ReadFails
  <2>3. pc' = [pc EXCEPT ![r] = "finally"]
    BY <1>4 DEF ReadFails
  <2>4. ~SocketIsUp \/ ~LastReads
    BY <1>0, <2>1 DEF Alive
  <2>5. pc[App] \in {"stop", "join"} \cup TlsPlaces
    BY <1>0, <2>1, <2>4 DEF AppPlaces
  <2> QED BY <1>0, <2>1, <2>2, <2>3, <2>5, NoTlsPlaces
<1>5. CASE Finally(r)
  BY <1>0, <1>5 DEF Finally
<1>6. CASE TestActive(r, "trace")
  BY <1>0, <1>6 DEF TestActive
<1>7. CASE Claim(r, "drain")
  BY <1>0, <1>7 DEF Claim
<1>8. CASE ReaderDrains(r)
  BY <1>0, <1>8 DEF ReaderDrains
<1>9. ~CloseStep(r, "trace")
  <2>1. pc[r] \notin Closing \cup {"close"}
    BY <1>0, NoTlsPlaces DEF AppPlaces
  <2> QED BY <2>1 DEF CloseStep, AcquiresToClose, CanWrite, Unbinds, Stops, FindsStream, Closes,
              ClosesSocket, StreamIsGone
<1>10. CASE ReaderLeavesTrace(r)
  BY <1>0, <1>10 DEF ReaderLeavesTrace
<1>11. CASE ReaderEnds(r)
  BY <1>0, <1>11 DEF ReaderEnds
<1> QED
  BY <1>1, <1>2, <1>3, <1>4, <1>5, <1>6, <1>7, <1>8, <1>9, <1>10, <1>11 DEF ReaderStep

LEMMA OrderlyNext ==
  ASSUME MayLose = FALSE, "startTls" \notin Ops, TypeInv, OrderlyInv, [Next]_vars
  PROVE  OrderlyInv'
<1> USE NoTlsPlaces, ConstantsAssumption
  DEF ConstantsAssumption, TypeInv, TypeOK, OpPlaces, TlsPlaces, Disposing, Closing, Threads,
     Readers,
      Sockets, App, None, Free, At, Goto, AfterDispose, Connected, streams, identity, locals,
      OrderlyInv, AllStopped, SocketIsUp, LastReads, LastEnds
<1>1. CASE UNCHANGED vars
  BY <1>1 DEF vars
<1>2. CASE \E r \in Readers : ReaderStep(r)
  BY <1>2, OrderlyReaders
<1>3. CASE ServerStep
  <2>1. PICK s \in Sockets : Lose(s)
    BY <1>3 DEF ServerStep, ReadTlsAnswer, ReadShutdownNotice
  <2>2. \A q \in Sockets : sockets[q] = "up" => sockets'[q] = "up"
    BY <2>1 DEF Lose
  <2>3. UNCHANGED <<in_Renamed, socket, reader, deadReader, readerThreadEnclosure, clientActive,
                    tls, started, pc, myIn>>
    BY <2>1 DEF Lose
  <2> QED BY <2>2, <2>3
<1>4. ASSUME NEW o \in Ops, Begin(o) PROVE OrderlyInv'
  BY <1>4 DEF Begin
<1>5. CASE TestActive(App, AfterDispose)
  BY <1>5 DEF TestActive
<1>6. CASE Claim(App, "close")
  BY <1>6 DEF Claim
<1>7. CASE AcquiresToClose(App) \/ CanWrite(App) \/ Unbinds(App)
  BY <1>7 DEF AcquiresToClose, CanWrite, Unbinds
<1>8. CASE Joins
  BY <1>8 DEF Joins
<1>9. CASE Closes(App, AfterDispose)
  BY <1>9 DEF Closes, ClosesSocket
<1>10. CASE WaitForReaderNull("waitNull", "open")
  BY <1>10 DEF WaitForReaderNull
<1>11. CASE Opens
  <2>1. Opened \in Nat /\ Opened + 1 \in Sockets /\ Opened + 1 # None /\ ~Connected
    BY <1>11, OpenedIsNat DEF Opens
  <2>2. /\ socket' = Opened + 1 /\ in_Renamed' = socket' /\ sockets'[socket'] = "up"
        /\ Goto(App, "start") /\ pc[App] = "open"
    BY <1>11, <2>1 DEF Opens
  <2>3. UNCHANGED <<reader, deadReader, readerThreadEnclosure, tls, started>>
    BY <1>11 DEF Opens
  <2> QED BY <2>1, <2>2, <2>3
<1>12. CASE OpenFails
  BY <1>12 DEF OpenFails
<1>13. CASE Starts
  <2>1. /\ started \in Nat /\ started + 1 \in Readers /\ pc[App] = "start"
        /\ started' = started + 1
    BY <1>13 DEF Starts
  <2>2. /\ pc'[App] = "waitStart" /\ pc'[started'] = "born"
        /\ \A r \in Readers \ {started'} : pc'[r] = pc[r]
    BY <1>13, <2>1 DEF Starts
  <2>3. UNCHANGED <<in_Renamed, socket, sockets, reader, deadReader, tls>>
    BY <1>13 DEF Starts
  <2>4. \A r \in Readers :
         (r < started' => pc'[r] = "dead") /\ (r > started' <=> pc'[r] = "unborn")
    BY <2>1, <2>2
  <2> QED BY <2>1, <2>2, <2>3, <2>4
<1>14. CASE ReaderIsThere
  BY <1>14 DEF ReaderIsThere
<1>15. CASE ReaderIsDead
  BY <1>15 DEF ReaderIsDead
<1>16. CASE Activates
  BY ZenonT(60), <1>16 DEF Activates
<1>17. CASE Return
  BY <1>17 DEF Return
<1>18. CASE SendTls \/ TlsAnswered \/ Handshake \/ WaitForReaderNull("tlsWaitNull", "handshake")
  BY <1>18 DEF SendTls, TlsAnswered, Handshake, WaitForReaderNull
<1>19. CASE Stops(App) \/ FindsStream(App)
  <2>1. CASE Stops(App)
    BY <2>1 DEF Stops
  <2>2. CASE FindsStream(App)
    BY <2>2 DEF FindsStream
  <2> QED BY <1>19, <2>1, <2>2
<1>20. ~StreamIsGone(App)
  BY DEF StreamIsGone
<1> QED
  BY <1>1, <1>2, <1>3, <1>4, <1>5, <1>6, <1>7, <1>8, <1>9, <1>10, <1>11, <1>12, <1>13, <1>14,
     <1>15, <1>16, <1>17, <1>18, <1>19, <1>20
     DEF Next, AppStep, CloseStep

LEMMA OrderlyTheorem ==
  ASSUME MayLose = FALSE, "startTls" \notin Ops
  PROVE  Spec => [](TypeInv /\ OrderlyInv)
<1>1. Init => TypeInv /\ OrderlyInv
  BY InitTypes, ConstantsAssumption
  DEF ConstantsAssumption, Init, OrderlyInv, AllStopped, Connected, Disposing, Closing, App,
      Readers, Threads, None
<1>2. TypeInv /\ OrderlyInv /\ [Next]_vars => (TypeInv /\ OrderlyInv)'
  BY NextTypes, OrderlyNext
<1> QED BY <1>1, <1>2, PTL DEF Spec

\* startReader "assumes the reader thread is not running": as long as no
\* connection is lost, connect and disconnect in any order never leave two
\* readers at one stream.
THEOREM OneReader ==
  ASSUME MayLose = FALSE, "startTls" \notin Ops
  PROVE  Spec => []OneReaderPerSocket
<1>1. TypeInv /\ OrderlyInv => OneReaderPerSocket
  BY DEF TypeInv, TypeOK, OrderlyInv, OneReaderPerSocket, At, Readers
<1> QED BY <1>1, OrderlyTheorem, PTL

\* Nor does connect ever open a socket with the old reader still about, although
\* waitForReader(null) also returns where no reader has left a trace.
THEOREM OldReaderIsGone ==
  ASSUME MayLose = FALSE, "startTls" \notin Ops
  PROVE  Spec => []OldReaderStopped
<1>1. TypeInv /\ OrderlyInv => OldReaderStopped
  BY NoTlsPlaces DEF TlsPlaces, OrderlyInv, OldReaderStopped, AllStopped, At
<1> QED BY <1>1, OrderlyTheorem, PTL

-----------------------------------------------------------------------------
(* A connection has a reader, StartTls included.  Between the answer to     *)
(* StartTls and the start of the next reader there may be none.             *)

BetweenReaders ==
  \/ pc[App] \in {"tlsWaitNull", "handshake", "start"}
  \/ pc[App] = "tlsAnswer" /\ tls # "sent"

Reads(r) == pc[r] \in {"born", "loop", "read"}

ReadInv ==
  \/ Crashed
  \/ /\ tls = "sent" => pc[App] = "tlsAnswer"
     /\ Connected /\ ~BetweenReaders => \E r \in Readers : Reads(r)

LEMMA ReadersRead ==
  ASSUME MayLose = FALSE, TypeInv, ReadInv, ~Crashed, NEW r \in Readers,
         ReaderStep(r) \/ ReadTlsAnswer(r)
  PROVE  ReadInv'
<1> USE ConstantsAssumption
  DEF ConstantsAssumption, TypeInv, TypeOK, Closing, Threads, Readers, App, None, At, Goto,
     Connected,
      streams, identity, locals, ReadInv, BetweenReaders, Reads
<1>0. ~StreamIsGone(r) => pc'[App] = pc[App] /\ \A q \in Readers \ {r} : pc'[q] = pc[q]
  BY DEF ReaderStep, ReaderRuns, ReaderLoops, StopTest, ReadFails, Finally, TestActive,
         Claim, ReaderDrains, CloseStep, AcquiresToClose, CanWrite, Unbinds, Stops,
         FindsStream, Closes, ClosesSocket, StreamIsGone, ReaderLeavesTrace, ReaderEnds, ReadTlsAnswer
<1>1. CASE ReaderRuns(r)
  BY <1>0, <1>1 DEF ReaderRuns
<1>2. CASE ReaderLoops(r)
  BY <1>0, <1>2 DEF ReaderLoops
<1>3. CASE StopTest(r)
  BY <1>0, <1>3 DEF StopTest
<1>4. CASE ReadFails(r)
  BY <1>0, <1>4 DEF ReadFails
<1>5. CASE Finally(r)
  BY <1>0, <1>5 DEF Finally
<1>6. CASE TestActive(r, "trace")
  BY <1>0, <1>6 DEF TestActive
<1>7. CASE Claim(r, "drain")
  BY <1>0, <1>7 DEF Claim
<1>8. CASE ReaderDrains(r)
  BY <1>0, <1>8 DEF ReaderDrains
<1>9. CASE Closes(r, "trace")
  BY <1>9 DEF Closes, ClosesSocket
<1>10. CASE ReaderLeavesTrace(r)
  BY <1>0, <1>10 DEF ReaderLeavesTrace
<1>11. CASE ReaderEnds(r)
  BY <1>0, <1>11 DEF ReaderEnds
<1>12. CASE ReadTlsAnswer(r)
  BY <1>0, <1>12 DEF ReadTlsAnswer
<1>13. CASE AcquiresToClose(r) \/ CanWrite(r) \/ Unbinds(r) \/ Stops(r) \/ FindsStream(r)
  BY <1>13 DEF AcquiresToClose, CanWrite, Unbinds, Stops, FindsStream
<1>14. CASE StreamIsGone(r)
  BY <1>14 DEF StreamIsGone, Crashed
<1> QED
  BY <1>1, <1>2, <1>3, <1>4, <1>5, <1>6, <1>7, <1>8, <1>9, <1>10, <1>11, <1>12, <1>13, <1>14
     DEF ReaderStep, CloseStep

LEMMA ReadNext ==
  ASSUME MayLose = FALSE, TypeInv, ReadInv, [Next]_vars
  PROVE  ReadInv'
<1> SUFFICES ASSUME ~Crashed PROVE ReadInv'
  BY CrashedStays DEF ReadInv
<1> USE ConstantsAssumption
  DEF ConstantsAssumption, TypeInv, TypeOK, Closing, Threads, Readers, App, None, At, Goto,
     Connected,
      AfterDispose, streams, identity, locals, ReadInv, BetweenReaders, Reads
<1>1. CASE UNCHANGED vars
  BY <1>1 DEF vars
<1>2. ASSUME NEW r \in Readers, ReaderStep(r) \/ ReadTlsAnswer(r) PROVE ReadInv'
  BY <1>2, ReadersRead
<1>3. CASE (\E r \in Readers : ReadShutdownNotice(r)) \/ \E s \in Sockets : Lose(s)
  BY <1>3 DEF ReadShutdownNotice, Lose
<1>4. ASSUME NEW o \in Ops, Begin(o) PROVE ReadInv'
  BY <1>4 DEF Begin
<1>5. CASE TestActive(App, AfterDispose)
  BY <1>5 DEF TestActive
<1>6. CASE Claim(App, "close")
  BY <1>6 DEF Claim
<1>7. CASE AcquiresToClose(App) \/ CanWrite(App) \/ Unbinds(App) \/ Stops(App) \/ FindsStream(App)
  BY <1>7 DEF AcquiresToClose, CanWrite, Unbinds, Stops, FindsStream
<1>8. CASE Joins
  BY <1>8 DEF Joins
<1>9. CASE Closes(App, AfterDispose)
  BY <1>9 DEF Closes, ClosesSocket
<1>10. CASE WaitForReaderNull("waitNull", "open")
  BY <1>10 DEF WaitForReaderNull
<1>11. CASE Opens
  BY <1>11 DEF Opens
<1>12. CASE OpenFails
  BY <1>12 DEF OpenFails
<1>13. CASE Starts
  <2>1. started \in Nat /\ started < MaxReaders
    BY <1>13 DEF Starts, OpPlaces
  <2>2. pc'[App] = "waitStart" /\ pc'[started + 1] = "born" /\ tls' = tls /\ pc[App] = "start"
    BY <1>13, <2>1 DEF Starts
  <2> QED BY <2>1, <2>2
<1>14. CASE ReaderIsThere
  BY <1>14 DEF ReaderIsThere
<1>15. CASE ReaderIsDead
  BY <1>15 DEF ReaderIsDead
<1>16. CASE Activates
  BY <1>16 DEF Activates
<1>17. CASE Return
  BY <1>17 DEF Return
<1>18. CASE SendTls
  BY <1>18 DEF SendTls, TlsThrows
<1>19. CASE TlsAnswered
  BY <1>19 DEF TlsAnswered, TlsThrows
<1>20. CASE WaitForReaderNull("tlsWaitNull", "handshake")
  BY <1>20 DEF WaitForReaderNull
<1>21. CASE Handshake
  BY <1>21 DEF Handshake, TlsThrows
<1>22. CASE StreamIsGone(App)
  BY <1>22 DEF StreamIsGone
<1> QED
  BY <1>1, <1>2, <1>3, <1>4, <1>5, <1>6, <1>7, <1>8, <1>9, <1>10, <1>11, <1>12, <1>13, <1>14,
     <1>15, <1>16, <1>17, <1>18, <1>19, <1>20, <1>21, <1>22
     DEF Next, AppStep, CloseStep, ServerStep

\* A connection that reports to be connected has a reader, whatever became of the
\* calls of StartTls before: the reader that stops for one is replaced, also where
\* StartTls throws.
THEOREM Read ==
  ASSUME MayLose = FALSE
  PROVE  Spec => []ConnectedIsRead
<1>1. Init => TypeInv /\ ReadInv
  BY InitTypes DEF Init, ReadInv, Connected
<1>2. TypeInv /\ ReadInv /\ [Next]_vars => (TypeInv /\ ReadInv)'
  BY NextTypes, ReadNext
<1>3. TypeInv /\ ReadInv => ConnectedIsRead
  BY DEF ReadInv, Crashed, Threads, App, BetweenReaders, Reads, ConnectedIsRead, At
<1> QED BY <1>1, <1>2, <1>3, PTL DEF Spec
=============================================================================
