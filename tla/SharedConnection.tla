-------------------------- MODULE SharedConnection --------------------------
(***************************************************************************)
(* Clones of an LdapConnection that share one Connection: Clone, Connect,  *)
(* Disconnect and Bind of LdapConnection.cs with incrCloneCount,           *)
(* destroyClone, copy and connect of Connection.cs.                        *)
(*                                                                         *)
(* As the class advises, each thread has an LdapConnection of its own,     *)
(* made by cloning; threads and LdapConnections are the same set here.     *)
(* The end of a connection, step by step, is the business of               *)
(* ConnectionLoss and ReaderThread: here the loss of the peer is one step, *)
(* and so is the end of a reader, for which waitForReader need not wait.   *)
(***************************************************************************)
EXTENDS Integers, FiniteSets

CONSTANTS
  Handles,      \* LdapConnections, one for each application thread
  Connections,  \* Connection objects
  Original,     \* the LdapConnection that is not a clone
  None,
  Lost          \* the owner of a semaphore that nobody will free

ASSUME SharingAssumption ==
  /\ Original \in Handles /\ IsFiniteSet(Handles)
  /\ {None, Lost} \cap (Handles \cup Connections) = {} /\ None # Lost

VARIABLES
  \* of each Connection
  cloneCount,
  monitor,      \* who holds lock (this)
  streams,      \* in_Renamed is not null
  host,         \* host is not null
  readers,      \* readers of the present stream
  semaphore,    \* who owns the write semaphore
  \* of each LdapConnection and its thread
  conn,
  at,           \* where the thread is
  op,           \* what it does
  newClone,     \* local of Clone
  result        \* what destroyClone has returned

counts == <<cloneCount, monitor>>
locals == <<op, newClone, result>>
vars == <<counts, streams, host, readers, semaphore, conn, at, locals>>

Init ==
  /\ cloneCount = [c \in Connections |-> 0]
  /\ monitor = [c \in Connections |-> None]
  /\ streams = [c \in Connections |-> FALSE]
  /\ host = [c \in Connections |-> FALSE]
  /\ readers = [c \in Connections |-> 0]
  /\ semaphore = [c \in Connections |-> None]
  /\ \E c \in Connections : conn = [h \in Handles |-> IF h = Original THEN c ELSE None]
  /\ at = [h \in Handles |-> IF h = Original THEN "idle" ELSE "unborn"]
  /\ op = [h \in Handles |-> "none"]
  /\ newClone = [h \in Handles |-> None]
  /\ result = [h \in Handles |-> None]

Goto(h, s) == at' = [at EXCEPT ![h] = s]

-----------------------------------------------------------------------------
(* Clone: the copy refers to the same Connection, and is counted under its  *)
(* lock before anybody else gets to see it.                                 *)

Clone(h, k) ==
  /\ at[h] = "idle"
  /\ conn[k] = None
  /\ conn' = [conn EXCEPT ![k] = conn[h]]
  /\ newClone' = [newClone EXCEPT ![h] = k]
  /\ Goto(h, "clone")
  /\ UNCHANGED <<counts, streams, host, readers, semaphore, op, result>>

\* MUTANT: the clone is not counted.
CloneUncounted(h) ==
  /\ at[h] = "clone"
  /\ monitor[conn[h]] = None
  /\ at' = [at EXCEPT ![h] = "idle", ![newClone[h]] = "idle"]
  /\ newClone' = [newClone EXCEPT ![h] = None]
  /\ UNCHANGED <<counts, streams, host, readers, semaphore, conn, op, result>>

incrCloneCount(h) ==
  /\ at[h] = "clone"
  /\ monitor[conn[h]] = None
  /\ cloneCount' = [cloneCount EXCEPT ![conn[h]] = @ + 1]
  /\ at' = [at EXCEPT ![h] = "idle", ![newClone[h]] = "idle"]
  /\ newClone' = [newClone EXCEPT ![h] = None]
  /\ UNCHANGED <<monitor, streams, host, readers, semaphore, conn, op, result>>

-----------------------------------------------------------------------------
(* Connect and Disconnect begin with destroyClone.                          *)

Begin(h, o) ==
  /\ at[h] = "idle"
  /\ op' = [op EXCEPT ![h] = o]
  /\ Goto(h, "destroy")
  /\ UNCHANGED <<counts, streams, host, readers, semaphore, conn, newClone, result>>

Fresh(c) == \A h \in Handles : c \notin {conn[h], result[h]}

\* destroyClone of a Connection with clones: one less, and an unconnected copy.
LeaveShared(h, c) ==
  /\ cloneCount[c] > 0
  /\ cloneCount' = [cloneCount EXCEPT ![c] = @ - 1]
  /\ \E f \in Connections :
       /\ Fresh(f)
       /\ result' = [result EXCEPT ![h] = f]
       /\ host' = [host EXCEPT ![f] = host[c]]
  /\ Goto(h, "assign")
  /\ UNCHANGED monitor

\* destroyClone of a Connection without: it is disposed of if it is connected.
LeaveAlone(h, c) ==
  /\ cloneCount[c] = 0
  /\ IF streams[c]
     THEN /\ monitor' = [monitor EXCEPT ![c] = h]
          /\ Goto(h, "dispose")
          /\ UNCHANGED result
     ELSE /\ result' = [result EXCEPT ![h] = c]
          /\ Goto(h, "assign")
          /\ UNCHANGED monitor
  /\ UNCHANGED <<cloneCount, host>>

\* MUTANT: the number of clones is not looked at.
DestroyAlways(h) ==
  /\ at[h] = "destroy"
  /\ monitor[conn[h]] = None
  /\ monitor' = [monitor EXCEPT ![conn[h]] = h]
  /\ Goto(h, "dispose")
  /\ UNCHANGED <<cloneCount, streams, host, readers, semaphore, conn, locals>>

\* MUTANT: the clone that leaves keeps the Connection.
DestroyInPlace(h) ==
  /\ at[h] = "destroy"
  /\ monitor[conn[h]] = None
  /\ \/ /\ cloneCount[conn[h]] > 0
        /\ cloneCount' = [cloneCount EXCEPT ![conn[h]] = @ - 1]
        /\ result' = [result EXCEPT ![h] = conn[h]]
        /\ Goto(h, "assign")
        /\ UNCHANGED <<monitor, host>>
     \/ LeaveAlone(h, conn[h])
  /\ UNCHANGED <<streams, readers, semaphore, conn, op, newClone>>

destroyClone(h) ==
  /\ at[h] = "destroy"
  /\ monitor[conn[h]] = None
  /\ LeaveShared(h, conn[h]) \/ LeaveAlone(h, conn[h])
  /\ UNCHANGED <<streams, readers, semaphore, conn, op, newClone>>

\* Dispose, inside the lock: the write semaphore, the reader, the socket.
Dispose(h) ==
  LET c == conn[h] IN
  /\ at[h] = "dispose"
  /\ semaphore[c] = None
  /\ streams' = [streams EXCEPT ![c] = FALSE]
  /\ readers' = [readers EXCEPT ![c] = 0]
  /\ monitor' = [monitor EXCEPT ![c] = None]
  /\ result' = [result EXCEPT ![h] = c]
  /\ Goto(h, "assign")
  /\ UNCHANGED <<cloneCount, host, semaphore, conn, op, newClone>>

\* Back in LdapConnection the field is assigned.
Assign(h) ==
  /\ at[h] = "assign"
  /\ conn' = [conn EXCEPT ![h] = result[h]]
  /\ result' = [result EXCEPT ![h] = None]
  /\ IF op[h] = "connect"
     THEN Goto(h, "open") /\ UNCHANGED op
     ELSE Goto(h, "idle") /\ op' = [op EXCEPT ![h] = "none"]
  /\ UNCHANGED <<counts, streams, host, readers, semaphore, newClone>>

-----------------------------------------------------------------------------
(* Connection.connect, which is not inside the lock.                        *)

\* With the semaphore, which a bind may own already, a socket unless there is one ...
Open(h) ==
  LET c == conn[h] IN
  /\ at[h] = "open"
  /\ semaphore[c] \in {None, h}
  /\ semaphore' = [semaphore EXCEPT ![c] = h]
  /\ streams' = [streams EXCEPT ![c] = TRUE]
  /\ Goto(h, "start")
  /\ UNCHANGED <<counts, host, readers, conn, locals>>

\* ... or an exception, after which connect frees the semaphore, and a bind that
\* had acquired it before does not.
OpenFails(h) ==
  LET c == conn[h] IN
  /\ at[h] = "open"
  /\ semaphore[c] \in {None, h}
  /\ ~streams[c]
  /\ semaphore' = [semaphore EXCEPT ![c] = IF @ = h THEN Lost ELSE None]
  /\ Goto(h, "idle")
  /\ op' = [op EXCEPT ![h] = "none"]
  /\ UNCHANGED <<counts, streams, host, readers, conn, newClone, result>>

\* startReader, and the end of connect: another reader, whatever there is.
startReader(h) ==
  LET c == conn[h] IN
  /\ at[h] = "start"
  /\ readers' = [readers EXCEPT ![c] = @ + 1]
  /\ host' = [host EXCEPT ![c] = TRUE]
  /\ semaphore' = [semaphore EXCEPT ![c] = IF op[h] = "rebind" THEN h ELSE None]
  /\ Goto(h, CASE op[h] = "connect" -> "idle"
               [] op[h] = "bind" -> "acquire"
               [] OTHER -> "answer")
  /\ op' = [op EXCEPT ![h] = "none"]
  /\ UNCHANGED <<counts, streams, conn, newClone, result>>

-----------------------------------------------------------------------------
(* Bind connects again if it has to, before and after it acquires the       *)
(* semaphore, which it owns until it is answered.                           *)

Bind(h) ==
  /\ at[h] = "idle"
  /\ \/ streams[conn[h]] /\ Goto(h, "acquire") /\ UNCHANGED op
     \/ /\ ~streams[conn[h]] /\ host[conn[h]]
        /\ op' = [op EXCEPT ![h] = "bind"]
        /\ Goto(h, "open")
  /\ UNCHANGED <<counts, streams, host, readers, semaphore, conn, newClone, result>>

acquireWriteSemaphore(h) ==
  /\ at[h] = "acquire"
  /\ semaphore[conn[h]] = None
  /\ semaphore' = [semaphore EXCEPT ![conn[h]] = h]
  /\ Goto(h, "write")
  /\ UNCHANGED <<counts, streams, host, readers, conn, locals>>

writeMessage(h) ==
  /\ at[h] = "write"
  /\ \/ streams[conn[h]] /\ Goto(h, "answer") /\ UNCHANGED op
     \/ /\ ~streams[conn[h]]
        /\ op' = [op EXCEPT ![h] = "rebind"]
        /\ Goto(h, "open")
  /\ UNCHANGED <<counts, streams, host, readers, semaphore, conn, newClone, result>>

Answered(h) ==
  /\ at[h] = "answer"
  /\ semaphore' = [semaphore EXCEPT ![conn[h]] = None]
  /\ Goto(h, "idle")
  /\ UNCHANGED <<counts, streams, host, readers, conn, locals>>

\* The peer is lost: the reader tells the bind that waits, closes and ends.
Lose(c) ==
  LET told == {h \in Handles : conn[h] = c /\ at[h] = "answer"} IN
  /\ readers[c] > 0
  /\ semaphore[c] \in told \cup {None}
  /\ streams' = [streams EXCEPT ![c] = FALSE]
  /\ readers' = [readers EXCEPT ![c] = 0]
  /\ semaphore' = [semaphore EXCEPT ![c] = None]
  /\ at' = [h \in Handles |-> IF h \in told THEN "idle" ELSE at[h]]
  /\ UNCHANGED <<counts, host, conn, locals>>

-----------------------------------------------------------------------------
Step(h) ==
  \/ incrCloneCount(h) \/ destroyClone(h) \/ Dispose(h) \/ Assign(h)
  \/ Open(h) \/ OpenFails(h) \/ startReader(h)
  \/ Bind(h) \/ acquireWriteSemaphore(h) \/ writeMessage(h) \/ Answered(h)

Next ==
  \/ \E h, k \in Handles : Clone(h, k)
  \/ \E h \in Handles :
       \/ Step(h)
       \/ \E o \in {"connect", "disconnect"} : Begin(h, o)
  \/ \E c \in Connections : Lose(c)

Spec == Init /\ [][Next]_vars

-----------------------------------------------------------------------------
Places == {"unborn", "idle", "clone", "destroy", "dispose", "assign", "open",
           "start", "acquire", "write", "answer"}

TypeOK ==
  /\ cloneCount \in [Connections -> Nat]
  /\ monitor \in [Connections -> Handles \cup {None}]
  /\ {streams, host} \subseteq [Connections -> BOOLEAN]
  /\ readers \in [Connections -> Nat]
  /\ semaphore \in [Connections -> Handles \cup {None, Lost}]
  /\ conn \in [Handles -> Connections \cup {None}]
  /\ at \in [Handles -> Places]
  /\ op \in [Handles -> {"none", "connect", "disconnect", "bind", "rebind"}]
  /\ newClone \in [Handles -> Handles \cup {None}]
  /\ result \in [Handles -> Connections \cup {None}]

\* The Connection an LdapConnection uses, once destroyClone has let go of the
\* other one; a clone counts once it is counted.
Uses(h) == CASE at[h] = "unborn" -> None
             [] result[h] # None -> result[h]
             [] OTHER -> conn[h]

Users(c) == {h \in Handles : Uses(h) = c}

\* cloneCount is the "number of clones in addition to original LdapConnection
\* using this connection", whoever cloned, connected, disconnected or lost
\* what in between.
UsersCounted ==
  \A c \in Connections :
    cloneCount[c] = IF Users(c) = {} THEN 0 ELSE Cardinality(Users(c)) - 1

Inv == TypeOK /\ UsersCounted

\* "Any connection opened after cloning is private to the object making the
\* connection": whoever closes a socket to connect or disconnect, and whoever opens
\* one to connect, shares it with nobody, and so waits for no bind of another
\* thread, which would keep the semaphore until it is answered.
AtTheSocket(h) ==
  at[h] = "dispose" \/ (at[h] \in {"open", "start"} /\ op[h] = "connect")

AloneAtTheSocket ==
  \A h \in Handles : AtTheSocket(h) =>
    Users(conn[h]) = {h} /\ semaphore[conn[h]] \notin Handles \ {h}

Sharing == INSTANCE SharedSocket WITH
  Parties <- Handles, Sockets <- Connections,
  sharers <- [c \in Connections |-> Users(c)], open <- streams

\* "The network connection remains open until all clones have disconnected":
\* a socket is closed by the last LdapConnection that uses it, or by its peer.
ImplementsSharing ==
  /\ Sharing!SharingInit
  /\ [][Sharing!SharingNext \/ \E c \in Connections : Lose(c) /\ Sharing!CutOff(c)
       ]_<<[c \in Connections |-> Users(c)], streams>>

\* Do not hold: two clones that bind at once after the connection was lost start
\* two readers of one stream ...
OneReaderPerStream == \A c \in Connections : readers[c] <= 1

\* ... and a bind whose reconnection fails leaves the semaphore taken, which every
\* later use of the Connection waits for.
SemaphoreComesBack == \A c \in Connections : semaphore[c] # Lost
=============================================================================
