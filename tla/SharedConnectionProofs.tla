----------------------- MODULE SharedConnectionProofs -----------------------
(***************************************************************************)
(* However many LdapConnections are cloned from one another: cloneCount is *)
(* the number of those that share a Connection, who connects or            *)
(* disconnects is alone at its socket, and the socket that is shared is    *)
(* closed by nobody but the last who uses it, or by its peer.              *)
(***************************************************************************)
EXTENDS SharedConnection, FiniteSetTheorems, TLAPS

\* What the places of the threads say about their variables.
Shape ==
  \A h \in Handles :
    /\ conn[h] = None => at[h] = "unborn"
    /\ result[h] # None <=> at[h] = "assign"
    /\ at[h] = "clone" => /\ newClone[h] \in Handles
                          /\ at[newClone[h]] = "unborn"
                          /\ conn[newClone[h]] = conn[h]
                          /\ \A k \in Handles : at[k] = "clone" /\ newClone[k] = newClone[h] => k = h

\* A Connection that nobody uses is new, and not connected.
UnusedIsFresh == \A c \in Connections : Users(c) = {} => Fresh(c) /\ ~streams[c]

\* From the moment a thread has destroyed what it used it has its Connection to
\* itself, until connect has opened a socket.
Alone ==
  \A h \in Handles : AtTheSocket(h) \/ at[h] = "assign" => Users(Uses(h)) = {h}

\* Who owns a semaphore uses its Connection, and is opening a socket, writing or
\* waiting for its answer.
OwnersAtWork ==
  \A c \in Connections : semaphore[c] \in Handles =>
    /\ conn[semaphore[c]] = c
    /\ at[semaphore[c]] \in {"open", "start", "write", "answer"}

SharingInv == Inv /\ Shape /\ UnusedIsFresh /\ Alone /\ OwnersAtWork

LEMMA UsersFinite == \A c : IsFiniteSet(Users(c))
BY SharingAssumption, FS_Subset DEF Users

LEMMA TypesPreserved ==
  ASSUME SharingInv, [Next]_vars
  PROVE  TypeOK'
<1> USE SharingAssumption DEF SharingInv, Inv, TypeOK, Shape, Places, Goto, counts, locals
<1>1. ASSUME NEW h \in Handles, NEW k \in Handles, Clone(h, k) PROVE TypeOK'
  BY <1>1 DEF Clone
<1>2. ASSUME NEW h \in Handles, NEW o \in {"connect", "disconnect"}, Begin(h, o)
      PROVE  TypeOK'
  BY <1>2 DEF Begin
<1>3. ASSUME NEW h \in Handles, incrCloneCount(h) PROVE TypeOK'
  BY <1>3 DEF incrCloneCount
<1>4. ASSUME NEW h \in Handles, destroyClone(h) PROVE TypeOK'
  BY <1>4 DEF destroyClone, LeaveShared, LeaveAlone
<1>5. ASSUME NEW h \in Handles, Dispose(h) PROVE TypeOK'
  BY <1>5 DEF Dispose
<1>6. ASSUME NEW h \in Handles, Assign(h) PROVE TypeOK'
  BY <1>6 DEF Assign
<1>7. ASSUME NEW h \in Handles, Open(h) PROVE TypeOK'
  BY <1>7 DEF Open
<1>8. ASSUME NEW h \in Handles, OpenFails(h) PROVE TypeOK'
  BY <1>8 DEF OpenFails
<1>9. ASSUME NEW h \in Handles, startReader(h) PROVE TypeOK'
  BY <1>9 DEF startReader
<1>10. ASSUME NEW h \in Handles, Bind(h) PROVE TypeOK'
  BY <1>10 DEF Bind
<1>11. ASSUME NEW h \in Handles, acquireWriteSemaphore(h) PROVE TypeOK'
  BY <1>11 DEF acquireWriteSemaphore
<1>12. ASSUME NEW h \in Handles, writeMessage(h) PROVE TypeOK'
  BY <1>12 DEF writeMessage
<1>13. ASSUME NEW h \in Handles, Answered(h) PROVE TypeOK'
  BY <1>13 DEF Answered
<1>14. ASSUME NEW c \in Connections, Lose(c) PROVE TypeOK'
  BY <1>14 DEF Lose
<1>15. CASE UNCHANGED vars
  BY <1>15 DEF vars
<1> QED
  BY <1>1, <1>2, <1>3, <1>4, <1>5, <1>6, <1>7, <1>8, <1>9, <1>10, <1>11, <1>12, <1>13, <1>14,
     <1>15 DEF Next, Step

LEMMA ShapePreserved ==
  ASSUME SharingInv, [Next]_vars
  PROVE  Shape'
<1> USE SharingAssumption DEF SharingInv, Inv, TypeOK, Shape, Places, Goto, counts, locals
<1>1. ASSUME NEW h \in Handles, NEW k \in Handles, Clone(h, k) PROVE Shape'
  BY <1>1 DEF Clone
<1>2. ASSUME NEW h \in Handles, NEW o \in {"connect", "disconnect"}, Begin(h, o)
      PROVE  Shape'
  BY <1>2 DEF Begin
<1>3. ASSUME NEW h \in Handles, incrCloneCount(h) PROVE Shape'
  BY <1>3 DEF incrCloneCount
<1>4. ASSUME NEW h \in Handles, destroyClone(h) PROVE Shape'
  BY <1>4 DEF destroyClone, LeaveShared, LeaveAlone
<1>5. ASSUME NEW h \in Handles, Dispose(h) PROVE Shape'
  BY <1>5 DEF Dispose
<1>6. ASSUME NEW h \in Handles, Assign(h) PROVE Shape'
  BY <1>6 DEF Assign
<1>7. ASSUME NEW h \in Handles, Open(h) PROVE Shape'
  BY <1>7 DEF Open
<1>8. ASSUME NEW h \in Handles, OpenFails(h) PROVE Shape'
  BY <1>8 DEF OpenFails
<1>9. ASSUME NEW h \in Handles, startReader(h) PROVE Shape'
  BY <1>9 DEF startReader
<1>10. ASSUME NEW h \in Handles, Bind(h) PROVE Shape'
  BY <1>10 DEF Bind
<1>11. ASSUME NEW h \in Handles, acquireWriteSemaphore(h) PROVE Shape'
  BY <1>11 DEF acquireWriteSemaphore
<1>12. ASSUME NEW h \in Handles, writeMessage(h) PROVE Shape'
  BY <1>12 DEF writeMessage
<1>13. ASSUME NEW h \in Handles, Answered(h) PROVE Shape'
  BY <1>13 DEF Answered
<1>14. ASSUME NEW c \in Connections, Lose(c) PROVE Shape'
  BY <1>14 DEF Lose
<1>15. CASE UNCHANGED vars
  BY <1>15 DEF vars
<1> QED
  BY <1>1, <1>2, <1>3, <1>4, <1>5, <1>6, <1>7, <1>8, <1>9, <1>10, <1>11, <1>12, <1>13, <1>14,
     <1>15 DEF Next, Step

LEMMA OwnersPreserved ==
  ASSUME SharingInv, [Next]_vars
  PROVE  OwnersAtWork'
<1> USE SharingAssumption DEF SharingInv, Inv, TypeOK, Shape, OwnersAtWork, Places, Goto, counts,
   locals
<1>1. ASSUME NEW h \in Handles, NEW k \in Handles, Clone(h, k) PROVE OwnersAtWork'
  BY <1>1 DEF Clone
<1>2. ASSUME NEW h \in Handles, NEW o \in {"connect", "disconnect"}, Begin(h, o)
      PROVE  OwnersAtWork'
  BY <1>2 DEF Begin
<1>3. ASSUME NEW h \in Handles, incrCloneCount(h) PROVE OwnersAtWork'
  BY <1>3 DEF incrCloneCount
<1>4. ASSUME NEW h \in Handles, destroyClone(h) PROVE OwnersAtWork'
  BY <1>4 DEF destroyClone, LeaveShared, LeaveAlone
<1>5. ASSUME NEW h \in Handles, Dispose(h) PROVE OwnersAtWork'
  BY <1>5 DEF Dispose
<1>6. ASSUME NEW h \in Handles, Assign(h) PROVE OwnersAtWork'
  BY <1>6 DEF Assign
<1>7. ASSUME NEW h \in Handles, Open(h) PROVE OwnersAtWork'
  BY <1>7 DEF Open
<1>8. ASSUME NEW h \in Handles, OpenFails(h) PROVE OwnersAtWork'
  BY <1>8 DEF OpenFails
<1>9. ASSUME NEW h \in Handles, startReader(h) PROVE OwnersAtWork'
  BY <1>9 DEF startReader
<1>10. ASSUME NEW h \in Handles, Bind(h) PROVE OwnersAtWork'
  BY <1>10 DEF Bind
<1>11. ASSUME NEW h \in Handles, acquireWriteSemaphore(h) PROVE OwnersAtWork'
  BY <1>11 DEF acquireWriteSemaphore
<1>12. ASSUME NEW h \in Handles, writeMessage(h) PROVE OwnersAtWork'
  BY <1>12 DEF writeMessage
<1>13. ASSUME NEW h \in Handles, Answered(h) PROVE OwnersAtWork'
  BY <1>13 DEF Answered
<1>14. ASSUME NEW c \in Connections, Lose(c) PROVE OwnersAtWork'
  BY <1>14 DEF Lose
<1>15. CASE UNCHANGED vars
  BY <1>15 DEF vars
<1> QED
  BY <1>1, <1>2, <1>3, <1>4, <1>5, <1>6, <1>7, <1>8, <1>9, <1>10, <1>11, <1>12, <1>13, <1>14,
     <1>15 DEF Next, Step


\* An LdapConnection begins to use a Connection when it is counted as a clone, and
\* uses another one when it leaves one that it shares.
Joins(h) ==
  /\ incrCloneCount(h)
  /\ \A q \in Handles : Uses(q)' = IF q = newClone[h] THEN conn[h] ELSE Uses(q)

Leaves(h, f) ==
  /\ destroyClone(h) /\ LeaveShared(h, conn[h])
  /\ Fresh(f)
  /\ \A q \in Handles : Uses(q)' = IF q = h THEN f ELSE Uses(q)

Stays == UNCHANGED cloneCount /\ \A q \in Handles : Uses(q)' = Uses(q)

\* No other step changes who uses what.
LEMMA UsesStep ==
  ASSUME SharingInv, [Next]_vars
  PROVE  \/ Stays
         \/ \E p \in Handles : Joins(p) \/ \E f \in Connections : Leaves(p, f)
<1> DEFINE Goal == Stays \/ \E p \in Handles : Joins(p) \/ \E f \in Connections : Leaves(p, f)
<1> USE SharingAssumption DEF SharingInv, Inv, TypeOK, Shape, Uses, Places, Goto, counts, locals
<1>1. ASSUME NEW h \in Handles, NEW k \in Handles, Clone(h, k) PROVE Goal
  BY <1>1 DEF Clone, Stays
<1>2. ASSUME NEW h \in Handles, NEW o \in {"connect", "disconnect"}, Begin(h, o)
      PROVE  \/ Stays
         \/ \E p \in Handles : Joins(p) \/ \E f \in Connections : Leaves(p, f)
  BY <1>2 DEF Begin, Stays
<1>3. ASSUME NEW h \in Handles, incrCloneCount(h) PROVE Goal
  <2>1. Joins(h)
    BY <1>3 DEF incrCloneCount, Joins
  <2> QED
    BY <2>1
<1>4. ASSUME NEW h \in Handles, destroyClone(h) PROVE Goal
  <2>1. CASE LeaveShared(h, conn[h])
    <3>1. PICK f \in Connections : Fresh(f) /\ result' = [result EXCEPT ![h] = f]
      BY <2>1 DEF LeaveShared
    <3>2. Leaves(h, f)
      BY <1>4, <2>1, <3>1, ZenonT(40) DEF destroyClone, LeaveShared, Leaves
    <3> QED
      BY <3>2
  <2>2. CASE LeaveAlone(h, conn[h])
    <3>1. Stays
      BY <1>4, <2>2 DEF destroyClone, LeaveAlone, Stays
    <3> QED
      BY <3>1
  <2> QED
    BY <1>4, <2>1, <2>2 DEF destroyClone
<1>5. ASSUME NEW h \in Handles, Dispose(h) PROVE Goal
  BY <1>5 DEF Dispose, Stays
<1>6. ASSUME NEW h \in Handles, Assign(h) PROVE Goal
  BY <1>6 DEF Assign, Stays
<1>7. ASSUME NEW h \in Handles, Open(h) PROVE Goal
  BY <1>7 DEF Open, Stays
<1>8. ASSUME NEW h \in Handles, OpenFails(h) PROVE Goal
  BY <1>8 DEF OpenFails, Stays
<1>9. ASSUME NEW h \in Handles, startReader(h) PROVE Goal
  BY <1>9 DEF startReader, Stays
<1>10. ASSUME NEW h \in Handles, Bind(h) PROVE Goal
  BY <1>10 DEF Bind, Stays
<1>11. ASSUME NEW h \in Handles, acquireWriteSemaphore(h) PROVE Goal
  BY <1>11 DEF acquireWriteSemaphore, Stays
<1>12. ASSUME NEW h \in Handles, writeMessage(h) PROVE Goal
  BY <1>12 DEF writeMessage, Stays
<1>13. ASSUME NEW h \in Handles, Answered(h) PROVE Goal
  BY <1>13 DEF Answered, Stays
<1>14. ASSUME NEW c \in Connections, Lose(c) PROVE Goal
  BY <1>14 DEF Lose, Stays
<1>15. CASE UNCHANGED vars
  BY <1>15 DEF vars, Stays
<1> QED
  BY <1>1, <1>2, <1>3, <1>4, <1>5, <1>6, <1>7, <1>8, <1>9, <1>10, <1>11, <1>12, <1>13, <1>14,
     <1>15 DEF Next, Step

\* Who leaves shared its Connection with another one.
LEMMA OthersStay ==
  ASSUME SharingInv, NEW h \in Handles, NEW f \in Connections, Leaves(h, f)
  PROVE  /\ conn[h] \in Connections /\ h \in Users(conn[h]) /\ f # conn[h]
         /\ Users(conn[h]) # {h}
         /\ Users(f) = {}
         /\ cloneCount[conn[h]] = Cardinality(Users(conn[h])) - 1
         /\ cloneCount' = [cloneCount EXCEPT ![conn[h]] = @ - 1]
<1> USE DEF SharingInv, Inv, TypeOK, Shape
<1>1. at[h] = "destroy" /\ cloneCount[conn[h]] > 0 /\ Fresh(f)
      /\ cloneCount' = [cloneCount EXCEPT ![conn[h]] = @ - 1]
  BY DEF Leaves, LeaveShared, destroyClone
<1>2. conn[h] \in Connections /\ h \in Users(conn[h]) /\ f # conn[h]
  BY <1>1 DEF Fresh, Users, Uses
<1>3. cloneCount[conn[h]] = Cardinality(Users(conn[h])) - 1
  BY <1>2 DEF UsersCounted
<1>4. Users(conn[h]) # {h}
  <2>1. Users(conn[h]) = {h} => Cardinality(Users(conn[h])) = 1
    BY FS_Singleton, Zenon
  <2> QED
    BY <1>1, <1>2, <1>3, <2>1
<1>5. Users(f) = {}
  BY <1>1, SharingAssumption DEF Fresh, Users, Uses
<1> QED
  BY <1>1, <1>2, <1>3, <1>4, <1>5

\* The sets of users, after a step.
LEMMA JoinedUsers ==
  ASSUME SharingInv, NEW h \in Handles, Joins(h)
  PROVE  /\ conn[h] \in Connections /\ h \in Users(conn[h])
         /\ newClone[h] \in Handles /\ Uses(newClone[h]) = None
         /\ \A c \in Connections :
              Users(c)' = IF c = conn[h] THEN Users(c) \cup {newClone[h]} ELSE Users(c)
<1> USE DEF SharingInv, Inv, TypeOK, Shape
<1>1. at[h] = "clone" /\ newClone[h] \in Handles /\ at[newClone[h]] = "unborn"
  BY DEF Joins, incrCloneCount
<1>2. Uses(newClone[h]) = None
  BY <1>1 DEF Uses
<1>3. conn[h] \in Connections /\ h \in Users(conn[h])
  BY <1>1 DEF Users, Uses
<1>4. \A c \in Connections :
        Users(c)' = IF c = conn[h] THEN Users(c) \cup {newClone[h]} ELSE Users(c)
  BY <1>1, <1>2, SharingAssumption DEF Joins, Users
<1> QED
  BY <1>1, <1>2, <1>3, <1>4

LEMMA LeftUsers ==
  ASSUME SharingInv, NEW h \in Handles, NEW f \in Connections, Leaves(h, f)
  PROVE  /\ Users(f)' = {h}
         /\ \A c \in Connections : Users(c)' = IF c = conn[h] THEN Users(c) \ {h}
                                               ELSE IF c = f THEN {h} ELSE Users(c)
<1>1. \A q \in Handles : Uses(q)' = IF q = h THEN f ELSE Uses(q)
  BY DEF Leaves
<1>2. f # conn[h] /\ Uses(h) = conn[h] /\ \A q \in Handles : Uses(q) # f
  BY OthersStay DEF Users
<1> QED
  BY <1>1, <1>2 DEF Users

\* A clone that is counted is one more, one that leaves is one less, and who uses a
\* new Connection is alone there.
LEMMA CountPreserved ==
  ASSUME SharingInv, [Next]_vars
  PROVE  UsersCounted'
<1>0. /\ \A c \in Connections :
           cloneCount[c] = IF Users(c) = {} THEN 0 ELSE Cardinality(Users(c)) - 1
      /\ cloneCount \in [Connections -> Nat]
  BY DEF SharingInv, Inv, UsersCounted, TypeOK
<1>1. CASE Stays
  BY <1>0, <1>1 DEF Stays, Users, UsersCounted
<1>2. ASSUME NEW h \in Handles, Joins(h) PROVE UsersCounted'
  <2>1. cloneCount' = [cloneCount EXCEPT ![conn[h]] = @ + 1]
    BY <1>2 DEF Joins, incrCloneCount
  <2>2. /\ conn[h] \in Connections /\ Users(conn[h]) # {}
        /\ newClone[h] \notin Users(conn[h])
        /\ \A c \in Connections :
             Users(c)' = IF c = conn[h] THEN Users(c) \cup {newClone[h]} ELSE Users(c)
    BY <1>2, JoinedUsers, SharingAssumption DEF Users
  <2>3. /\ Cardinality(Users(conn[h])) \in Nat
        /\ Cardinality(Users(conn[h]) \cup {newClone[h]}) = Cardinality(Users(conn[h])) + 1
    BY <2>2, UsersFinite, FS_AddElement, FS_CardinalityType
  <2>4. ASSUME NEW c \in Connections
        PROVE  cloneCount'[c] = IF Users(c)' = {} THEN 0 ELSE Cardinality(Users(c)') - 1
    <3>1. CASE c = conn[h]
      <4>1. Cardinality(Users(c)') = Cardinality(Users(conn[h]) \cup {newClone[h]})
        BY <2>2, <3>1, Zenon
      <4>2. Users(c)' # {} /\ cloneCount'[c] = cloneCount[conn[h]] + 1
        BY <1>0, <2>1, <2>2, <3>1
      <4>3. cloneCount[conn[h]] = Cardinality(Users(conn[h])) - 1
        BY <1>0, <2>2
      <4> QED
        BY <2>3, <4>1, <4>2, <4>3
    <3>2. CASE c # conn[h]
      <4>1. Users(c)' = Users(c)
        BY <2>2, <3>2, Zenon
      <4>2. cloneCount'[c] = cloneCount[c]
        BY <1>0, <2>1, <2>2, <3>2
      <4> QED
        BY <1>0, <4>1, <4>2, Zenon
    <3> QED
      BY <3>1, <3>2
  <2> QED
    BY <2>4 DEF UsersCounted
<1>3. ASSUME NEW h \in Handles, NEW f \in Connections, Leaves(h, f) PROVE UsersCounted'
  <2>1. /\ Cardinality(Users(conn[h])) \in Nat
        /\ Cardinality(Users(conn[h]) \ {h}) = Cardinality(Users(conn[h])) - 1
        /\ Cardinality({h}) = 1
    BY <1>3, OthersStay, UsersFinite, FS_RemoveElement, FS_CardinalityType, FS_Singleton
  <2>2. /\ f # conn[h] /\ Users(conn[h]) \ {h} # {} /\ Users(f) = {}
        /\ cloneCount[conn[h]] = Cardinality(Users(conn[h])) - 1
        /\ cloneCount' = [cloneCount EXCEPT ![conn[h]] = @ - 1]
    BY <1>3, OthersStay
  <2>3. \A c \in Connections : Users(c)' = IF c = conn[h] THEN Users(c) \ {h}
                                           ELSE IF c = f THEN {h} ELSE Users(c)
    BY <1>3, LeftUsers
  <2>4. ASSUME NEW c \in Connections
        PROVE  cloneCount'[c] = IF Users(c)' = {} THEN 0 ELSE Cardinality(Users(c)') - 1
    <3>1. CASE c = conn[h]
      <4>1. Cardinality(Users(c)') = Cardinality(Users(conn[h]) \ {h})
        BY <2>3, <3>1, Zenon
      <4>2. Users(c)' # {} /\ cloneCount'[c] = cloneCount[conn[h]] - 1
        BY <1>0, <2>2, <2>3, <3>1
      <4> QED
        BY <2>1, <2>2, <4>1, <4>2
    <3>2. CASE c # conn[h] /\ c = f
      <4>1. Users(c)' # {} /\ Cardinality(Users(c)') = Cardinality({h})
        BY <2>3, <3>2, Zenon
      <4>2. cloneCount'[c] = 0
        BY <1>0, <2>2, <3>2
      <4> QED
        BY <2>1, <4>1, <4>2
    <3>3. CASE c # conn[h] /\ c # f
      <4>1. Users(c)' = Users(c)
        BY <2>3, <3>3, Zenon
      <4>2. cloneCount'[c] = cloneCount[c]
        BY <1>0, <2>2, <3>3
      <4> QED
        BY <1>0, <4>1, <4>2, Zenon
    <3> QED
      BY <3>1, <3>2, <3>3
  <2> QED
    BY <2>4 DEF UsersCounted
<1> QED
  BY <1>1, <1>2, <1>3, UsesStep

\* A Connection in use is never without users again.
LEMMA UnusedPreserved ==
  ASSUME SharingInv, [Next]_vars
  PROVE  UnusedIsFresh'
<1>0. \A c \in Connections : Users(c)' = {} =>
        /\ \A q \in Handles : Uses(q)' # c /\ Uses(q) # c
        /\ Users(c) = {}
  <2>1. \A c \in Connections : Users(c)' = {} => Users(c) = {}
    <3>1. CASE Stays
      BY <3>1 DEF Stays, Users
    <3>2. ASSUME NEW h \in Handles, Joins(h), NEW c \in Connections, Users(c)' = {}
          PROVE  Users(c) = {}
      BY <3>2, JoinedUsers
    <3>3. ASSUME NEW h \in Handles, NEW f \in Connections, Leaves(h, f),
                 NEW c \in Connections, Users(c)' = {}
          PROVE  Users(c) = {}
      <4>1. Users(c)' = IF c = conn[h] THEN Users(c) \ {h} ELSE IF c = f THEN {h} ELSE Users(c)
        BY <3>3, LeftUsers
      <4>2. h \in Users(conn[h]) /\ Users(conn[h]) # {h}
        BY <3>3, OthersStay
      <4> QED
        BY <3>3, <4>1, <4>2
    <3> QED
      BY <3>1, <3>2, <3>3, UsesStep
  <2> QED
    BY <2>1 DEF Users
<1> USE SharingAssumption DEF SharingInv, Inv, TypeOK, Shape, UnusedIsFresh, Fresh, Uses, Places,
   Goto, counts, locals
<1>1. ASSUME NEW h \in Handles, NEW k \in Handles, Clone(h, k) PROVE UnusedIsFresh'
  BY <1>0, <1>1 DEF Clone
<1>2. ASSUME NEW h \in Handles, NEW o \in {"connect", "disconnect"}, Begin(h, o)
      PROVE  UnusedIsFresh'
  BY <1>0, <1>2 DEF Begin
<1>3. ASSUME NEW h \in Handles, incrCloneCount(h) PROVE UnusedIsFresh'
  BY <1>0, <1>3 DEF incrCloneCount
<1>4. ASSUME NEW h \in Handles, destroyClone(h) PROVE UnusedIsFresh'
  BY <1>0, <1>4 DEF destroyClone, LeaveShared, LeaveAlone
<1>5. ASSUME NEW h \in Handles, Dispose(h) PROVE UnusedIsFresh'
  BY <1>0, <1>5 DEF Dispose
<1>6. ASSUME NEW h \in Handles, Assign(h) PROVE UnusedIsFresh'
  BY <1>0, <1>6 DEF Assign
<1>7. ASSUME NEW h \in Handles, Open(h) PROVE UnusedIsFresh'
  BY <1>0, <1>7 DEF Open
<1>8. ASSUME NEW h \in Handles, OpenFails(h) PROVE UnusedIsFresh'
  BY <1>0, <1>8 DEF OpenFails
<1>9. ASSUME NEW h \in Handles, startReader(h) PROVE UnusedIsFresh'
  BY <1>0, <1>9 DEF startReader
<1>10. ASSUME NEW h \in Handles, Bind(h) PROVE UnusedIsFresh'
  BY <1>0, <1>10 DEF Bind
<1>11. ASSUME NEW h \in Handles, acquireWriteSemaphore(h) PROVE UnusedIsFresh'
  BY <1>0, <1>11 DEF acquireWriteSemaphore
<1>12. ASSUME NEW h \in Handles, writeMessage(h) PROVE UnusedIsFresh'
  BY <1>0, <1>12 DEF writeMessage
<1>13. ASSUME NEW h \in Handles, Answered(h) PROVE UnusedIsFresh'
  BY <1>0, <1>13 DEF Answered
<1>14. ASSUME NEW c \in Connections, Lose(c) PROVE UnusedIsFresh'
  BY <1>0, <1>14 DEF Lose
<1>15. CASE UNCHANGED vars
  BY <1>0, <1>15 DEF vars
<1> QED
  BY <1>1, <1>2, <1>3, <1>4, <1>5, <1>6, <1>7, <1>8, <1>9, <1>10, <1>11, <1>12, <1>13, <1>14,
     <1>15 DEF Next, Step

-----------------------------------------------------------------------------
AlonePlace(h) == AtTheSocket(h) \/ at[h] = "assign"

\* There is one way to where a thread is alone: destroyClone.
LEMMA AlonePlaces ==
  ASSUME SharingInv, [Next]_vars
  PROVE  \A q \in Handles : AlonePlace(q)' => AlonePlace(q) \/ destroyClone(q)
<1> USE SharingAssumption DEF SharingInv, Inv, TypeOK, Shape, AlonePlace, AtTheSocket, Places,
   Goto, counts, locals
<1>1. ASSUME NEW h \in Handles, NEW k \in Handles, Clone(h, k) PROVE \A q \in Handles : AlonePlace(q)' => AlonePlace(q) \/ destroyClone(q)
  BY <1>1 DEF Clone
<1>2. ASSUME NEW h \in Handles, NEW o \in {"connect", "disconnect"}, Begin(h, o)
      PROVE  \A q \in Handles : AlonePlace(q)' => AlonePlace(q) \/ destroyClone(q)
  BY <1>2 DEF Begin
<1>3. ASSUME NEW h \in Handles, incrCloneCount(h) PROVE \A q \in Handles : AlonePlace(q)' => AlonePlace(q) \/ destroyClone(q)
  BY <1>3 DEF incrCloneCount
<1>4. ASSUME NEW h \in Handles, destroyClone(h) PROVE \A q \in Handles : AlonePlace(q)' => AlonePlace(q) \/ destroyClone(q)
  <2>1. \A q \in Handles : q # h => (at'[q] = at[q] /\ op'[q] = op[q])
    BY <1>4 DEF destroyClone, LeaveShared, LeaveAlone
  <2> QED
    BY <1>4, <2>1
<1>5. ASSUME NEW h \in Handles, Dispose(h) PROVE \A q \in Handles : AlonePlace(q)' => AlonePlace(q) \/ destroyClone(q)
  BY <1>5 DEF Dispose
<1>6. ASSUME NEW h \in Handles, Assign(h) PROVE \A q \in Handles : AlonePlace(q)' => AlonePlace(q) \/ destroyClone(q)
  BY <1>6 DEF Assign
<1>7. ASSUME NEW h \in Handles, Open(h) PROVE \A q \in Handles : AlonePlace(q)' => AlonePlace(q) \/ destroyClone(q)
  BY <1>7 DEF Open
<1>8. ASSUME NEW h \in Handles, OpenFails(h) PROVE \A q \in Handles : AlonePlace(q)' => AlonePlace(q) \/ destroyClone(q)
  BY <1>8 DEF OpenFails
<1>9. ASSUME NEW h \in Handles, startReader(h) PROVE \A q \in Handles : AlonePlace(q)' => AlonePlace(q) \/ destroyClone(q)
  BY <1>9 DEF startReader
<1>10. ASSUME NEW h \in Handles, Bind(h) PROVE \A q \in Handles : AlonePlace(q)' => AlonePlace(q) \/ destroyClone(q)
  BY <1>10 DEF Bind
<1>11. ASSUME NEW h \in Handles, acquireWriteSemaphore(h) PROVE \A q \in Handles : AlonePlace(q)' => AlonePlace(q) \/ destroyClone(q)
  BY <1>11 DEF acquireWriteSemaphore
<1>12. ASSUME NEW h \in Handles, writeMessage(h) PROVE \A q \in Handles : AlonePlace(q)' => AlonePlace(q) \/ destroyClone(q)
  BY <1>12 DEF writeMessage
<1>13. ASSUME NEW h \in Handles, Answered(h) PROVE \A q \in Handles : AlonePlace(q)' => AlonePlace(q) \/ destroyClone(q)
  BY <1>13 DEF Answered
<1>14. ASSUME NEW c \in Connections, Lose(c) PROVE \A q \in Handles : AlonePlace(q)' => AlonePlace(q) \/ destroyClone(q)
  BY <1>14 DEF Lose
<1>15. CASE UNCHANGED vars
  BY <1>15 DEF vars
<1> QED
  BY <1>1, <1>2, <1>3, <1>4, <1>5, <1>6, <1>7, <1>8, <1>9, <1>10, <1>11, <1>12, <1>13, <1>14,
     <1>15 DEF Next, Step

\* Nobody joins who is alone.
LEMMA AloneStays ==
  ASSUME SharingInv, [Next]_vars, NEW h \in Handles,
         at[h] \notin {"unborn", "clone", "destroy"}, Users(Uses(h)) = {h}
  PROVE  Uses(h)' = Uses(h) /\ Users(Uses(h))' = {h}
<1> DEFINE c == Uses(h)
<1>1. CASE Stays
  BY <1>1 DEF Stays, Users
<1>2. ASSUME NEW p \in Handles, Joins(p) PROVE Uses(h)' = Uses(h) /\ Users(Uses(h))' = {h}
  <2>1. at[p] = "clone" /\ p # h /\ conn[p] # c /\ conn[p] \in Connections
    BY <1>2, JoinedUsers DEF Joins, incrCloneCount
  <2>2. /\ newClone[p] # h /\ newClone[p] \in Handles
        /\ \A q \in Handles : Uses(q)' = IF q = newClone[p] THEN conn[p] ELSE Uses(q)
    <3>1. Uses(newClone[p]) = None /\ newClone[p] \in Handles
      BY <1>2, JoinedUsers
    <3>2. c # None
      BY SharingAssumption DEF Uses, SharingInv, Inv, TypeOK, Shape
    <3> QED
      BY <1>2, <3>1, <3>2 DEF Joins
  <2> QED
    BY <2>1, <2>2 DEF Users
<1>3. ASSUME NEW p \in Handles, NEW f \in Connections, Leaves(p, f)
      PROVE  Uses(h)' = Uses(h) /\ Users(Uses(h))' = {h}
  <2>1. p # h /\ f # c
    BY <1>3, OthersStay DEF Leaves, destroyClone
  <2>2. \A q \in Handles : Uses(q)' = IF q = p THEN f ELSE Uses(q)
    BY <1>3 DEF Leaves
  <2>3. Uses(p) # c
    BY <2>1 DEF Users
  <2> QED
    BY <2>1, <2>2, <2>3 DEF Users
<1> QED
  BY <1>1, <1>2, <1>3, UsesStep

LEMMA AlonePreserved ==
  ASSUME SharingInv, [Next]_vars
  PROVE  Alone'
<1> SUFFICES ASSUME NEW h \in Handles, AlonePlace(h)'
             PROVE  Users(Uses(h))' = {h}
  BY DEF Alone, AlonePlace
<1>1. CASE AlonePlace(h)
  <2>1. Users(Uses(h)) = {h} /\ at[h] \notin {"unborn", "clone", "destroy"}
    BY <1>1 DEF SharingInv, Alone, AlonePlace, AtTheSocket
  <2> QED
    BY <2>1, AloneStays
<1>2. CASE destroyClone(h)
  <2>1. CASE LeaveShared(h, conn[h])
    <3>1. PICK f \in Connections : Fresh(f) /\ result' = [result EXCEPT ![h] = f]
      BY <2>1 DEF LeaveShared
    <3>2. Leaves(h, f)
      BY <1>2, <2>1, <3>1, SharingAssumption, ZenonT(40)
         DEF destroyClone, LeaveShared, Leaves, Uses, Goto, SharingInv, Inv, TypeOK, Shape
    <3>3. Users(f)' = {h} /\ Uses(h)' = f
      BY <3>2, LeftUsers DEF Leaves
    <3> QED
      BY <3>3, Zenon
  <2>2. CASE LeaveAlone(h, conn[h])
    <3>1. at[h] = "destroy" /\ cloneCount[conn[h]] = 0
      BY <1>2, <2>2 DEF destroyClone, LeaveAlone
    <3>2. Uses(h) = conn[h] /\ conn[h] \in Connections /\ h \in Users(conn[h])
      BY <3>1 DEF Uses, Users, SharingInv, Inv, TypeOK, Shape
    <3>3. \A q \in Handles : Uses(q)' = Uses(q)
      BY <1>2, <2>2, SharingAssumption
         DEF destroyClone, LeaveAlone, Uses, Goto, SharingInv, Inv, TypeOK, Shape
    <3>4. Cardinality(Users(conn[h])) - 1 = 0 /\ Cardinality(Users(conn[h])) \in Nat
      BY <3>1, <3>2, UsersFinite, FS_CardinalityType DEF SharingInv, Inv, UsersCounted
    <3>5. Cardinality(Users(conn[h])) = 1
      BY <3>4
    <3>6. PICK x : Users(conn[h]) = {x}
      BY <3>5, UsersFinite, FS_Singleton, Zenon
    <3>7. Users(conn[h]) = {h}
      BY <3>2, <3>6
    <3> QED
      BY <3>2, <3>3, <3>7 DEF Users
  <2> QED
    BY <1>2, <2>1, <2>2 DEF destroyClone
<1> QED
  BY <1>1, <1>2, AlonePlaces

LEMMA InitSharing == Init => SharingInv
<1> SUFFICES ASSUME Init PROVE SharingInv
  OBVIOUS
<1> USE SharingAssumption
<1>1. PICK c \in Connections : conn = [h \in Handles |-> IF h = Original THEN c ELSE None]
  BY DEF Init
<1>2. TypeOK /\ Shape /\ OwnersAtWork /\ Alone
  BY DEF Init, TypeOK, Shape, OwnersAtWork, Alone, AtTheSocket, Places
<1>3. \A d \in Connections : Users(d) = IF d = c THEN {Original} ELSE {}
  BY <1>1 DEF Init, Users, Uses
<1>4. UnusedIsFresh
  BY <1>1, <1>3 DEF Init, UnusedIsFresh, Fresh
<1>5. UsersCounted
  <2>1. Cardinality({Original}) = 1
    BY FS_Singleton
  <2>2. ASSUME NEW d \in Connections
        PROVE  cloneCount[d] = IF Users(d) = {} THEN 0 ELSE Cardinality(Users(d)) - 1
    <3>1. CASE d = c
      <4>1. Cardinality(Users(d)) = Cardinality({Original})
        BY <1>3, <3>1, Zenon
      <4> QED
        BY <2>1, <4>1 DEF Init
    <3>2. CASE d # c
      BY <1>3, <3>2 DEF Init
    <3> QED
      BY <3>1, <3>2
  <2> QED
    BY <2>2 DEF UsersCounted
<1> QED
  BY <1>2, <1>4, <1>5 DEF SharingInv, Inv

LEMMA SharingPreserved == SharingInv /\ [Next]_vars => SharingInv'
BY TypesPreserved, ShapePreserved, OwnersPreserved, CountPreserved, UnusedPreserved,
   AlonePreserved DEF SharingInv, Inv

\* The types are right, and whoever cloned, connected, disconnected or lost what in
\* between, cloneCount is one less than the number of LdapConnections that use the
\* Connection.
THEOREM Counted == Spec => []Inv
<1>1. SharingInv => Inv
  BY DEF SharingInv
<1> QED
  BY InitSharing, SharingPreserved, <1>1, PTL DEF Spec

\* Who closes a socket, or opens one in order to connect, shares its Connection
\* with nobody, and waits for no bind of another thread.
LEMMA AloneIsAlone == SharingInv => AloneAtTheSocket
<1> SUFFICES ASSUME SharingInv, NEW h \in Handles, AtTheSocket(h)
             PROVE  Users(conn[h]) = {h} /\ semaphore[conn[h]] \notin Handles \ {h}
  BY DEF AloneAtTheSocket
<1> USE DEF SharingInv, Inv, TypeOK, Shape
<1>1. Uses(h) = conn[h] /\ conn[h] \in Connections
  BY DEF Uses, AtTheSocket
<1>2. Users(conn[h]) = {h}
  BY <1>1 DEF Alone
<1>3. ASSUME semaphore[conn[h]] \in Handles PROVE semaphore[conn[h]] = h
  <2>1. PICK p \in Handles : p = semaphore[conn[h]]
    BY <1>3
  <2>2. conn[p] = conn[h] /\ at[p] \in {"open", "start", "write", "answer"}
    BY <1>1, <2>1 DEF OwnersAtWork
  <2>3. Uses(p) = conn[h]
    BY <2>2 DEF Uses
  <2> QED
    BY <1>2, <2>1, <2>3 DEF Users
<1> QED
  BY <1>2, <1>3

\* Whoever opens or closes a socket in connect or disconnect is the only one that uses
\* that Connection, and its semaphore is not with a bind of somebody else.
THEOREM AloneThere == Spec => []AloneAtTheSocket
BY InitSharing, SharingPreserved, AloneIsAlone, PTL DEF Spec

-----------------------------------------------------------------------------
\* The sharers and the sockets of SharedSocket.
Sharers == [c \in Connections |-> Users(c)]

SharingStep ==
  [Sharing!SharingNext \/ \E c \in Connections : Lose(c) /\ Sharing!CutOff(c)]_<<Sharers, streams>>

LEMMA InitImplements == Init => Sharing!SharingInit
<1> SUFFICES ASSUME Init PROVE Sharing!SharingInit
  OBVIOUS
<1>1. PICK c \in Connections : conn = [h \in Handles |-> IF h = Original THEN c ELSE None]
  BY DEF Init
<1>2. \A d \in Connections : Users(d) = IF d = c THEN {Original} ELSE {}
  BY <1>1, SharingAssumption DEF Init, Users, Uses
<1>3. Sharers = [d \in Connections |-> IF d = c THEN {Original} ELSE {}]
  BY <1>2 DEF Sharers
<1> QED
  BY <1>3, SharingAssumption DEF Sharing!SharingInit, Init, Sharers

\* A clone that is counted joins.
LEMMA JoinImplements ==
  ASSUME SharingInv, NEW h \in Handles, Joins(h)
  PROVE  Sharing!Join(conn[h])
<1>1. /\ conn[h] \in Connections /\ h \in Users(conn[h])
      /\ newClone[h] \in Handles /\ Uses(newClone[h]) = None
      /\ \A c \in Connections :
           Users(c)' = IF c = conn[h] THEN Users(c) \cup {newClone[h]} ELSE Users(c)
  BY JoinedUsers
<1>2. Sharers' = [Sharers EXCEPT ![conn[h]] = @ \cup {newClone[h]}]
  BY <1>1 DEF Sharers
<1>3. newClone[h] \in Handles \ UNION {Sharers[t] : t \in Connections}
  BY <1>1, SharingAssumption DEF Sharers, Users
<1>4. Sharers[conn[h]] # {}
  BY <1>1 DEF Sharers
<1>5. UNCHANGED streams
  BY DEF Joins, incrCloneCount
<1> QED
  BY <1>2, <1>3, <1>4, <1>5 DEF Sharing!Join, Sharers

\* destroyClone with clones leaves them the socket.
LEMMA LeaveImplements ==
  ASSUME SharingInv, NEW h \in Handles, NEW f \in Connections, Leaves(h, f)
  PROVE  Sharing!Leave(h, conn[h])
<1>1. /\ conn[h] \in Connections /\ h \in Users(conn[h]) /\ f # conn[h]
      /\ Users(conn[h]) # {h} /\ Users(f) = {}
  BY OthersStay
<1>2. \A c \in Connections : Users(c)' = IF c = conn[h] THEN Users(c) \ {h}
                                         ELSE IF c = f THEN {h} ELSE Users(c)
  BY LeftUsers
<1>3. Sharers' = [Sharers EXCEPT ![conn[h]] = @ \ {h}, ![f] = {h}]
  BY <1>1, <1>2 DEF Sharers
<1>4. ~streams[f]
  BY <1>1 DEF SharingInv, UnusedIsFresh
<1>5. h \in Sharers[conn[h]] /\ Sharers[conn[h]] # {h} /\ Sharers[f] = {}
  BY <1>1 DEF Sharers
<1>6. UNCHANGED streams
  BY DEF Leaves, destroyClone
<1> QED
  BY <1>3, <1>4, <1>5, <1>6 DEF Sharing!Leave, Sharers

LEMMA StepImplements ==
  ASSUME SharingInv, [Next]_vars
  PROVE  SharingStep
<1> USE DEF SharingInv, Inv, TypeOK, Shape
<1>1. ASSUME NEW h \in Handles, Joins(h) PROVE SharingStep
  <2>1. conn[h] \in Connections /\ Sharing!Join(conn[h])
    BY <1>1, JoinedUsers, JoinImplements
  <2> QED
    BY <2>1 DEF SharingStep, Sharing!SharingNext
<1>2. ASSUME NEW h \in Handles, NEW f \in Connections, Leaves(h, f) PROVE SharingStep
  <2>1. conn[h] \in Connections /\ Sharing!Leave(h, conn[h])
    BY <1>2, OthersStay, LeaveImplements
  <2> QED
    BY <2>1 DEF SharingStep, Sharing!SharingNext
<1>3. CASE Stays
  <2>0. Sharers' = Sharers
    BY <1>3 DEF Stays, Sharers, Users
  <2>1. ASSUME NEW h \in Handles, Open(h) PROVE SharingStep
    <3>1. /\ conn[h] \in Connections /\ h \in Users(conn[h])
          /\ streams' = [streams EXCEPT ![conn[h]] = TRUE]
      BY <2>1 DEF Open, Users, Uses
    <3>2. Sharing!Open(conn[h])
      BY <2>0, <3>1 DEF Sharing!Open, Sharers
    <3> QED
      BY <3>1, <3>2 DEF SharingStep, Sharing!SharingNext
  <2>2. ASSUME NEW h \in Handles, Dispose(h) PROVE SharingStep
    <3>1. conn[h] \in Connections /\ streams' = [streams EXCEPT ![conn[h]] = FALSE]
      BY <2>2 DEF Dispose
    <3>2. Users(conn[h]) = {h}
      BY <2>2, AloneIsAlone DEF Dispose, AloneAtTheSocket, AtTheSocket
    <3>3. Sharing!Close(h, conn[h])
      BY <2>0, <3>1, <3>2 DEF Sharing!Close, Sharers
    <3> QED
      BY <3>1, <3>3 DEF SharingStep, Sharing!SharingNext
  <2>3. ASSUME NEW c \in Connections, Lose(c) PROVE SharingStep
    <3>1. Sharing!CutOff(c)
      BY <2>0, <2>3 DEF Lose, Sharing!CutOff, Sharers
    <3> QED
      BY <2>3, <3>1 DEF SharingStep
  <2>4. \/ \E h \in Handles : Open(h) \/ Dispose(h)
        \/ \E c \in Connections : Lose(c)
        \/ UNCHANGED streams
    BY DEF Next, Step, Clone, Begin, incrCloneCount, destroyClone, Assign, OpenFails, startReader,
       Bind, acquireWriteSemaphore, writeMessage, Answered, vars
  <2> QED
    BY <2>0, <2>1, <2>2, <2>3, <2>4 DEF SharingStep
<1> QED
  BY <1>1, <1>2, <1>3, UsesStep

\* The clones of an LdapConnection implement SharedSocket: the socket they share is
\* closed by the last of them or by its peer, and who leaves before gets a place of
\* its own.
THEOREM Implements == Spec => ImplementsSharing
<1>1. SharingInv /\ [Next]_vars => SharingStep
  BY StepImplements
<1>2. Init => Sharing!SharingInit
  BY InitImplements
<1> QED
  BY InitSharing, SharingPreserved, <1>1, <1>2, PTL DEF Spec, ImplementsSharing, SharingStep,
     Sharers
=============================================================================
