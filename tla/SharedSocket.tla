---------------------------- MODULE SharedSocket ----------------------------
(***************************************************************************)
(* What cloning an LdapConnection promises: its clones share a socket,     *)
(* which is closed by the last of them and by nobody else; who leaves gets *)
(* a place of its own.                                                     *)
(***************************************************************************)
CONSTANTS Parties, Sockets

VARIABLES sharers, open

SharingInit ==
  /\ \E u \in Parties, s \in Sockets :
       sharers = [t \in Sockets |-> IF t = s THEN {u} ELSE {}]
  /\ open = [s \in Sockets |-> FALSE]

Join(s) ==
  /\ sharers[s] # {}
  /\ \E v \in Parties \ UNION {sharers[t] : t \in Sockets} :
       sharers' = [sharers EXCEPT ![s] = @ \cup {v}]
  /\ UNCHANGED open

Leave(u, s) ==
  /\ u \in sharers[s] /\ sharers[s] # {u}
  /\ \E t \in Sockets :
       /\ sharers[t] = {} /\ ~open[t]
       /\ sharers' = [sharers EXCEPT ![s] = @ \ {u}, ![t] = {u}]
  /\ UNCHANGED open

Open(s) ==
  /\ sharers[s] # {}
  /\ open' = [open EXCEPT ![s] = TRUE]
  /\ UNCHANGED sharers

Close(u, s) ==
  /\ sharers[s] = {u}
  /\ open' = [open EXCEPT ![s] = FALSE]
  /\ UNCHANGED sharers

\* By the peer.
CutOff(s) ==
  /\ open' = [open EXCEPT ![s] = FALSE]
  /\ UNCHANGED sharers

SharingNext ==
  \/ \E s \in Sockets : Join(s) \/ Open(s)
  \/ \E u \in Parties, s \in Sockets : Leave(u, s) \/ Close(u, s)
=============================================================================
