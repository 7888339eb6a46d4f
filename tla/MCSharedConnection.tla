------------------------- MODULE MCSharedConnection -------------------------
(***************************************************************************)
(* Three threads make the cases of the last clone, of one that is not the  *)
(* last, and of one that looks on; each may end up with a Connection of    *)
(* its own, and no more Connections are ever in use than LdapConnections.  *)
(* Clones are made alike, and so are Connections; the properties name none *)
(* of them.                                                                *)
(***************************************************************************)
EXTENDS SharedConnection, TLC

Alike == Permutations(Handles \ {Original}) \cup Permutations(Connections)
=============================================================================
