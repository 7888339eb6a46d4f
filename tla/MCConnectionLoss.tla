-------------------------- MODULE MCConnectionLoss --------------------------
(***************************************************************************)
(* One bind and one other request, which join the list in either order: so *)
(* the request that Dispose removes may be another than the one it read,   *)
(* and either of them may join the list after it was emptied.              *)
(***************************************************************************)
EXTENDS ConnectionLoss
=============================================================================
