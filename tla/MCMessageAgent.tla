--------------------------- MODULE MCMessageAgent ---------------------------
(***************************************************************************)
(* Queues, requests without a time limit and readers are interchangeable:  *)
(* no action tells one from another.  The runs check invariants only.      *)
(***************************************************************************)
EXTENDS MessageAgent

AnyQueue == Permutations(Queues)
Anyone == Permutations(Requests) \cup Permutations(Readers)
=============================================================================
