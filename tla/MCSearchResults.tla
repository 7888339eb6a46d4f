-------------------------- MODULE MCSearchResults --------------------------
(***************************************************************************)
(* Three answers before the result and batches of one (the default), two   *)
(* and all: a batch is cut short, filled exactly and left half read.       *)
(***************************************************************************)
EXTENDS LdapSearchResults

Sizes == {0, 1, 2}
NotFollowing == {FALSE}
=============================================================================
