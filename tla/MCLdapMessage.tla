--------------------------- MODULE MCLdapMessage ---------------------------
(***************************************************************************)
(* One request with one or two answers.  Two answers, an entry and the     *)
(* result, meet every order of the five threads' steps; what a thread does *)
(* for the second entry it does for all that follow.                       *)
(***************************************************************************)
EXTENDS MessageAsQueue

AllOthers == {"timer", "abandoner", "closer"}
=============================================================================
