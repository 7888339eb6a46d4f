--------------------------- MODULE MCReaderThread ---------------------------
(***************************************************************************)
(* The hazards of a reader that is late need two readers, and a third to   *)
(* meet what the second left; two sockets tell an old connection from a    *)
(* new one.                                                                *)
(***************************************************************************)
EXTENDS ReaderThread
=============================================================================
