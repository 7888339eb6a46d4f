------------------------------ MODULE MCHashSet ------------------------------
(***************************************************************************)
(* The set under the filter that uses it.  After the static constructor    *)
(* two threads race to add the same or different languages while a third   *)
(* serves requests.                                                        *)
(***************************************************************************)
EXTENDS LinguaFilter

CONSTANTS t1, t2, t3, de, en, rm, default

MCThreads == {t1, t2, t3}
MCItems == {de, en, rm, default}
MCSupported == {de, default}
MCHeaders == {<<>>, <<en, de>>, <<rm, en>>}
=============================================================================
