---------------------------- MODULE GrowOnlySet ----------------------------
(***************************************************************************)
(* What NonLockingThreadSafeHashSet<T> promises its users: one set that    *)
(* every thread sees, to which elements are added one at a time and from   *)
(* which nothing is ever taken.  An Add takes effect in one step.          *)
(***************************************************************************)
CONSTANT Items       \* the elements, one per class of the IEqualityComparer

VARIABLE contents    \* the elements of the set

TypeOK == contents \in SUBSET Items

Init == contents = {}

Add(s) == contents' = contents \cup {s}

Next == \E s \in Items : Add(s)

Spec == Init /\ [][Next]_contents
=============================================================================
