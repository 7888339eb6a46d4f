-------------------- MODULE NonLockingThreadSafeHashSet --------------------
(***************************************************************************)
(* The copy-on-write set of AuthTest/Code/Routing/NoLockCol.cs, shared by  *)
(* all request threads through LanguageConfiguration.s_hs.  No lock is     *)
(* taken: Add copies the set it reads, adds to the copy, and swaps the     *)
(* copy in with Interlocked.CompareExchange unless another thread swapped  *)
(* first, in which case it starts again.  Contains reads the field and     *)
(* looks into the set it got.                                              *)
(*                                                                         *)
(* CompareExchange compares references, so sets live in a heap: the        *)
(* reference of an object is its index.  Objects are never freed here; the *)
(* garbage collector frees only what no thread refers to, so a reference a *)
(* thread holds is not reused.                                             *)
(***************************************************************************)
EXTENDS Naturals, Sequences

CONSTANTS Threads,   \* the threads that use the set
          Items,     \* the elements, one per class of m_comparer
          MaxAdds    \* bound: calls of Add in a behaviour

ASSUME MaxAddsAssumption == MaxAdds \in Nat

VARIABLES
  heap,        \* the HashSet<T> objects, indexed by reference
  collection,  \* the field `collection`: a reference
  pc,          \* where each thread is
  original,    \* local `original` of Add; the reference Contains read
  copy,        \* local `copy` of Add
  arg,         \* the argument of the call in progress
  adds,        \* calls of Add so far
  added,       \* history: the elements whose Add has returned
  mustSee,     \* history: `added` when the Contains in progress was called
  result       \* what the last Contains of each thread returned

vars == <<heap, collection, pc, original, copy, arg, adds, added, mustSee, result>>

PCs == {"idle", "read", "copy", "cas", "contains", "look"}

\* The content every new reader sees.
Current == heap[collection]

Init ==
  /\ heap = << {} >>
  /\ collection = 1
  /\ pc = [t \in Threads |-> "idle"]
  /\ original = [t \in Threads |-> 1]
  /\ copy = [t \in Threads |-> 1]
  /\ arg \in [Threads -> Items]
  /\ adds = 0
  /\ added = {}
  /\ mustSee = [t \in Threads |-> {}]
  /\ result = [t \in Threads |-> FALSE]

-----------------------------------------------------------------------------
\* The locals of a call go out of scope when it returns.
LocalsDie(t) ==
  /\ original' = [original EXCEPT ![t] = 1]
  /\ copy' = [copy EXCEPT ![t] = 1]

AddCall(t, s) ==
  /\ pc[t] = "idle"
  /\ adds < MaxAdds
  /\ adds' = adds + 1
  /\ arg' = [arg EXCEPT ![t] = s]
  /\ pc' = [pc EXCEPT ![t] = "read"]
  /\ UNCHANGED <<heap, collection, original, copy, added, mustSee, result>>

\* original = CompareExchange(ref collection, null, null)
VolatileRead(t) ==
  /\ pc[t] = "read"
  /\ original' = [original EXCEPT ![t] = collection]
  /\ pc' = [pc EXCEPT ![t] = "copy"]
  /\ UNCHANGED <<heap, collection, copy, arg, adds, added, mustSee, result>>

\* MUTANT: the element is added to the shared set itself, without a copy.
AddInPlace(t) ==
  /\ pc[t] = "copy"
  /\ heap' = [heap EXCEPT ![original[t]] = @ \cup {arg[t]}]
  /\ copy' = [copy EXCEPT ![t] = original[t]]
  /\ pc' = [pc EXCEPT ![t] = "cas"]
  /\ UNCHANGED <<collection, original, arg, adds, added, mustSee, result>>

\* copy = new HashSet<T>(original, m_comparer); copy.Add(s)
CopyAndAdd(t) ==
  /\ pc[t] = "copy"
  /\ heap' = Append(heap, heap[original[t]] \cup {arg[t]})
  /\ copy' = [copy EXCEPT ![t] = Len(heap) + 1]
  /\ pc' = [pc EXCEPT ![t] = "cas"]
  /\ UNCHANGED <<collection, original, arg, adds, added, mustSee, result>>

\* MUTANT: a plain store instead of CompareExchange.
StoreWithoutComparing(t) ==
  /\ pc[t] = "cas"
  /\ collection' = copy[t]
  /\ added' = added \cup {arg[t]}
  /\ pc' = [pc EXCEPT ![t] = "idle"]
  /\ LocalsDie(t)
  /\ UNCHANGED <<heap, arg, adds, mustSee, result>>

\* CompareExchange(ref collection, copy, original) found `original`: the copy
\* is published and Add returns.
SwapSucceeds(t) ==
  /\ pc[t] = "cas"
  /\ collection = original[t]
  /\ collection' = copy[t]
  /\ added' = added \cup {arg[t]}
  /\ pc' = [pc EXCEPT ![t] = "idle"]
  /\ LocalsDie(t)
  /\ UNCHANGED <<heap, arg, adds, mustSee, result>>

\* MUTANT: the loop repeats the swap only, with the reference it read first.
SpinOnSwap(t) ==
  /\ pc[t] = "cas"
  /\ collection # original[t]
  /\ UNCHANGED vars

\* Outraced by another thread: the loop starts again.
SwapFails(t) ==
  /\ pc[t] = "cas"
  /\ collection # original[t]
  /\ pc' = [pc EXCEPT ![t] = "read"]
  /\ UNCHANGED <<heap, collection, original, copy, arg, adds, added, mustSee, result>>

ContainsCall(t, s) ==
  /\ pc[t] = "idle"
  /\ arg' = [arg EXCEPT ![t] = s]
  /\ mustSee' = [mustSee EXCEPT ![t] = added]
  /\ pc' = [pc EXCEPT ![t] = "contains"]
  /\ UNCHANGED <<heap, collection, original, copy, adds, added, result>>

\* MUTANT: the reader keeps using the set it saw when it started.
ReadFirstSet(t) ==
  /\ pc[t] = "contains"
  /\ original' = [original EXCEPT ![t] = 1]
  /\ pc' = [pc EXCEPT ![t] = "look"]
  /\ UNCHANGED <<heap, collection, copy, arg, adds, added, mustSee, result>>

\* Contains and the indexer read this.collection ...
ContainsRead(t) ==
  /\ pc[t] = "contains"
  /\ original' = [original EXCEPT ![t] = collection]
  /\ pc' = [pc EXCEPT ![t] = "look"]
  /\ UNCHANGED <<heap, collection, copy, arg, adds, added, mustSee, result>>

\* ... and look into the object they got, whatever the field is by now.
ContainsReturn(t) ==
  /\ pc[t] = "look"
  /\ result' = [result EXCEPT ![t] = arg[t] \in heap[original[t]]]
  /\ pc' = [pc EXCEPT ![t] = "idle"]
  /\ mustSee' = [mustSee EXCEPT ![t] = {}]
  /\ LocalsDie(t)
  /\ UNCHANGED <<heap, collection, arg, adds, added>>

AddStep(t) == VolatileRead(t) \/ CopyAndAdd(t) \/ SwapSucceeds(t) \/ SwapFails(t)

ContainsStep(t) == ContainsRead(t) \/ ContainsReturn(t)

Next ==
  \E t \in Threads :
    \/ \E s \in Items : AddCall(t, s) \/ ContainsCall(t, s)
    \/ AddStep(t)
    \/ ContainsStep(t)

Spec == Init /\ [][Next]_vars

\* A thread inside Add or Contains is scheduled again: neither ever blocks.
FairSpec == Spec /\ \A t \in Threads : WF_vars(AddStep(t)) /\ WF_vars(ContainsStep(t))

-----------------------------------------------------------------------------
TypeOK ==
  /\ heap \in Seq(SUBSET Items)
  /\ collection \in 1..Len(heap)
  /\ pc \in [Threads -> PCs]
  /\ original \in [Threads -> 1..Len(heap)]
  /\ copy \in [Threads -> 1..Len(heap)]
  /\ arg \in [Threads -> Items]
  /\ adds \in 0..MaxAdds
  /\ added \in SUBSET Items
  /\ mustSee \in [Threads -> SUBSET Items]
  /\ result \in [Threads -> BOOLEAN]

\* No Add is lost: once Add(s) has returned, s is in the set every later
\* reader gets, however many threads raced with it (NoLockCol.cs, Add).
NoLostAdd == added \subseteq Current

\* A Contains that began after Add(s) returned does not answer FALSE for s,
\* although it reads the field without a barrier and looks up later.
ReadsCompletedAdds ==
  [][\A t \in Threads :
       pc[t] = "look" /\ pc'[t] = "idle" /\ arg[t] \in mustSee[t] => result'[t]]_vars

\* A set that was ever visible to a reader is not changed by anyone: Add works
\* on a private copy, which is why Contains needs no lock.
SnapshotsImmutable ==
  [][\A r \in DOMAIN heap : r \in DOMAIN heap' /\ heap'[r] = heap[r]]_vars

\* Every Add returns: a lost race means another thread's Add got through, so
\* with finitely many calls no thread loses for ever.
AddReturns ==
  \A t \in Threads : pc[t] \in {"read", "copy", "cas"} ~> pc[t] = "idle"

\* The class implements the set it promises: the abstract content is the
\* object the field refers to, and the swap is where an Add takes effect.
Abstract == INSTANCE GrowOnlySet WITH contents <- Current

ImplementsGrowOnlySet == Abstract!Spec

-----------------------------------------------------------------------------
\* What the steps of Add keep true of the private copy, so that NoLostAdd is
\* inductive: nothing can be lost between the read and the swap, because a
\* swap that succeeds found the very object the copy was made from.
CopyIsOriginalPlusArg ==
  \A t \in Threads :
    pc[t] = "cas" => heap[copy[t]] = heap[original[t]] \cup {arg[t]}

Inv == TypeOK /\ CopyIsOriginalPlusArg /\ NoLostAdd
=============================================================================
