---------------------------- MODULE HashSetProofs ----------------------------
(***************************************************************************)
(* Proofs about NonLockingThreadSafeHashSet, and about the filter that     *)
(* chooses a language by it, for any number of threads, any elements, any  *)
(* headers and any bound on the calls of Add.                              *)
(***************************************************************************)
EXTENDS LinguaFilter, TLAPS

\* One step of one thread, by name.
Step(t) ==
  \/ \E s \in Items : AddCall(t, s)
  \/ \E s \in Items : ContainsCall(t, s)
  \/ VolatileRead(t)
  \/ CopyAndAdd(t)
  \/ SwapSucceeds(t)
  \/ SwapFails(t)
  \/ ContainsRead(t)
  \/ ContainsReturn(t)

\* Next is a step of some thread.
LEMMA NextIsStep == Next => \E t \in Threads : Step(t)
BY DEF Next, Step, AddStep, ContainsStep

\* Appending to the heap allocates a new reference and keeps the old objects:
\* the only change Add makes to the heap (NoLockCol.cs, the copy in Add).
LEMMA HeapGrows ==
  ASSUME NEW h \in Seq(SUBSET Items), NEW s \in SUBSET Items
  PROVE  /\ Append(h, s) \in Seq(SUBSET Items)
         /\ Len(Append(h, s)) = Len(h) + 1
         /\ Len(h) \in Nat
         /\ \A r \in 1..Len(h) : Append(h, s)[r] = h[r] /\ h[r] \in SUBSET Items
         /\ Append(h, s)[Len(h) + 1] = s
OBVIOUS

LEMMA InitInv == Init => Inv
<1> SUFFICES ASSUME Init PROVE Inv
  OBVIOUS
<1> USE MaxAddsAssumption
<1>1. TypeOK
  BY DEF Init, TypeOK, PCs
<1>2. CopyIsOriginalPlusArg
  BY DEF Init, CopyIsOriginalPlusArg
<1>3. NoLostAdd
  BY DEF Init, NoLostAdd
<1>4. QED
  BY <1>1, <1>2, <1>3 DEF Inv

\* Every step keeps every variable in its type.
LEMMA TypePreserved == ASSUME TypeOK, [Next]_vars PROVE TypeOK'
<1> USE MaxAddsAssumption DEF TypeOK, PCs
<1>1. ASSUME NEW t \in Threads, NEW s \in Items, AddCall(t, s) PROVE TypeOK'
  BY <1>1 DEF AddCall
<1>2. ASSUME NEW t \in Threads, NEW s \in Items, ContainsCall(t, s) PROVE TypeOK'
  BY <1>2 DEF ContainsCall
<1>3. ASSUME NEW t \in Threads, VolatileRead(t) PROVE TypeOK'
  BY <1>3 DEF VolatileRead
<1>4. ASSUME NEW t \in Threads, CopyAndAdd(t) PROVE TypeOK'
  <2> DEFINE s == heap[original[t]] \cup {arg[t]}
  <2>1. s \in SUBSET Items
    OBVIOUS
  <2>2. /\ heap' \in Seq(SUBSET Items)
        /\ Len(heap') = Len(heap) + 1
    BY <1>4, <2>1, HeapGrows DEF CopyAndAdd
  <2>3. 1..Len(heap) \subseteq 1..Len(heap') /\ Len(heap) + 1 \in 1..Len(heap')
    BY <2>2, HeapGrows
  <2> QED
    BY <1>4, <2>2, <2>3 DEF CopyAndAdd
<1>5. ASSUME NEW t \in Threads, SwapSucceeds(t) PROVE TypeOK'
  BY <1>5 DEF SwapSucceeds, LocalsDie
<1>6. ASSUME NEW t \in Threads, SwapFails(t) PROVE TypeOK'
  BY <1>6 DEF SwapFails
<1>7. ASSUME NEW t \in Threads, ContainsRead(t) PROVE TypeOK'
  BY <1>7 DEF ContainsRead
<1>8. ASSUME NEW t \in Threads, ContainsReturn(t) PROVE TypeOK'
  BY <1>8 DEF ContainsReturn, LocalsDie
<1>9. CASE UNCHANGED vars
  BY <1>9 DEF vars
<1>10. QED
  BY <1>1, <1>2, <1>3, <1>4, <1>5, <1>6, <1>7, <1>8, <1>9, NextIsStep DEF Step

\* Objects once allocated keep their content in every step.
LEMMA OldObjectsKept ==
  ASSUME TypeOK, [Next]_vars
  PROVE  \A r \in 1..Len(heap) : r \in 1..Len(heap') /\ heap'[r] = heap[r]
<1>1. ASSUME NEW t \in Threads, CopyAndAdd(t)
      PROVE  \A r \in 1..Len(heap) : r \in 1..Len(heap') /\ heap'[r] = heap[r]
  BY <1>1, HeapGrows DEF CopyAndAdd, TypeOK
<1>2. ASSUME UNCHANGED heap
      PROVE  \A r \in 1..Len(heap) : r \in 1..Len(heap') /\ heap'[r] = heap[r]
  BY <1>2
<1>3. (\E t \in Threads : CopyAndAdd(t)) \/ UNCHANGED heap
  BY NextIsStep DEF Step, vars, AddCall, ContainsCall, VolatileRead, SwapSucceeds,
     SwapFails, ContainsRead, ContainsReturn
<1>4. QED
  BY <1>1, <1>2, <1>3

\* An object's elements, and those of every object a thread holds, are read
\* from the unchanged part of the heap after any step.
LEMMA CopyPreserved ==
  ASSUME Inv, [Next]_vars
  PROVE  CopyIsOriginalPlusArg'
<1> USE DEF Inv
<1>0. \A r \in 1..Len(heap) : heap'[r] = heap[r]
  BY OldObjectsKept
<1> SUFFICES ASSUME NEW u \in Threads, pc'[u] = "cas"
             PROVE  heap'[copy'[u]] = heap'[original'[u]] \cup {arg'[u]}
  BY DEF CopyIsOriginalPlusArg
<1>1. CASE /\ pc[u] = "cas"
           /\ UNCHANGED <<original[u], copy[u], arg[u]>>
  BY <1>0, <1>1 DEF CopyIsOriginalPlusArg, TypeOK
<1>2. CASE CopyAndAdd(u)
  <2>1. heap[original[u]] \cup {arg[u]} \in SUBSET Items
    BY HeapGrows DEF TypeOK
  <2>2. heap'[copy'[u]] = heap[original[u]] \cup {arg[u]}
    BY <1>2, <2>1, HeapGrows DEF CopyAndAdd, TypeOK
  <2>3. original'[u] = original[u] /\ arg'[u] = arg[u] /\ original[u] \in 1..Len(heap)
    BY <1>2 DEF CopyAndAdd, TypeOK
  <2>4. heap'[original[u]] = heap[original[u]]
    BY <1>0, <2>3
  <2> QED
    BY <2>2, <2>3, <2>4
<1>3. CopyAndAdd(u) \/ (pc[u] = "cas" /\ UNCHANGED <<original[u], copy[u], arg[u]>>)
  <2>1. ASSUME NEW t \in Threads, Step(t)
        PROVE  CopyAndAdd(u) \/ (pc[u] = "cas" /\ UNCHANGED <<original[u], copy[u], arg[u]>>)
    BY <2>1 DEF Step, TypeOK, AddCall, ContainsCall, VolatileRead, CopyAndAdd,
       SwapSucceeds, SwapFails, ContainsRead, ContainsReturn, LocalsDie
  <2>2. CASE UNCHANGED vars
    BY <2>2 DEF vars
  <2> QED
    BY <2>1, <2>2, NextIsStep
<1> QED
  BY <1>1, <1>2, <1>3

\* What a step does to the set readers get: a swap adds the caller's argument
\* to it, everything else leaves it alone.  The one place where the reference
\* comparison of CompareExchange is needed.
LEMMA SwapAddsArg ==
  ASSUME Inv, [Next]_vars
  PROVE  \/ UNCHANGED <<Current, added>>
         \/ \E t \in Threads : /\ Current' = Current \cup {arg[t]}
                              /\ added' = added \cup {arg[t]}
<1> USE DEF Inv, Current
<1>0. \A r \in 1..Len(heap) : heap'[r] = heap[r]
  BY OldObjectsKept
<1>1. ASSUME NEW t \in Threads, SwapSucceeds(t)
      PROVE  Current' = Current \cup {arg[t]} /\ added' = added \cup {arg[t]}
  <2>1. heap' = heap /\ collection' = copy[t] /\ collection = original[t]
    BY <1>1 DEF SwapSucceeds
  <2>2. heap[copy[t]] = heap[original[t]] \cup {arg[t]}
    BY <1>1 DEF SwapSucceeds, CopyIsOriginalPlusArg
  <2> QED
    BY <1>1, <2>1, <2>2 DEF SwapSucceeds
<1>2. ASSUME UNCHANGED <<collection, added>>
      PROVE  UNCHANGED <<Current, added>>
  BY <1>0, <1>2 DEF TypeOK
<1>3. (\E t \in Threads : SwapSucceeds(t)) \/ UNCHANGED <<collection, added>>
  BY NextIsStep DEF Step, vars, AddCall, ContainsCall, VolatileRead, CopyAndAdd,
     SwapFails, ContainsRead, ContainsReturn
<1> QED
  BY <1>1, <1>2, <1>3

LEMMA InvPreserved == ASSUME Inv, [Next]_vars PROVE Inv'
<1>1. TypeOK'
  BY TypePreserved DEF Inv
<1>2. CopyIsOriginalPlusArg'
  BY CopyPreserved
<1>3. NoLostAdd'
  BY SwapAddsArg DEF Inv, NoLostAdd
<1> QED
  BY <1>1, <1>2, <1>3 DEF Inv

-----------------------------------------------------------------------------
\* The types, the private copy and the published set stay consistent in every
\* behaviour of the class.
THEOREM Invariance == Spec => []Inv
<1>1. Inv /\ [Next]_vars => Inv'
  BY InvPreserved
<1> QED
  BY InitInv, <1>1, PTL DEF Spec

\* A set a reader holds never changes under it (NoLockCol.cs, Contains).
THEOREM ReadersNeedNoLock == Spec => SnapshotsImmutable
<1>1. Inv /\ [Next]_vars => [\A r \in DOMAIN heap : r \in DOMAIN heap' /\ heap'[r] = heap[r]]_vars
  <2> SUFFICES ASSUME Inv, [Next]_vars
               PROVE  \A r \in DOMAIN heap : r \in DOMAIN heap' /\ heap'[r] = heap[r]
    OBVIOUS
  <2>1. heap \in Seq(SUBSET Items) /\ heap' \in Seq(SUBSET Items)
    BY TypePreserved DEF Inv, TypeOK
  <2>2. DOMAIN heap = 1..Len(heap) /\ DOMAIN heap' = 1..Len(heap')
    BY <2>1
  <2> QED
    BY <2>2, OldObjectsKept DEF Inv
<1> QED
  BY Invariance, <1>1, PTL DEF Spec, SnapshotsImmutable

\* The class implements the set whose Add takes effect in one step.
THEOREM Refinement == Spec => ImplementsGrowOnlySet
<1>1. Init => Abstract!Init
  BY DEF Init, Abstract!Init, Current
<1>2. Inv /\ [Next]_vars => [Abstract!Next]_Current
  <2> SUFFICES ASSUME Inv, [Next]_vars PROVE [Abstract!Next]_Current
    OBVIOUS
  <2>1. \A t \in Threads : arg[t] \in Items
    BY DEF Inv, TypeOK
  <2> QED
    BY <2>1, SwapAddsArg DEF Abstract!Next, Abstract!Add
<1> QED
  BY Invariance, <1>1, <1>2, PTL DEF Spec, ImplementsGrowOnlySet, Abstract!Spec

-----------------------------------------------------------------------------
(* Readers.                                                                 *)

\* What a Contains has to see is in the object it got, and what is in that object is in
\* the set of every later reader.
LookInv ==
  \A t \in Threads :
    /\ pc[t] = "contains" => mustSee[t] \subseteq added
    /\ pc[t] = "look" => /\ mustSee[t] \subseteq heap[original[t]]
                         /\ heap[original[t]] \subseteq Current

\* A step is the step of one thread: the others stay where they are.
LEMMA OthersStay ==
  ASSUME TypeOK, NEW t \in Threads, Step(t)
  PROVE  \A u \in Threads \ {t} :
           /\ pc'[u] = pc[u] /\ original'[u] = original[u] /\ arg'[u] = arg[u]
           /\ mustSee'[u] = mustSee[u] /\ result'[u] = result[u]
BY DEF Step, TypeOK, AddCall, ContainsCall, VolatileRead, CopyAndAdd, SwapSucceeds,
   SwapFails, ContainsRead, ContainsReturn, LocalsDie

\* Where a step takes its thread, and what it does to its Contains.
LEMMA OwnStep ==
  ASSUME TypeOK, NEW t \in Threads, Step(t)
  PROVE  \/ /\ pc[t] \notin {"contains", "look"} /\ pc'[t] \notin {"contains", "look"}
            /\ result'[t] = result[t]
         \/ /\ pc[t] = "idle" /\ pc'[t] = "contains" /\ mustSee'[t] = added
            /\ result'[t] = result[t] /\ added' = added
         \/ /\ pc[t] = "contains" /\ pc'[t] = "look" /\ arg'[t] = arg[t]
            /\ mustSee'[t] = mustSee[t] /\ original'[t] = collection
            /\ heap' = heap /\ collection' = collection
         \/ /\ pc[t] = "look" /\ pc'[t] = "idle"
            /\ result'[t] = (arg[t] \in heap[original[t]])
<1>1. CASE (\E s \in Items : AddCall(t, s)) \/ VolatileRead(t) \/ CopyAndAdd(t)
           \/ SwapSucceeds(t) \/ SwapFails(t)
  BY <1>1 DEF TypeOK, AddCall, VolatileRead, CopyAndAdd, SwapSucceeds, SwapFails
<1>2. CASE \E s \in Items : ContainsCall(t, s)
  BY <1>2 DEF TypeOK, ContainsCall
<1>3. CASE ContainsRead(t)
  BY <1>3 DEF TypeOK, ContainsRead
<1>4. CASE ContainsReturn(t)
  BY <1>4 DEF TypeOK, ContainsReturn
<1> QED BY <1>1, <1>2, <1>3, <1>4 DEF Step

LEMMA SetGrows ==
  ASSUME Inv, [Next]_vars
  PROVE  added \subseteq added' /\ Current \subseteq Current'
BY SwapAddsArg

LEMMA LookPreserved == Inv /\ LookInv /\ [Next]_vars => LookInv'
<1> SUFFICES ASSUME Inv, LookInv, [Next]_vars, NEW u \in Threads
             PROVE  /\ pc'[u] = "contains" => mustSee'[u] \subseteq added'
                    /\ pc'[u] = "look" => /\ mustSee'[u] \subseteq heap'[original'[u]]
                                          /\ heap'[original'[u]] \subseteq Current'
  BY DEF LookInv
<1>1. /\ TypeOK /\ added \subseteq Current
      /\ added \subseteq added' /\ Current \subseteq Current'
      /\ heap'[original[u]] = heap[original[u]]
  BY SetGrows, OldObjectsKept DEF Inv, NoLostAdd, TypeOK
<1>2. CASE UNCHANGED <<pc[u], mustSee[u], original[u]>>
  BY <1>1, <1>2 DEF LookInv
<1>3. CASE Step(u)
  <2>1. CASE pc'[u] = "contains"
    BY <1>1, <1>3, <2>1, OwnStep
  <2>2. CASE pc'[u] = "look"
    <3>1. /\ pc[u] = "contains" /\ mustSee'[u] = mustSee[u]
          /\ heap'[original'[u]] = Current /\ Current' = Current
      BY <1>1, <1>3, <2>2, OwnStep DEF Current
    <3> QED BY <1>1, <2>2, <3>1 DEF LookInv
  <2> QED BY <2>1, <2>2
<1>4. (\E t \in Threads : Step(t)) \/ UNCHANGED vars
  BY NextIsStep
<1> QED BY <1>1, <1>2, <1>3, <1>4, OthersStay DEF vars

\* A Contains that is called after an Add returned sees its element, although it reads
\* the field and looks into the object in two steps.
LEMMA ReadsStep ==
  ASSUME Inv, LookInv, [Next]_vars
  PROVE  \A t \in Threads : pc[t] = "look" /\ pc'[t] = "idle" /\ arg[t] \in mustSee[t] => result'[t]
<1> SUFFICES ASSUME NEW t \in Threads, pc[t] = "look", pc'[t] = "idle", arg[t] \in mustSee[t]
             PROVE  result'[t]
  OBVIOUS
<1>1. TypeOK
  BY DEF Inv
<1>2. Step(t)
  BY <1>1, NextIsStep, OthersStay DEF vars
<1>3. result'[t] = (arg[t] \in heap[original[t]])
  BY <1>1, <1>2, OwnStep
<1> QED BY <1>3 DEF LookInv

\* No Contains misses an Add that returned before it was called.
THEOREM NoStaleRead == Spec => ReadsCompletedAdds
<1>1. Init => LookInv
  BY DEF Init, LookInv
<1>2. Inv /\ LookInv /\ [Next]_vars =>
        [\A t \in Threads :
           pc[t] = "look" /\ pc'[t] = "idle" /\ arg[t] \in mustSee[t] => result'[t]]_vars
  BY ReadsStep
<1> QED
  BY <1>1, <1>2, LookPreserved, Invariance, PTL DEF Spec, ReadsCompletedAdds

-----------------------------------------------------------------------------
(* The filter.                                                              *)

Stages == {"free", "route", "header", "asked", "chosen"}

\* The locals of a request, and what it is asking for.
RequestOK ==
  /\ at \in [Visitors -> Stages]
  /\ culture \in [Visitors -> Items \cup {None}]
  /\ wanted \in [Visitors -> [culture : Items \cup {None}, header : Seq(Items \ {DefaultSelector})]]
  /\ i \in [Visitors -> Nat]
  /\ before \in [Visitors -> SUBSET Items]
  /\ \A t \in Visitors : at[t] = "asked" => i[t] < Len(wanted[t].header)

LEMMA InitRequest == FilterInit => Init /\ RequestOK /\ LookInv
<1> SUFFICES ASSUME FilterInit PROVE Init /\ RequestOK /\ LookInv
  OBVIOUS
<1>1. Init
  BY DEF FilterInit
<1>2. LookInv
  BY <1>1 DEF Init, LookInv
<1>3. [culture |-> None, header |-> <<>>] \in
        [culture : Items \cup {None}, header : Seq(Items \ {DefaultSelector})]
  OBVIOUS
<1>4. RequestOK
  <2>1. at \in [Visitors -> Stages] /\ \A t \in Visitors : at[t] # "asked"
    BY DEF FilterInit, Stages
  <2> QED BY <1>3, <2>1 DEF FilterInit, RequestOK
<1> QED BY <1>1, <1>2, <1>4

\* A step of the filter is one of the set, or leaves the set alone.
LEMMA FilterIsSetStep ==
  ASSUME RequestOK, [FilterNext]_filterVars
  PROVE  [Next]_vars
<1> USE FilterAssumption DEF FilterAssumption
<1>1. ASSUME NEW t \in Threads, NEW s \in Items, AddCall(t, s) \/ ContainsCall(t, s)
      PROVE  Next
  BY <1>1 DEF Next
<1>2. CASE Construct
  BY <1>1, <1>2 DEF Construct
<1>3. CASE \E t \in Adders, s \in Items : Extend(t, s)
  BY <1>1, <1>3 DEF Extend
<1>4. CASE \E t \in Threads : (AddStep(t) \/ ContainsStep(t)) /\ UNCHANGED request
  BY <1>4 DEF Next
<1>5. ASSUME NEW t \in Visitors, Filter(t) PROVE [Next]_vars
  <2>1. CASE Ask(t)
    <3>1. /\ wanted[t].header \in Seq(Items) /\ i[t] \in Nat /\ i[t] < Len(wanted[t].header)
      BY <2>1 DEF Ask, RequestOK
    <3>2. wanted[t].header[i[t] + 1] \in Items
      BY <3>1
    <3> QED BY <1>1, <2>1, <3>2 DEF Ask
  <2>2. CASE RouteAnswered(t) \/ HeaderAnswered(t) \/ Default(t) \/ End(t)
    BY <2>2 DEF RouteAnswered, HeaderAnswered, Default, End
  <2> QED BY <1>5, <2>1, <2>2 DEF Filter
<1>6. ASSUME NEW t \in Visitors, NEW c \in Cultures, NEW header \in Headers, Begin(t, c, header)
      PROVE  [Next]_vars
  <2>1. CASE NamesNoLanguage(c)
    BY <1>6, <2>1 DEF Begin
  <2>2. CASE ~NamesNoLanguage(c)
    <3>1. c \in Items
      BY <2>2 DEF NamesNoLanguage
    <3> QED BY <1>1, <1>6, <2>2, <3>1 DEF Begin
  <2> QED BY <2>1, <2>2
<1>7. CASE UNCHANGED filterVars
  BY <1>7 DEF filterVars
<1> QED BY <1>2, <1>3, <1>4, <1>5, <1>6, <1>7 DEF FilterNext

\* Nothing that the request wants more than language n + 1 of its header was supported
\* when it began.
NoneBetter(t, n) ==
  /\ NamesNoLanguage(wanted[t].culture) \/ wanted[t].culture \notin before[t]
  /\ \A k \in 1..n : wanted[t].header[k] \notin before[t]

\* The visitor looks up language c, or has the answer.
LooksUp(t, c) ==
  IF pc[t] \in {"contains", "look"}
  THEN arg[t] = c /\ before[t] \subseteq mustSee[t]
  ELSE (result[t] => c \in Current) /\ (~result[t] => c \notin before[t])

Choice(t) ==
  \/ /\ culture[t] = wanted[t].culture /\ ~NamesNoLanguage(wanted[t].culture)
     /\ culture[t] \in Current
  \/ \E k \in 1..Len(wanted[t].header) :
       /\ culture[t] = wanted[t].header[k] /\ culture[t] \in Current
       /\ NoneBetter(t, k - 1)
  \/ culture[t] = DefaultLanguage /\ NoneBetter(t, Len(wanted[t].header))

Best(t) ==
  /\ before[t] \subseteq added
  /\ at[t] = "route" =>
       /\ culture[t] = wanted[t].culture /\ ~NamesNoLanguage(wanted[t].culture)
       /\ LooksUp(t, culture[t])
       /\ i[t] = 0
  /\ at[t] \in {"header", "asked"} => culture[t] = None /\ NoneBetter(t, i[t])
  /\ at[t] = "asked" => LooksUp(t, wanted[t].header[i[t] + 1])
  /\ at[t] = "chosen" => Choice(t)

BestInv == \A t \in Visitors : Best(t)

FilterInv == Inv /\ LookInv /\ RequestOK /\ BestInv

\* No step but a call of Contains changes what is looked up.
LEMMA LookupGoesOn ==
  ASSUME Inv, LookInv, [Next]_vars, NEW t \in Threads, NEW c, LooksUp(t, c),
         ~(pc[t] = "idle" /\ pc'[t] = "contains"),
         before'[t] = before[t]
  PROVE  LooksUp(t, c)'
<1>1. TypeOK /\ Current \subseteq Current'
  BY SetGrows DEF Inv
<1>2. CASE Step(t)
  <2>1. CASE /\ pc[t] \notin {"contains", "look"} /\ pc'[t] \notin {"contains", "look"}
             /\ result'[t] = result[t]
    BY <1>1, <2>1 DEF LooksUp
  <2>2. CASE /\ pc[t] = "contains" /\ pc'[t] = "look" /\ arg'[t] = arg[t]
             /\ mustSee'[t] = mustSee[t]
    BY <2>2 DEF LooksUp
  <2>3. CASE /\ pc[t] = "look" /\ pc'[t] = "idle"
             /\ result'[t] = (arg[t] \in heap[original[t]])
    <3>1. /\ arg[t] = c /\ before[t] \subseteq heap[original[t]]
          /\ heap[original[t]] \subseteq Current'
      BY <1>1, <2>3 DEF LooksUp, LookInv
    <3> QED BY <2>3, <3>1 DEF LooksUp
  <2> QED BY <1>1, <1>2, <2>1, <2>2, <2>3, OwnStep
<1>3. CASE UNCHANGED <<pc[t], arg[t], mustSee[t], result[t]>>
  BY <1>1, <1>3 DEF LooksUp
<1> QED BY <1>1, <1>2, <1>3, NextIsStep, OthersStay DEF vars

\* A visitor whose request stays as it is.
LEMMA BestStays ==
  ASSUME FilterInv, [Next]_vars, NEW t \in Visitors,
         UNCHANGED <<at[t], culture[t], wanted[t], i[t], before[t]>>,
         ~(pc[t] = "idle" /\ pc'[t] = "contains")
  PROVE  Best(t)'
<1>1. added \subseteq added' /\ Current \subseteq Current' /\ Best(t) /\ t \in Threads
  BY SetGrows, FilterAssumption DEF FilterInv, BestInv, FilterAssumption
<1>2. PICK c, d : c = culture[t] /\ d = wanted[t].header[i[t] + 1]
  OBVIOUS
<1>3. (LooksUp(t, c) => LooksUp(t, c)') /\ (LooksUp(t, d) => LooksUp(t, d)')
  BY <1>1, LookupGoesOn DEF FilterInv
<1>4. c = culture'[t] /\ d = wanted'[t].header[i'[t] + 1]
  BY <1>2
<1>5. before'[t] \subseteq added'
  BY <1>1 DEF Best
<1>6. at'[t] = "route" =>
        /\ culture'[t] = wanted'[t].culture /\ ~NamesNoLanguage(wanted'[t].culture)
        /\ LooksUp(t, c)'
        /\ i'[t] = 0
  BY <1>1, <1>2, <1>3 DEF Best, NamesNoLanguage
<1>7. at'[t] \in {"header", "asked"} => culture'[t] = None /\ NoneBetter(t, i[t])'
  BY <1>1 DEF Best, NoneBetter, NamesNoLanguage
<1>8. at'[t] = "asked" => LooksUp(t, d)'
  BY <1>1, <1>2, <1>3 DEF Best
<1>9. at'[t] = "chosen" => Choice(t)'
  BY <1>1 DEF Best, Choice, NoneBetter, NamesNoLanguage
<1> QED BY <1>4, <1>5, <1>6, <1>7, <1>8, <1>9 DEF Best, NoneBetter, LooksUp

LEMMA ContainsBegins ==
  ASSUME Inv, NEW t \in Threads, NEW c, ContainsCall(t, c)
  PROVE  /\ pc[t] = "idle" /\ pc'[t] = "contains" /\ arg'[t] = c
         /\ mustSee'[t] = added /\ added' = added /\ Current' = Current
         /\ \A u \in Threads \ {t} : pc'[u] = pc[u]
BY DEF ContainsCall, Inv, TypeOK, Current

LEMMA BestBegin ==
  ASSUME FilterInv, NEW t \in Visitors, NEW c \in Cultures, NEW header \in Headers,
         Begin(t, c, header)
  PROVE  Best(t)'
<1>1. /\ wanted'[t] = [culture |-> c, header |-> header]
      /\ i'[t] = 0 /\ before'[t] = added /\ t \in Threads
  BY FilterAssumption DEF Begin, FilterInv, RequestOK, FilterAssumption
<1>2. CASE NamesNoLanguage(c)
  <2>1. at'[t] = "header" /\ culture'[t] = None /\ added' = added
    BY <1>2 DEF Begin, FilterInv, RequestOK, vars
  <2> QED BY <1>1, <1>2, <2>1 DEF Best, NoneBetter, NamesNoLanguage
<1>3. CASE ~NamesNoLanguage(c)
  <2>1. at'[t] = "route" /\ culture'[t] = c /\ ContainsCall(t, c)
    BY <1>3 DEF Begin, FilterInv, RequestOK
  <2>2. pc'[t] = "contains" /\ arg'[t] = c /\ mustSee'[t] = added /\ added' = added
    BY <1>1, <2>1, ContainsBegins DEF FilterInv
  <2>3. LooksUp(t, c)'
    BY <1>1, <2>2 DEF LooksUp
  <2> QED BY <1>1, <1>3, <2>1, <2>2, <2>3 DEF Best, LooksUp, NamesNoLanguage
<1> QED BY <1>2, <1>3

LEMMA BestFilter ==
  ASSUME FilterInv, NEW t \in Visitors, Filter(t)
  PROVE  Best(t)'
<1>1. /\ Best(t) /\ t \in Threads /\ Inv
      /\ wanted[t].header \in Seq(Items \ {DefaultSelector}) /\ i[t] \in Nat
      /\ at \in [Visitors -> Stages] /\ culture \in [Visitors -> Items \cup {None}]
      /\ i \in [Visitors -> Nat]
  BY FilterAssumption DEF FilterInv, BestInv, RequestOK, FilterAssumption
<1>2. CASE RouteAnswered(t)
  <2>1. /\ at[t] = "route" /\ pc[t] = "idle"
        /\ UNCHANGED <<heap, collection, pc, result, added, wanted, i, before>>
    BY <1>2 DEF RouteAnswered, vars
  <2>2. /\ culture[t] = wanted[t].culture /\ ~NamesNoLanguage(wanted[t].culture)
        /\ result[t] => culture[t] \in Current
        /\ ~result[t] => culture[t] \notin before[t]
    BY <1>1, <2>1 DEF Best, LooksUp
  <2>3. Current' = Current /\ before[t] \subseteq added
    BY <1>1, <2>1 DEF Current, Best
  <2>4. CASE result[t]
    <3>1. at'[t] = "chosen" /\ culture'[t] = culture[t]
      BY <1>1, <1>2, <2>4 DEF RouteAnswered
    <3>2. Choice(t)'
      BY <2>1, <2>2, <2>3, <2>4, <3>1 DEF Choice, NamesNoLanguage
    <3> QED BY <2>1, <2>3, <3>1, <3>2 DEF Best
  <2>5. CASE ~result[t]
    <3>1. at'[t] = "header" /\ culture'[t] = None
      BY <1>1, <1>2, <2>5 DEF RouteAnswered
    <3>2. i[t] = 0
      BY <1>1, <2>1 DEF Best
    <3>3. NoneBetter(t, i[t])'
      BY <2>1, <2>2, <2>5, <3>2 DEF NoneBetter
    <3> QED BY <2>1, <2>3, <3>1, <3>3 DEF Best, NoneBetter
  <2> QED BY <2>4, <2>5
<1>3. CASE Ask(t)
  <2>1. /\ at[t] = "header" /\ at'[t] = "asked" /\ i[t] < Len(wanted[t].header)
        /\ ContainsCall(t, wanted[t].header[i[t] + 1])
        /\ UNCHANGED <<culture, wanted, i, before>>
    BY <1>1, <1>3 DEF Ask
  <2>2. /\ pc'[t] = "contains" /\ arg'[t] = wanted[t].header[i[t] + 1]
        /\ mustSee'[t] = added /\ added' = added
    BY <1>1, <2>1, ContainsBegins
  <2>3. before[t] \subseteq added /\ culture[t] = None /\ NoneBetter(t, i[t])
    BY <1>1, <2>1 DEF Best
  <2> QED BY <2>1, <2>2, <2>3 DEF Best, NoneBetter, LooksUp
<1>4. CASE HeaderAnswered(t)
  <2> DEFINE c == wanted[t].header[i[t] + 1]
  <2>1. /\ at[t] = "asked" /\ pc[t] = "idle"
        /\ UNCHANGED <<heap, collection, pc, result, added, wanted, before>>
    BY <1>4 DEF HeaderAnswered, vars
  <2>2. /\ culture[t] = None /\ NoneBetter(t, i[t]) /\ before[t] \subseteq added
        /\ result[t] => c \in Current
        /\ ~result[t] => c \notin before[t]
    BY <1>1, <2>1 DEF Best, LooksUp
  <2>3. i[t] + 1 \in 1..Len(wanted[t].header) /\ (i[t] + 1) - 1 = i[t] /\ Current' = Current
    BY <1>1, <2>1 DEF FilterInv, RequestOK, Current
  <2>4. CASE result[t]
    <3>1. at'[t] = "chosen" /\ culture'[t] = c
      BY <1>1, <1>4, <2>4 DEF HeaderAnswered
    <3>2. Choice(t)'
      BY <2>1, <2>2, <2>3, <2>4, <3>1 DEF Choice, NoneBetter
    <3> QED BY <2>1, <2>2, <3>1, <3>2 DEF Best
  <2>5. CASE ~result[t]
    <3>1. at'[t] = "header" /\ culture'[t] = culture[t] /\ i'[t] = i[t] + 1
      BY <1>1, <1>4, <2>5 DEF HeaderAnswered
    <3>2. \A k \in 1..(i[t] + 1) : k \in 1..i[t] \/ k = i[t] + 1
      BY <1>1
    <3>3. NoneBetter(t, i[t])'
      BY <2>1, <2>2, <2>5, <3>1, <3>2 DEF NoneBetter
    <3> QED BY <2>1, <2>2, <3>1, <3>3 DEF Best, NoneBetter
  <2> QED BY <2>4, <2>5
<1>5. CASE Default(t)
  <2>1. /\ at[t] = "header" /\ i[t] = Len(wanted[t].header)
        /\ culture[t] = None /\ NoneBetter(t, i[t]) /\ before[t] \subseteq added
    BY <1>1, <1>5 DEF Default, Best
  <2>2. /\ at'[t] = "chosen" /\ culture'[t] = DefaultLanguage
        /\ UNCHANGED <<wanted, i, before, added>>
    BY <1>1, <1>5, <2>1 DEF Default, vars
  <2>3. Choice(t)'
    BY <2>1, <2>2 DEF Choice, NoneBetter
  <2> QED BY <2>1, <2>2, <2>3 DEF Best
<1>6. CASE End(t)
  <2>1. at'[t] = "free" /\ before'[t] = {}
    BY <1>1, <1>6 DEF End, FilterInv, RequestOK
  <2> QED BY <2>1 DEF Best
<1> QED BY <1>2, <1>3, <1>4, <1>5, <1>6 DEF Filter

LEMMA RequestPreserved ==
  ASSUME RequestOK, TypeOK, [FilterNext]_filterVars
  PROVE  RequestOK'
<1> USE FilterAssumption DEF FilterAssumption
<1>0. /\ Stages = {"free", "route", "header", "asked", "chosen"}
      /\ \A r \in [culture : Items \cup {None}, header : Seq(Items \ {DefaultSelector})] :
           r.header \in Seq(Items \ {DefaultSelector}) /\ r.culture \in Items \cup {None}
  BY DEF Stages
<1>1. CASE UNCHANGED request
  BY <1>1 DEF request, RequestOK
<1>2. ASSUME NEW t \in Visitors, NEW c \in Cultures, NEW header \in Headers, Begin(t, c, header)
      PROVE  RequestOK'
  <2>1. [culture |-> c, header |-> header] \in
          [culture : Items \cup {None}, header : Seq(Items \ {DefaultSelector})]
    OBVIOUS
  <2>2. /\ wanted' = [wanted EXCEPT ![t] = [culture |-> c, header |-> header]]
        /\ i' = [i EXCEPT ![t] = 0]
        /\ before' = [before EXCEPT ![t] = added]
        /\ at' = [at EXCEPT ![t] = "header"] \/ at' = [at EXCEPT ![t] = "route"]
        /\ \E d \in Items \cup {None} : culture' = [culture EXCEPT ![t] = d]
    BY <1>2 DEF Begin
  <2>3. wanted' \in [Visitors -> [culture : Items \cup {None}, header : Seq(Items \ {DefaultSelector})]]
    BY <2>1, <2>2 DEF RequestOK
  <2>4. /\ at' \in [Visitors -> Stages] /\ culture' \in [Visitors -> Items \cup {None}]
        /\ i' \in [Visitors -> Nat] /\ before' \in [Visitors -> SUBSET Items]
    <3>1. at' \in [Visitors -> Stages]
      BY <1>0, <2>2 DEF RequestOK
    <3>2. culture' \in [Visitors -> Items \cup {None}]
      BY <2>2 DEF RequestOK
    <3>3. i' \in [Visitors -> Nat] /\ before' \in [Visitors -> SUBSET Items]
      BY <2>2 DEF RequestOK, TypeOK
    <3> QED BY <3>1, <3>2, <3>3
  <2>5. \A u \in Visitors : at'[u] = "asked" =>
          at[u] = "asked" /\ i'[u] = i[u] /\ wanted'[u] = wanted[u]
    BY <2>2 DEF RequestOK
  <2> QED BY <2>3, <2>4, <2>5 DEF RequestOK
<1>3. ASSUME NEW t \in Visitors, RouteAnswered(t) PROVE RequestOK'
  BY <1>0, <1>3 DEF RouteAnswered, RequestOK
<1>4. ASSUME NEW t \in Visitors, Ask(t) PROVE RequestOK'
  BY <1>0, <1>4 DEF Ask, RequestOK
<1>5. ASSUME NEW t \in Visitors, HeaderAnswered(t) PROVE RequestOK'
  <2>1. wanted[t].header[i[t] + 1] \in Items
    <3>1. wanted[t].header \in Seq(Items \ {DefaultSelector}) /\ i[t] \in Nat
          /\ i[t] < Len(wanted[t].header)
      BY <1>0, <1>5 DEF HeaderAnswered, RequestOK
    <3> QED BY <3>1
  <2>2. /\ at' = [at EXCEPT ![t] = "chosen"] \/ at' = [at EXCEPT ![t] = "header"]
        /\ \E d \in Items \cup {None} : culture' = [culture EXCEPT ![t] = d]
        /\ \E n \in Nat : i' = [i EXCEPT ![t] = n]
        /\ UNCHANGED <<wanted, before>>
    <3>1. culture[t] \in Items \cup {None} /\ i[t] \in Nat
      BY DEF RequestOK
    <3>2. CASE result[t]
      <4>1. i' = [i EXCEPT ![t] = i[t]]
        BY <1>5, <3>2 DEF HeaderAnswered, RequestOK
      <4> QED BY <1>5, <2>1, <3>1, <3>2, <4>1 DEF HeaderAnswered
    <3>3. CASE ~result[t]
      <4>1. culture' = [culture EXCEPT ![t] = culture[t]] /\ i' = [i EXCEPT ![t] = i[t] + 1]
        BY <1>5, <3>3 DEF HeaderAnswered, RequestOK
      <4>2. at' = [at EXCEPT ![t] = "header"] /\ UNCHANGED <<wanted, before>> /\ i[t] + 1 \in Nat
        BY <1>5, <3>1, <3>3 DEF HeaderAnswered
      <4> QED BY <3>1, <4>1, <4>2
    <3> QED BY <3>2, <3>3
  <2>3. /\ at' \in [Visitors -> Stages] /\ culture' \in [Visitors -> Items \cup {None}]
        /\ i' \in [Visitors -> Nat]
    <3>1. at' \in [Visitors -> Stages]
      BY <1>0, <2>2 DEF RequestOK
    <3>2. culture' \in [Visitors -> Items \cup {None}]
      BY <2>2 DEF RequestOK
    <3>3. i' \in [Visitors -> Nat]
      BY <2>2 DEF RequestOK
    <3> QED BY <3>1, <3>2, <3>3
  <2>4. \A u \in Visitors : at'[u] = "asked" => at[u] = "asked" /\ i'[u] = i[u]
    BY <2>2 DEF RequestOK
  <2> QED BY <2>2, <2>3, <2>4 DEF RequestOK
<1>6. ASSUME NEW t \in Visitors, Default(t) PROVE RequestOK'
  BY <1>0, <1>6 DEF Default, RequestOK
<1>7. ASSUME NEW t \in Visitors, End(t) PROVE RequestOK'
  <2>1. [culture |-> None, header |-> <<>>] \in
          [culture : Items \cup {None}, header : Seq(Items \ {DefaultSelector})]
    OBVIOUS
  <2>2. wanted' \in [Visitors -> [culture : Items \cup {None}, header : Seq(Items \ {DefaultSelector})]]
    BY <1>7, <2>1 DEF End, RequestOK
  <2>3. /\ at' \in [Visitors -> Stages] /\ culture' \in [Visitors -> Items \cup {None}]
        /\ i' \in [Visitors -> Nat] /\ before' \in [Visitors -> SUBSET Items]
    BY <1>0, <1>7 DEF End, RequestOK
  <2>4. \A u \in Visitors : at'[u] = "asked" =>
          at[u] = "asked" /\ i'[u] = i[u] /\ wanted'[u] = wanted[u]
    BY <1>7 DEF End, RequestOK
  <2> QED BY <2>2, <2>3, <2>4 DEF RequestOK
<1>8. (\E t \in Visitors : Filter(t) \/ \E c \in Cultures, header \in Headers : Begin(t, c, header))
      \/ UNCHANGED request
  BY DEF FilterNext, filterVars, request, Construct, Extend
<1> QED BY <1>1, <1>2, <1>3, <1>4, <1>5, <1>6, <1>7, <1>8 DEF Filter

\* Who does not begin a request or go on with it does not ask either.
LEMMA BestOthers ==
  ASSUME FilterInv, [FilterNext]_filterVars, NEW t \in Visitors,
         ~Filter(t), ~\E c \in Cultures, header \in Headers : Begin(t, c, header)
  PROVE  Best(t)'
<1> USE FilterAssumption DEF FilterAssumption
<1>1. [Next]_vars /\ TypeOK /\ RequestOK
  BY FilterIsSetStep DEF FilterInv, Inv
<1>2. ASSUME UNCHANGED request, ~(pc[t] = "idle" /\ pc'[t] = "contains") PROVE Best(t)'
  BY <1>1, <1>2, BestStays DEF request
<1>3. CASE Construct \/ \E u \in Adders, s \in Items : Extend(u, s)
  <2>1. UNCHANGED request
    BY <1>3 DEF Construct, Extend
  <2>2. pc'[t] \in {pc[t], "read"}
    BY <1>1, <1>3 DEF Construct, Extend, AddCall, TypeOK
  <2> QED BY <1>2, <2>1, <2>2
<1>4. CASE \E u \in Threads : (AddStep(u) \/ ContainsStep(u)) /\ UNCHANGED request
  <2>1. pc'[t] = pc[t] \/ pc'[t] # "contains"
    BY <1>1, <1>4 DEF AddStep, ContainsStep, VolatileRead, CopyAndAdd, SwapSucceeds, SwapFails,
       ContainsRead, ContainsReturn, TypeOK
  <2> QED BY <1>2, <1>4, <2>1
<1>5. ASSUME NEW u \in Visitors, u # t,
             Filter(u) \/ \E c \in Cultures, header \in Headers : Begin(u, c, header)
      PROVE  Best(t)'
  <2>1. UNCHANGED <<at[t], culture[t], wanted[t], i[t], before[t]>>
    BY <1>1, <1>5 DEF Filter, RouteAnswered, Ask, HeaderAnswered, Default, End, Begin, RequestOK
  <2>2. pc'[t] = pc[t]
    <3>1. (\E c : ContainsCall(u, c)) \/ UNCHANGED vars
      BY <1>5 DEF Filter, RouteAnswered, Ask, HeaderAnswered, Default, End, Begin
    <3> QED BY <1>1, <1>5, <3>1 DEF ContainsCall, TypeOK, vars
  <2> QED BY <1>1, <2>1, <2>2, BestStays
<1>6. CASE UNCHANGED filterVars
  BY <1>2, <1>6 DEF filterVars, vars
<1> QED BY <1>3, <1>4, <1>5, <1>6 DEF FilterNext

LEMMA FilterStep == FilterInv /\ [FilterNext]_filterVars => FilterInv'
<1> SUFFICES ASSUME FilterInv, [FilterNext]_filterVars PROVE FilterInv'
  OBVIOUS
<1>1. Inv /\ LookInv /\ RequestOK /\ TypeOK /\ [Next]_vars
  BY FilterIsSetStep DEF FilterInv, Inv
<1>2. BestInv'
  BY BestBegin, BestFilter, BestOthers DEF BestInv
<1> QED BY <1>1, <1>2, InvPreserved, LookPreserved, RequestPreserved DEF FilterInv

LEMMA FilterAlways == FilterSpec => []FilterInv
<1>1. FilterInit => FilterInv
  <2> SUFFICES ASSUME FilterInit PROVE FilterInv
    OBVIOUS
  <2>1. Inv /\ LookInv /\ RequestOK
    BY InitRequest, InitInv
  <2>2. BestInv
    BY DEF FilterInit, BestInv, Best
  <2> QED BY <2>1, <2>2 DEF FilterInv
<1> QED
  BY <1>1, FilterStep, PTL DEF FilterSpec

\* What is proved of the set holds of it in the filter.
THEOREM SetInFilter ==
  FilterSpec => []Inv /\ SnapshotsImmutable /\ ReadsCompletedAdds /\ ImplementsGrowOnlySet
<1>1. FilterSpec => Spec
  <2>1. FilterInv /\ [FilterNext]_filterVars => [Next]_vars
    BY FilterIsSetStep DEF FilterInv
  <2>2. FilterInit => Init
    BY DEF FilterInit
  <2> QED BY <2>1, <2>2, FilterAlways, PTL DEF FilterSpec, Spec
<1> QED
  BY <1>1, Invariance, ReadersNeedNoLock, NoStaleRead, Refinement, PTL

\* A request is never answered in a language when it wanted another one more that was
\* supported before it began, and in the default only when it wanted none that was;
\* although each of its languages is looked up in the set of that moment.
THEOREM BestLanguage == FilterSpec => []BestSupported
<1>1. FilterInv => BestSupported
  <2> SUFFICES ASSUME FilterInv, NEW t \in Visitors, at[t] = "chosen"
               PROVE  LET p == Preferences(t)
                          chosen == {n \in DOMAIN p : p[n] = culture[t] /\ p[n] \in Current}
                      IN  /\ culture[t] # DefaultSelector
                          /\ IF chosen = {}
                             THEN culture[t] = DefaultLanguage
                                  /\ \A n \in DOMAIN p : p[n] \notin before[t]
                             ELSE \E n \in chosen : \A m \in 1..(n - 1) : p[m] \notin before[t]
    BY DEF BestSupported
  <2> DEFINE p == Preferences(t)
             c == wanted[t].culture
             h == wanted[t].header
             d == IF NamesNoLanguage(c) THEN 0 ELSE 1
             chosen == {n \in DOMAIN p : p[n] = culture[t] /\ p[n] \in Current}
             Good == /\ culture[t] # DefaultSelector
                     /\ IF chosen = {}
                        THEN culture[t] = DefaultLanguage /\ \A n \in DOMAIN p : p[n] \notin before[t]
                        ELSE \E n \in chosen : \A m \in 1..(n - 1) : p[m] \notin before[t]
  <2>1. /\ Choice(t) /\ c \in Items \cup {None} /\ h \in Seq(Items \ {DefaultSelector})
    BY DEF FilterInv, BestInv, Best, RequestOK
  <2>2. /\ d \in {0, 1} /\ (d = 1 <=> ~NamesNoLanguage(c)) /\ Len(h) \in Nat
        /\ p \in Seq(Items \cup {None})
        /\ DOMAIN p = 1..(d + Len(h))
        /\ d = 1 => p[1] = c
        /\ \A k \in 1..Len(h) : p[d + k] = h[k]
    <3>1. CASE NamesNoLanguage(c)
      <4>1. p = <<>> \o h
        BY <3>1 DEF Preferences
      <4> QED BY <2>1, <3>1, <4>1
    <3>2. CASE ~NamesNoLanguage(c)
      <4>1. p = <<c>> \o h
        BY <3>2 DEF Preferences
      <4> QED BY <2>1, <3>2, <4>1
    <3> QED BY <3>1, <3>2
  <2>3. \A k \in 1..Len(h) : h[k] # DefaultSelector
    BY <2>1
  <2> HIDE DEF p, d
  <2>4. ASSUME NEW n \in 0..Len(h), NoneBetter(t, n)
        PROVE  \A m \in 1..(d + n) : p[m] \notin before[t]
    <3> SUFFICES ASSUME NEW m \in 1..(d + n) PROVE p[m] \notin before[t]
      OBVIOUS
    <3>1. CASE m <= d
      BY <2>2, <2>4, <3>1 DEF NoneBetter
    <3>2. CASE m > d
      <4>1. m - d \in 1..n /\ m - d \in 1..Len(h) /\ d + (m - d) = m
        BY <2>1, <2>2, <3>2
      <4>2. p[m] = h[m - d]
        BY <2>2, <4>1
      <4> QED BY <2>4, <4>1, <4>2 DEF NoneBetter
    <3> QED BY <2>2, <3>1, <3>2
  <2>5. ASSUME culture[t] = c, ~NamesNoLanguage(c), culture[t] \in Current
        PROVE  Good
    <3>1. 1 \in chosen /\ culture[t] # DefaultSelector
      BY <2>1, <2>2, <2>5 DEF NamesNoLanguage
    <3>2. \A m \in 1..(1 - 1) : p[m] \notin before[t]
      OBVIOUS
    <3> HIDE DEF chosen
    <3>3. Good
      BY <3>1, <3>2 DEF Good
    <3> QED BY <3>3
  <2>6. ASSUME NEW k \in 1..Len(h), culture[t] = h[k], culture[t] \in Current, NoneBetter(t, k - 1)
        PROVE  /\ culture[t] # DefaultSelector
               /\ \E n \in chosen : \A m \in 1..(n - 1) : p[m] \notin before[t]
    <3>1. d + k \in chosen
      BY <2>1, <2>2, <2>6
    <3>2. k - 1 \in 0..Len(h) /\ (d + k) - 1 = d + (k - 1)
      BY <2>1, <2>2
    <3>3. \A m \in 1..((d + k) - 1) : p[m] \notin before[t]
      BY <2>4, <2>6, <3>2
    <3> QED BY <2>3, <2>6, <3>1, <3>3
  <2>7. ASSUME culture[t] = DefaultLanguage, NoneBetter(t, Len(h))
        PROVE  Good
    <3>1. Len(h) \in 0..Len(h)
      BY <2>1
    <3>2. \A m \in DOMAIN p : p[m] \notin before[t]
      BY <2>2, <2>4, <2>7, <3>1
    <3>3. ASSUME NEW n \in chosen, NEW m \in 1..(n - 1) PROVE p[m] \notin before[t]
      <4>1. n \in 1..(d + Len(h)) /\ Len(h) \in Nat
        BY <2>1, <2>2
      <4>2. m \in 1..(d + Len(h))
        BY <2>2, <4>1
      <4> QED BY <2>2, <3>2, <4>2
    <3>4. culture[t] # DefaultSelector
      BY <2>7, FilterAssumption DEF FilterAssumption
    <3> HIDE DEF chosen
    <3>5. CASE chosen = {}
      BY <2>7, <3>2, <3>4, <3>5 DEF Good
    <3>6. CASE chosen # {}
      <4>1. PICK n : n \in chosen
        BY <3>6
      <4> QED BY <3>3, <3>4, <3>6, <4>1 DEF Good
    <3> QED BY <3>5, <3>6
  <2>8. ASSUME \E k \in 1..Len(h) : culture[t] = h[k] /\ culture[t] \in Current /\ NoneBetter(t, k - 1)
        PROVE  Good
    <3>1. /\ culture[t] # DefaultSelector
          /\ \E n \in chosen : \A m \in 1..(n - 1) : p[m] \notin before[t]
      BY <2>6, <2>8
    <3> HIDE DEF chosen
    <3> QED BY <3>1 DEF Good
  <2>9. Good
    <3> HIDE DEF Good
    <3> QED BY <2>1, <2>5, <2>7, <2>8 DEF Choice
  <2> QED BY <2>9 DEF p
<1> QED
  BY <1>1, FilterAlways, PTL

=============================================================================
