------------------------- MODULE LdapSearchResults -------------------------
(***************************************************************************)
(* LdapSearchResults.cs: the results of a synchronous search, read from    *)
(* the queue in batches while the answers come in.  One application thread *)
(* calls hasMore, next and Abandon in any order; each turn of the loop in  *)
(* BatchOfResults is a step, the rest of a call another.                   *)
(*                                                                         *)
(* The catch block of BatchOfResults is left out, for getResponse throws no *)
(* LdapException, and so are the controls and intermediate responses.      *)
(***************************************************************************)
EXTENDS ResponseQueue, SequencesExt

CONSTANTS
  BatchSizes,  \* batch sizes to choose from; 0: all results in one batch
  Following,   \* ReferralFollowing of the constraints, TRUE or FALSE
  MaxNulls     \* bound: nulls an application fetches by calling on at the end

ASSUME ResultsAssumption ==
  /\ BatchSizes \subseteq Nat /\ Following \subseteq BOOLEAN
  /\ MaxNulls \in Nat

VARIABLES
  batchSize, referralFollowing,   \* of the constraints, never changed
  entries, entryIndex, entryCount,
  references, referenceIndex,
  completed,
  i,          \* local of BatchOfResults
  pc,         \* "app", in the loop, or the call that goes on after it
  caller,     \* the call that is in BatchOfResults
  said,       \* what the last hasMore said, until next is called
  arrived,    \* history: all that was queued for the application
  given,      \* history: replies that next returned or threw
  lastNext,   \* what the last next came to
  abandoned   \* Abandon was called

constraints == <<batchSize, referralFollowing>>
entryVars == <<entries, entryIndex, entryCount>>
referenceVars == <<references, referenceIndex>>
history == <<said, given, lastNext, abandoned>>
vars == <<queue, constraints, entryVars, referenceVars, completed, i, pc,
          caller, history, arrived>>

\* references and their count always change together.
referenceCount == Len(references)

\* The exception put in the place of a null response; it is not counted.
Timeout == [kind |-> "timeout", number |-> 0]

Init ==
  /\ QueueInit
  /\ batchSize \in BatchSizes /\ referralFollowing \in Following
  /\ entries = <<>> /\ entryIndex = 0 /\ entryCount = 0
  /\ references = <<>> /\ referenceIndex = 0
  /\ completed = FALSE
  /\ i = 0 /\ pc = "app" /\ caller = "hasMore"
  /\ said = "nothing" /\ lastNext = "nothing"
  /\ given = <<>> /\ arrived = <<>>
  /\ abandoned = FALSE

\* The list of entries grows by an exception with every null.
NotYetBored == Len(entries) - entryCount < MaxNulls

HasUnread == entryIndex < entryCount \/ referenceIndex < referenceCount

-----------------------------------------------------------------------------
\* MUTANT: a list is emptied although it has not been read to its end.
ResetUnread(call) ==
  IF completed
  THEN /\ pc' = call
       /\ UNCHANGED <<entryVars, referenceVars, i, caller>>
  ELSE /\ references' = <<>> /\ referenceIndex' = 0
       /\ entries' = <<>> /\ entryCount' = 0 /\ entryIndex' = 0
       /\ pc' = "batch" /\ i' = 0 /\ caller' = call

\* resetVectors, called by `call': lists that were read are emptied, and if
\* nothing is left more results are fetched first.
resetVectors(call) ==
  LET readOut == entryIndex # 0 /\ entryIndex >= entryCount
      chased == referenceIndex # 0 /\ referenceIndex >= referenceCount
  IN  IF completed
      THEN /\ pc' = call
           /\ UNCHANGED <<entryVars, referenceVars, i, caller>>
      ELSE /\ references' = IF chased THEN <<>> ELSE references
           /\ referenceIndex' = IF chased THEN 0 ELSE referenceIndex
           /\ entries' = IF readOut THEN <<>> ELSE entries
           /\ entryIndex' = IF readOut THEN 0 ELSE entryIndex
           /\ entryCount' = IF readOut THEN 0 ELSE entryCount
           /\ IF referenceCount' = 0 /\ entryCount' = 0
              THEN pc' = "batch" /\ i' = 0 /\ caller' = call
              ELSE pc' = call /\ UNCHANGED <<i, caller>>

HasMore ==
  /\ pc = "app"
  /\ said = "no" => NotYetBored
  /\ IF HasUnread
     THEN pc' = "hasMore" /\ UNCHANGED <<entryVars, referenceVars, i, caller>>
     ELSE resetVectors("hasMore")
  /\ UNCHANGED <<queue, constraints, completed, history>>

HasMoreReturns ==
  /\ pc = "hasMore"
  /\ pc' = "app"
  /\ said' = IF HasUnread THEN "yes" ELSE "no"
  /\ UNCHANGED <<queue, constraints, entryVars, referenceVars, completed, i,
                 caller, given, lastNext, abandoned>>

\* next: past the end it throws at once.
CallNext ==
  /\ pc = "app"
  /\ said = "yes" \/ NotYetBored
  /\ IF completed /\ ~HasUnread
     THEN /\ lastNext' = "noMore" /\ said' = "nothing"
          /\ UNCHANGED <<entryVars, referenceVars, i, pc, caller>>
     ELSE /\ resetVectors("next")
          /\ UNCHANGED <<lastNext, said>>
  /\ UNCHANGED <<queue, constraints, completed, given, abandoned>>

\* References first, then entries and errors.
NextReturns ==
  /\ pc = "next"
  /\ pc' = "app"
  /\ \/ /\ referenceIndex < referenceCount
        /\ referenceIndex' = referenceIndex + 1
        /\ given' = Append(given, references[referenceIndex + 1])
        /\ lastNext' = "given"
        /\ UNCHANGED entryVars
     \/ /\ referenceIndex >= referenceCount /\ entryIndex < entryCount
        /\ entryIndex' = entryIndex + 1
        /\ given' = Append(given, entries[entryIndex + 1])
        /\ lastNext' = "given"
        /\ UNCHANGED <<entries, entryCount, referenceIndex>>
     \/ /\ ~HasUnread
        /\ lastNext' = "confused"
        /\ UNCHANGED <<entryVars, referenceIndex, given>>
  /\ said' = "nothing"
  /\ UNCHANGED <<queue, constraints, references, completed, i, caller, abandoned>>

\* Abandon: the replies on their way are dropped; what is in the lists stays.
Abandon ==
  /\ pc = "app"
  /\ AbandonAll
  /\ resetVectors("abandon")
  /\ abandoned' = TRUE
  /\ UNCHANGED <<constraints, completed, said, given, lastNext>>

AbandonReturns ==
  /\ pc = "abandon"
  /\ pc' = "app"
  /\ completed' = TRUE
  /\ UNCHANGED <<queue, constraints, entryVars, referenceVars, i, caller, history>>

-----------------------------------------------------------------------------
(* BatchOfResults *)

BatchReturns(done) == completed' = done /\ pc' = caller

InLoop == pc = "batch" /\ (batchSize = 0 \/ i < batchSize)

\* MUTANT: the count runs ahead of the list.
CountEntry(item) == UNCHANGED entries /\ entryCount' = entryCount + 1

AddEntry(item) == /\ entries' = Append(entries, item)
                  /\ entryCount' = entryCount + 1

BatchFull ==
  /\ pc = "batch" /\ ~InLoop
  /\ BatchReturns(FALSE)
  /\ UNCHANGED <<queue, constraints, entryVars, referenceVars, i, caller, history>>

GetEntry ==
  /\ InLoop
  /\ TakeReply
  /\ Head(replies).kind = "entry"
  /\ AddEntry(Head(replies))
  /\ i' = i + 1
  /\ UNCHANGED <<constraints, entryIndex, referenceVars, completed, pc, caller,
                 history>>

\* A reference that is to be followed is dropped: chaseReferral is commented out.
GetReference ==
  /\ InLoop
  /\ TakeReply
  /\ Head(replies).kind = "reference"
  /\ references' = IF referralFollowing THEN references
                   ELSE Append(references, Head(replies))
  /\ UNCHANGED <<constraints, entryVars, referenceIndex, completed, i, pc,
                 caller, history>>

\* MUTANT: the search is over with the result, and its error is not kept.
ResponseEnds ==
  /\ InLoop
  /\ TakeReply
  /\ Head(replies).kind \in Result \cup {"closed"}
  /\ BatchReturns(TRUE)
  /\ UNCHANGED <<constraints, entryVars, referenceVars, i, caller, history>>

\* A result, or the response made of an exception.  The search is over when
\* the queue has no message left.
GetResponse ==
  /\ InLoop
  /\ TakeReply
  /\ LET kind == Head(replies).kind IN
     /\ kind \in Result \cup {"closed"}
     /\ IF kind = "success" \/ (kind = "referral" /\ referralFollowing)
        THEN UNCHANGED <<entries, entryCount>>
        ELSE AddEntry(Head(replies))
  /\ IF inAgent' THEN UNCHANGED <<completed, pc>> ELSE BatchReturns(TRUE)
  /\ UNCHANGED <<constraints, entryIndex, referenceVars, i, caller, history>>

\* A null response: an exception that is not counted.
GetNull ==
  /\ InLoop
  /\ TakeNull
  /\ entries' = Append(entries, Timeout)
  /\ BatchReturns(FALSE)
  /\ UNCHANGED <<constraints, entryIndex, entryCount, referenceVars, i, caller,
                 history>>

BatchOfResults == BatchFull \/ GetEntry \/ GetReference \/ GetResponse \/ GetNull

-----------------------------------------------------------------------------
results == <<constraints, entryVars, referenceVars, completed, i, pc, caller, history>>

\* What the other threads do to the queue.
Others == /\ Arrives \/ Settles
          /\ arrived' = arrived \o SubSeq(replies', Len(replies) + 1, Len(replies'))
          /\ UNCHANGED results

Returns == HasMoreReturns \/ NextReturns \/ AbandonReturns

\* The loop of Code/LDAP/List.cs: next after every hasMore that said yes.
Reading == \/ said # "yes" /\ said # "no" /\ HasMore
           \/ said = "yes" /\ CallNext

Next ==
  \/ Others
  \/ (HasMore \/ CallNext \/ Abandon \/ Returns \/ BatchOfResults) /\ UNCHANGED arrived

Spec == Init /\ [][Next]_vars

\* Threads inside a call are scheduled, and the application reads on as the loop
\* of List.cs does: other calls it makes in between, another hasMore for one, do
\* not keep it from that for ever.  Nothing is assumed of the server.
FairSpec ==
  /\ Spec
  /\ WF_vars(Others /\ Settles)
  /\ WF_vars((Returns \/ BatchOfResults) /\ UNCHANGED arrived)
  /\ SF_vars(Reading /\ UNCHANGED arrived)

-----------------------------------------------------------------------------
Items == [kind : Kinds \cup {"timeout"}, number : 0..(MaxReplies + 1)]

TypeOK ==
  /\ QueueTypeOK
  /\ batchSize \in BatchSizes /\ referralFollowing \in Following
  /\ entries \in Seq(Items) /\ references \in Seq(Items)
  /\ entryCount \in 0..Len(entries) /\ entryIndex \in 0..entryCount
  /\ referenceIndex \in 0..referenceCount
  /\ completed \in BOOLEAN /\ abandoned \in BOOLEAN
  /\ i \in Nat /\ pc \in {"app", "batch", "hasMore", "next", "abandon"}
  /\ caller \in {"hasMore", "next", "abandon"}
  /\ said \in {"nothing", "yes", "no"}
  /\ lastNext \in {"nothing", "given", "noMore", "confused"}
  /\ given \in Seq(Items) /\ arrived \in Seq(Items)

\* How many of s[m + 1], ..., s[n] are of these kinds.
HowMany(s, m, n, kinds) == Cardinality({j \in (m + 1)..n : s[j].kind \in kinds})
OfAll(s, kinds) == HowMany(s, 0, Len(s), kinds)

\* What next gives is what the server sent, in its order within the entries,
\* within the references and within the errors, nothing twice and nothing left
\* out, whatever the batch size and however the calls and the answers mix: what
\* next gives as the n-th of its class is the n-th of that class that arrived.
Classes == {{"entry"}, {"reference"}, {"failure", "referral", "closed"}}

GivenInOrder ==
  \A kinds \in Classes : \A a \in DOMAIN given : given[a].kind \in kinds =>
    \E b \in DOMAIN arrived :
      /\ arrived[b] = given[a]
      /\ HowMany(arrived, 0, b, kinds) = HowMany(given, 0, a, kinds)

\* When hasMore says that there is no more, the application has been given
\* every entry, reference and error that arrived, unless it abandoned the search.
NothingKeptBack ==
  said = "no" /\ ~abandoned => Len(given) = OfAll(arrived, Kinds \ {"success"})

\* After a hasMore that said yes, next gives a result.
HasMoreIsHonest ==
  [][said = "yes" /\ ~abandoned /\ lastNext' # lastNext => lastNext' = "given"]_vars

\* An application that reads on comes to the end once the server's result or a
\* cut has arrived.
ReadingEnds == ~acceptReplies ~> (said = "no" \/ abandoned)

\* "discards any results already received": after Abandon there is nothing more.
AbandonDiscards == abandoned /\ pc = "app" => ~HasUnread

\* A search that ends without an error ended with the server's result.
TruncationIsTold ==
  said = "no" /\ ~abandoned =>
    OfAll(arrived, {"success"}) + OfAll(given, {"failure", "referral", "closed"}) > 0
=============================================================================
