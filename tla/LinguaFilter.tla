---------------------------- MODULE LinguaFilter ----------------------------
(***************************************************************************)
(* LanguageConfiguration and LocalizationAttribute of                      *)
(* AuthTest/Code/Routing/LinguaFilter.cs: which language a request is      *)
(* answered in.  A request asks the shared set of supported languages up   *)
(* to once for the language of its route and once for every language of    *)
(* its Accept-Language header, while other threads add languages.          *)
(*                                                                         *)
(* The set is NonLockingThreadSafeHashSet, step by step.  A language is a  *)
(* class of its comparer OrdinalIgnoreCase, so that ToUpper at the end of  *)
(* the filter stays in the class; a header is the sequence ParseAccept     *)
(* makes of it, in which every name has two letters at most.               *)
(***************************************************************************)
EXTENDS NonLockingThreadSafeHashSet, FiniteSets

CONSTANTS
  Supported,        \* what the static constructor adds
  DefaultSelector,  \* the name in a route that stands for no language
  DefaultLanguage,
  Cultures,         \* what routes may say; None for nothing
  Headers,          \* parsed Accept-Language headers
  Adders, Visitors, \* the threads that add languages, and that serve requests
  Creator,          \* the thread that runs the static constructor
  None

ASSUME FilterAssumption ==
  /\ DefaultSelector \in Supported /\ Supported \subseteq Items
  /\ IsFiniteSet(Supported) /\ Cardinality(Supported) <= MaxAdds
  /\ DefaultLanguage \in Items \ {DefaultSelector}
  /\ Cultures \subseteq Items \cup {None} /\ None \notin Items
  /\ Headers \subseteq Seq(Items \ {DefaultSelector})
  /\ Adders \cup Visitors \cup {Creator} \subseteq Threads

VARIABLES
  at,       \* where each visitor is in OnActionExecuting
  culture,  \* local `culture`
  wanted,   \* the route's language and the header
  i,        \* how many languages of the header were asked for
  before    \* history: the languages added when the request began

request == <<at, culture, wanted, i, before>>
filterVars == <<vars, request>>

FilterInit ==
  /\ Init /\ arg = [t \in Threads |-> DefaultLanguage]
  /\ at = [t \in Visitors |-> "free"]
  /\ culture = [t \in Visitors |-> None]
  /\ wanted = [t \in Visitors |-> [culture |-> None, header |-> <<>>]]
  /\ i = [t \in Visitors |-> 0]
  /\ before = [t \in Visitors |-> {}]

\* Nobody uses the class before its static constructor is done.
Ready == Supported \subseteq added

Construct ==
  /\ pc[Creator] = "idle"
  /\ \E s \in Supported \ added : AddCall(Creator, s)
  /\ UNCHANGED request

Extend(t, s) == Ready /\ AddCall(t, s) /\ UNCHANGED request

-----------------------------------------------------------------------------
\* The route says nothing that could be looked up; a null is in no set.
NamesNoLanguage(c) == c \in {None, DefaultSelector}

Begin(t, c, header) ==
  /\ Ready
  /\ at[t] = "free"
  /\ wanted' = [wanted EXCEPT ![t] = [culture |-> c, header |-> header]]
  /\ i' = [i EXCEPT ![t] = 0]
  /\ before' = [before EXCEPT ![t] = added]
  /\ IF NamesNoLanguage(c)
     THEN /\ at' = [at EXCEPT ![t] = "header"]
          /\ culture' = [culture EXCEPT ![t] = None]
          /\ UNCHANGED vars
     ELSE /\ at' = [at EXCEPT ![t] = "route"]
          /\ culture' = [culture EXCEPT ![t] = c]
          /\ ContainsCall(t, c)

\* The language of the route stays if it is supported.
RouteAnswered(t) ==
  /\ at[t] = "route" /\ pc[t] = "idle"
  /\ at' = [at EXCEPT ![t] = IF result[t] THEN "chosen" ELSE "header"]
  /\ culture' = [culture EXCEPT ![t] = IF result[t] THEN @ ELSE None]
  /\ UNCHANGED <<vars, wanted, i, before>>

Ask(t) ==
  /\ at[t] = "header" /\ i[t] < Len(wanted[t].header)
  /\ ContainsCall(t, wanted[t].header[i[t] + 1])
  /\ at' = [at EXCEPT ![t] = "asked"]
  /\ UNCHANGED <<culture, wanted, i, before>>

\* MUTANT: the loop goes on after a match.
NoBreak(t) ==
  /\ at[t] = "asked" /\ pc[t] = "idle"
  /\ at' = [at EXCEPT ![t] = "header"]
  /\ culture' = [culture EXCEPT ![t] = IF result[t] THEN arg[t] ELSE @]
  /\ i' = [i EXCEPT ![t] = @ + 1]
  /\ UNCHANGED <<vars, wanted, before>>

\* The first language of the header that is supported ends the loop.
HeaderAnswered(t) ==
  /\ at[t] = "asked" /\ pc[t] = "idle"
  /\ IF result[t]
     THEN /\ at' = [at EXCEPT ![t] = "chosen"]
          /\ culture' = [culture EXCEPT ![t] = wanted[t].header[i[t] + 1]]
          /\ UNCHANGED i
     ELSE /\ at' = [at EXCEPT ![t] = "header"]
          /\ i' = [i EXCEPT ![t] = @ + 1]
          /\ UNCHANGED culture
  /\ UNCHANGED <<vars, wanted, before>>

Default(t) ==
  /\ at[t] = "header" /\ i[t] = Len(wanted[t].header)
  /\ at' = [at EXCEPT ![t] = "chosen"]
  /\ culture' = [culture EXCEPT ![t] = IF @ = None THEN DefaultLanguage ELSE @]
  /\ UNCHANGED <<vars, wanted, i, before>>

\* The request is answered in the language chosen, and its locals are gone.
End(t) ==
  /\ at[t] = "chosen"
  /\ at' = [at EXCEPT ![t] = "free"]
  /\ culture' = [culture EXCEPT ![t] = None]
  /\ wanted' = [wanted EXCEPT ![t] = [culture |-> None, header |-> <<>>]]
  /\ i' = [i EXCEPT ![t] = 0]
  /\ before' = [before EXCEPT ![t] = {}]
  /\ UNCHANGED vars

Filter(t) == RouteAnswered(t) \/ Ask(t) \/ HeaderAnswered(t) \/ Default(t) \/ End(t)

FilterNext ==
  \/ Construct
  \/ \E t \in Adders, s \in Items : Extend(t, s)
  \/ \E t \in Threads : (AddStep(t) \/ ContainsStep(t)) /\ UNCHANGED request
  \/ \E t \in Visitors :
       Filter(t) \/ \E c \in Cultures, header \in Headers : Begin(t, c, header)

\* The threads of the pool are scheduled.
FilterSpec ==
  /\ FilterInit /\ [][FilterNext]_filterVars
  /\ \A t \in Threads : WF_filterVars((AddStep(t) \/ ContainsStep(t)) /\ UNCHANGED request)

-----------------------------------------------------------------------------
\* The languages the request asks for, the most wanted first.
Preferences(t) ==
  (IF NamesNoLanguage(wanted[t].culture) THEN <<>> ELSE <<wanted[t].culture>>)
    \o wanted[t].header

\* The language chosen is one that is supported by now, or the default; and no
\* language that the request wanted more, and that was supported before it began,
\* was passed over, although each was looked up in a set of its own.  Never is it
\* the selector, whose name is in the set.
BestSupported ==
  \A t \in Visitors : at[t] = "chosen" =>
    LET p == Preferences(t)
        chosen == {n \in DOMAIN p : p[n] = culture[t] /\ p[n] \in Current}
    IN  /\ culture[t] # DefaultSelector
        /\ IF chosen = {}
           THEN culture[t] = DefaultLanguage /\ \A n \in DOMAIN p : p[n] \notin before[t]
           ELSE \E n \in chosen : \A m \in 1..(n - 1) : p[m] \notin before[t]
=============================================================================
