# AuthTest in TLA+

AuthTest is an ASP.NET Core 2.0 web application (`AuthTest/`) that signs users in with a
JWT carried in a cookie. It comes with a key generator (`CreateKeys/`), a copy of the Novell
LDAP client library (`Novell.Directory.Ldap/`, a project of the solution) and the sources of
BouncyCastle (`BouncyCastle/`). The repository has no tests and no documentation but its
comments, which is what the divergences below are measured against.

The concurrency of the repository is in two places: a lock-free set the web application reads
on every request, and the LDAP client, whose requests, reader threads and timeout threads meet
on shared fields, a hand-made semaphore and several monitors. These are what is modelled.

## 1. Inventory

### The web application (`AuthTest/`)

| part | state | operations | what is hard, what makes it correct |
|---|---|---|---|
| lock-free set, `Code/Routing/NoLockCol.cs` | a field that refers to a set that is never changed | `Add`, `Contains` | compare-and-swap race: no `Add` is lost, readers need no lock |
| language filter, `Code/Routing/LinguaFilter.cs` | the set above, shared by all requests | `OnActionExecuting`, `Add` | several lookups of one request see several sets: the result is a supported language or the default |
| session cookie, `JwtAuthentication.cs`, `Code/CustomAuthTicket.cs` | keys of the process; tokens in browsers | `Protect`, `Unprotect`, `OnValidatePrincipal` | restart with new keys, expiry: a valid token signs in, an invalid one asks for a login |
| pipeline and controllers, `Startup.cs`, `Controllers/` | none between requests | sign in, sign out, pages, error page | order of the middleware: errors can be shown to anybody |
| mail, `Code/Services/MailService/`, `Code/Logger/` | none; the server's outbox | `SendMailImpl`, `Log` | retry after a partial failure: one mail at most, at least one when the server works |
| banned addresses, `Code/BanHammer.cs`, `Code/IPtables.cs`, `Code/CheckExecutable.cs` | sets of addresses, the kernel's rules, the saved rules | ban, unban | the saved rules are the kernel's |
| signatures, `Code/BouncyCrypto/` | none | DER and IEEE P1363 conversions, sign, verify | lengths and leading zeros: the conversions are each other's inverse |
| LDAP samples, `Code/LDAP/` | the directory | list, bind, set password, add user to group | compensation of a half-done change |

### The LDAP client (`Novell.Directory.Ldap/`)

| part | state | operations | what is hard, what makes it correct |
|---|---|---|---|
| write semaphore, `Connection.cs` 437-521 | owner, count, ephemeral id, waiting threads | acquire, free | a lock owned by an id: exclusive, re-entrant, no lost wakeup |
| reader thread, `Connection.cs` 1131-1414 | `reader`, `deadReader`, stop flag, streams | start, stop, wait for, run | one reader per stream, none left behind, no deadlock with the application |
| connection, `Connection.cs` | `clientActive`, messages, bind properties | connect, write, dispose, start and stop TLS | loss of the peer beside every operation: operations return, semaphore returned |
| request, `Message.cs` | replies, `acceptReplies`, `waitForReply`, `complete`, timer | send, put reply, wait, abandon, time out | five threads and no lock on the flags: replies in order, no lost wakeup, an end that is told |
| message agent, `MessageAgent.cs` | its requests, `indexLastRead` | send, get, abandon, merge | several requests and several readers: nobody sleeps over a reply, no request starves |
| clones, `LdapConnection.cs`, `Connection.cs` | `cloneCount`, the field `conn` of each clone | clone, connect, disconnect, bind | a shared socket is closed by the last clone only; who leaves gets a connection of its own |
| results, `LdapSearchResults.cs` | entries, references, positions | `hasMore`, `next`, `Abandon` | batches beside arrivals: complete, in order, honest about the end |
| codecs, controls, extensions, events, schema | none or data only | encode, decode | no behaviour over time |

### How they interact

An application thread calls `LdapConnection`, which makes a `Message`, gives it to the
`MessageAgent` of a queue and to the `Connection`, and writes it under the write semaphore; a
bind keeps the semaphore until it is answered. The reader thread of the connection takes
answers from the socket, finds the `Message` by its id and calls `putReply`, which pulses the
monitor of `replies` and that of the agent. Application threads read through
`LdapMessageQueue.getResponse`, and a search through `LdapSearchResults`. A timeout thread per
request and `Connection.Dispose`, run by the application or by the reader that lost the
connection, call `Message.Abandon`. In the web application all requests share one
`LanguageConfiguration` and so one lock-free set.

## 2. Modules

| module | models | abstract specification | checked by | proved in |
|---|---|---|---|---|
| `NonLockingThreadSafeHashSet` | the set, one action per access to the shared field | `GrowOnlySet` | `MCHashSet` | `HashSetProofs` |
| `WriteSemaphore` | acquire and free, with the monitor's wait set | `ReentrantLock` | `MCWriteSemaphore` | `WriteSemaphoreProofs` |
| `LinguaFilter` | the language of a request, over the set | | `MCHashSet` | `HashSetProofs` |
| `LdapMessage` | one request: `Message`, `getLdapMessage`, `Dispose` | `ResponseQueue`, by `MessageAsQueue` | `MCLdapMessage` | `LdapMessageProofs` |
| `MessageAgent` | several requests, queues and readers | | `MCMessageAgent` | `MessageAgentProofs` |
| `LdapSearchResults` | a search's results, over `ResponseQueue` | | `MCSearchResults` | `LdapSearchResultsProofs` |
| `ReaderThread` | the connection's life and its readers | | `MCReaderThread` | `ReaderThreadProofs` |
| `ConnectionLoss` | the end of a connection with several requests in it | | `MCConnectionLoss` | `ConnectionLossProofs` |
| `SharedConnection` | clones that share a connection | `SharedSocket` | `MCSharedConnection` | `SharedConnectionProofs` |

How they compose: `LinguaFilter` extends the set, so that a request's lookups are the set's
steps. `LdapSearchResults` extends `ResponseQueue`, and `MessageAsQueue` shows that `LdapMessage`
implements `ResponseQueue`: what is shown of results holds over the steps of `Message`.
`ConnectionLoss` puts several requests, the semaphore and `Dispose` together, each in fewer steps
than its own module has. `MessageAgent` and `SharedConnection` do the same for the agent and for
clones.

Operators called MUTANT in a comment are faulty variants of the definition after them. They
are not part of any specification; each shows that a property would notice the fault.

### The lock-free set

The heap holds every set object that was ever allocated and `collection` names the published
one, so that "the set object is never changed" and "the reference is compared" can be said.
`Add` is five steps (read the field, copy, add to the copy, compare and swap, or go round
again), `Contains` two. `MaxAdds` bounds the calls of `Add`. `ImplementsGrowOnlySet` maps the
published object to an abstract set whose `Add` is one step, and the local copy of a thread to
nothing.

### The language filter

Languages are the classes of the comparer `OrdinalIgnoreCase`. A request (`Begin`) has the route's
language and the parsed header; each `Contains` it makes is two steps of the set, in which other
threads add languages. `before` remembers what was supported when the request began. `Construct`
is the static constructor, which ends before anybody uses the class.

### The write semaphore

What runs inside `lock (writeSemaphore)` up to `Monitor.Wait` or the end is one step. A thread
is out of acquire, waiting, or woken and competing for the monitor. `grants`, a history
variable, counts for each id the acquires that returned and were not freed. The smallest int is
a constant, so that the wrap-around of the ephemeral ids is reached. The semaphore refines
`ReentrantLock`, a lock with an owner and a depth. That `freeWriteSemaphore` throws at a thread
that frees what is not held is modelled where it happens, as `FreeBind` of `LdapMessage`.

### One request

Five threads: the caller, the reader, the timer, another application thread that abandons, and
the closer, who runs `Dispose`. The fields of `Message` have no lock, so each access to a flag
other threads depend on is a step; a `lock (replies)` block is a step; the agent's lock, which
a caller of `getResponse()` holds over several steps, is `AgentFree`. Answers are the numbers
`1..Answers`, the last one the result; null, the timeout and "connection closed" are 0, -1
and -2. Places of the program counter follow the statements of `putReply`
(`add`, `stop`, `complete`, `bindprops`, `free`, `pulse`, `pulseAgent`) and of `Abandon` (`abandon`,
`ignore`, `incomplete`, `bindprops`, `free`, `write`, `unlink`, `tell`, `pulse`, `cleanup`): each test
of a field that another thread may clear meanwhile is a place of its own, so that `complete` may be set
and the fields of a bind cleaned up between any two of them. `released` says that `cleanup` has set
`conn`, `msg` and `bindprops` to null. A `NullReferenceException`, the exception of
`freeWriteSemaphore`, or an index out of a list that `cleanup` has emptied takes a thread to `threw`.
Where two statements are one step the comment says why they commute: the test of `waitForReply` with
the clearing of `acceptReplies`, and the taking of a reply with the test behind it. The abandon request
is written under the write semaphore, which other requests may hold for any time: `WriteAbandon` waits
for this bind, and no fairness is assumed of it. When the closer is the reader itself it
would receive no more; the model lets it, which is more than the code does, never less.

### Several requests in one agent

Application threads read any message of a queue, step by step as the loop of `getLdapMessage`
goes: `Enter` the monitor, `Look` at the request after the last one, `Keep` or `Drop` it, `Wait`.
The monitor is `owner` and the sequence `waiting`, for `Pulse` wakes who has waited longest. The
reader thread of the connection ("putter") queues a reply and only then reads which agent to
pulse (`Aim`, `Pulse`); timers do the same; the "user" abandons one request or all, or merges two
queues. `MessageAgent.Abandon` finds the request in the monitor (`Find`) and takes it out of the list
in a step of its own (`AbandonOne`). `Message.Abandon` is one step up to its pulse, its own interleavings are `LdapMessage`'s.
`passed` counts, for every request with replies, how often another one was served, and `overlooked`
remembers the requests that missed a turn because one before them was dropped.

### The connection and its readers

One application thread (0) calls `connect`, `disconnect` and `startTls`; every `startReader`
makes a new reader thread. `sockets` keeps the state of every socket ever opened, so that a
reader that is late can be told from the reader of the present connection. Of the requests only
that of `StartTls` is there. `Dispose` is a step per access to the fields that a failing reader clears
(`close`, `canWrite`, `unbind`, `stop`, `join`, `release`, `closeIn`): `out_Renamed` and `in_Renamed` are
each tested and then used, and a `NullReferenceException` in between leaves `Dispose` with the semaphore
taken. In a reader it leaves its finally block and ends the process (`crashed`). A TLS stream that is
disposed of leaves the socket open (`unbound`), which the server closes. `MaxReaders` and `MaxSockets`
bound the threads and sockets.

### The end of a connection

Each request is a thread that takes the semaphore if it is a bind, joins the list, tests the
streams, writes and sleeps; it may give the request up as `getLdapMessage` does with a finished one
(`GiveUp` to `Cleanup`). The reader brings answers, statement by statement of `putReply` (`AddReply` to
`FreeAnswered`). The closer is the thread in `Dispose`: the reader that lost the connection or was told
that it ends, or an application thread that disconnects, beside the reader. It reads the head of the
list and removes the head in two steps (`Take`, `RemoveHead`), abandons what it read access by access
(`AbandonTest` to `Tell`), and then closes as in `ReaderThread` (`CloseAcquire` to `Close`), the wait for
the reader included; no reader starts again here, so none is left that could clear the streams under the
close itself. So an answer, the closer and the bind's own thread meet on the flags in every
order, and the second free of a semaphore is its exception, to whoever makes it: the bind's thread, the
reader, which then fails, or the closer. `late` remembers the requests that joined the list after it
was emptied, `dropped` those that were removed in the place of another. What a write on a closed stream
comes to is left to choice.

### Clones

Each thread has an `LdapConnection` of its own, made by cloning; `conn` is the `Connection` it
refers to. `destroyClone` is one step under the lock, except that the `Dispose` inside it may wait
for the write semaphore with the lock held. `Connect` then opens outside of any lock. The loss of
the peer and the end of a reader are one step. `SharedSocket` is what cloning promises: a set of
sharers per socket, which somebody alone may close. A semaphore that is left behind by a bind has
the owner `Lost`.

### Search results

`ResponseQueue` is one search in its queue as the thread that reads it can tell: answers arrive,
the result arrives and is settled a step later, a cut (timeout or `Dispose`) decides, clears the
flags and queues its exception in steps of its own. `ImplementsResponseQueue` maps `LdapMessage`
to it. `LdapSearchResults` adds `hasMore`, `next` and `Abandon` in any order, with one step per
turn of the loop in `BatchOfResults`. Every answer has a number, so that a lost and a doubled
entry show: "in order and complete" is said by ranks, the n-th entry given is the n-th that
arrived. The list of entries grows by an uncounted exception for every null that is fetched; `MaxNulls`
bounds how often an application does that.

## 3. What is checked

| run | instance | properties | question |
|---|---|---|---|
| `hash_set` | 2 threads that add, 1 that serves requests, 4 languages, 4 adds | `Inv`, `BestSupported`, `ReadsCompletedAdds`, `SnapshotsImmutable`, `ImplementsGrowOnlySet`, `AddReturns` | is the set what it promises, and is the language chosen the best that was supported? |
| `write_semaphore` | 3 threads, 2 message ids, ints from -3, 5 calls | `Inv`, `EphemeralAlone`, `ImplementsReentrantLock`, `AcquireReturns` | is it a re-entrant lock, and is one `Pulse` per release enough? |
| `message_bind` | a bind read by its id, all five threads, its write may fail | `Inv`, `BindReleases` | is the semaphore given back, is a sleeper always woken? |
| `message_search` | an entry and a result, all five threads, writes may fail | `Inv`, `DeliveredInOrder`, `CallerEnds`, `ImplementsResponseQueue` | are answers in order, does reading end, is it the queue that search results assume? |
| `message_agent` | 3 requests with 2 answers, 2 readers of one queue | `Inv`, `NoReplySleptOver`, `FairTurns` | is one `Pulse` per reply enough, does a busy request starve another? |
| `agent_merge` | 2 requests, 2 queues, 1 reader, a timeout, abandon and merge | `ReplyIsInReach` | is a reply ever out of reach of the readers it wakes? |
| `search_results` | 3 answers and a result, batches of 1, 2 and all, cuts | `TypeOK`, `GivenInOrder`, `NothingKeptBack`, `HasMoreIsHonest`, `ReadingEnds` | is what is given what arrived? |
| `reader_orderly` | 5 connections, none lost | `OneReaderPerSocket`, `OldReaderStopped`, `OpReturns` | can one reconnect again and again? |
| `reader_loss` | 2 sockets, 3 readers, losses | `Inv` | which paths of connect and Dispose return the semaphore? |
| `reader_tls` | `StartTls` that works, is refused, is busy, fails in the handshake | `ConnectedIsRead` | is a connection that says it is connected read? |
| `connection_loss` | a bind and another request, all three endings | `Inv`, `NoSleeperForgotten`, `DisposeEnds` | is everybody woken, is somebody always on the way to free the semaphore of a bind, does `Dispose` end? |
| `shared_connection` | 3 clones, 3 connections, losses, failed reconnections | `Inv`, `AloneAtTheSocket`, `ImplementsSharing` | who closes a shared socket, and does anybody else notice? |

**Why the bounds are enough.** The races of the set and of the semaphore are between two
threads; the third looks on, or overtakes. Two elements and two adds make a lost update
possible, three ints make the ids wrap within five calls. In `LdapMessage` the interesting
difference is between an answer that is not the last and the last one, so two answers have all
cases; each of the other threads acts once in a request's life, as in the code. Three readers
are the old one, the new one and one that meets what the second left; two sockets tell an old
connection from a new one. Three requests are one that is dropped, one
that moves to its place and one that is served meanwhile; two readers are one that is woken and one
that is not; with two answers each a request can be served again before another. A merge needs two
queues; one reader and one answer suffice there, for what can go wrong is the place of a reply. A
bind and another request in the list of a connection, in either order, are a request that waits for the
other's semaphore and one that takes the other's place at the head; a third makes the run too long,
and the theorems hold for any number. Three clones are the last one, one that is not the last, and one that looks on;
no more connections than clones are ever in use. In `hash_set` two threads race over the languages
the constructor did not add, while headers name supported ones, later ones and both. With three answers before the result a batch of two is cut short,
filled exactly, and left half read. Where it could be done, what the runs show for a small
instance is proved for all (section 4).

**Deadlock.** `CHECK_DEADLOCK FALSE` is set where the modelled life ends: a bounded number of
calls, a request that is over, a connection that is not used again. That nobody is left blocked
is what `AddReturns`, `AcquireReturns`, `CallerEnds`, `BindReleases`, `DisposeEnds` and
`OpReturns` say. `search_results` is checked for deadlock as well.

**Fairness.** Threads are scheduled by the operating system, so each has weak fairness for the
steps inside a call, and for nothing it does of its own will. Nothing is assumed of the LDAP
server, except in `ReaderThread` that an outstanding `StartTls` is answered or its connection is
seen to be lost. In `WriteSemaphore` the owner is assumed to free (it does so in a finally block
or when its bind is answered; `BindReleases` is about just that). `LdapMessage` assumes that the
timer's sleep ends, where there is a timer; the other four threads share one condition, which is as
strong as one for each because each of them makes finitely many steps. The write of an abandon request
is not fair there, for the semaphore may be owned by other requests: `CallerEnds` excepts a thread that
waits for it for ever. In `ConnectionLoss` the thread in `Dispose`, the reader inside `putReply` and a
thread inside a write or giving up its request are fair; what the server and the application
do is left open, so that `DisposeEnds` has to except a bind that is never answered, and a reader that
`Dispose` joins and that hears nothing. `AddReturns` needs no strong fairness: a swap fails
only because another one succeeded, and the calls are bounded. `LdapSearchResults` assumes that
the application reads on as the loop of `Code/LDAP/List.cs` 85-103 does; this is strong
fairness, because the application may make other calls in between.

## 4. What is proved

`tlapm` checks the following for every value of the constants: any number of threads, requests,
readers, clones and answers.

| theorem | says |
|---|---|
| `HashSetProofs!Invariance` | types and private copies are right; an `Add` that returned is in the published set |
| `HashSetProofs!ReadersNeedNoLock` | no set object is ever changed once allocated |
| `HashSetProofs!NoStaleRead` | a `Contains` sees every `Add` that returned before it was called |
| `HashSetProofs!Refinement` | the class implements `GrowOnlySet` |
| `HashSetProofs!SetInFilter` | all of this, of the set as the language filter uses it |
| `HashSetProofs!BestLanguage` | `BestSupported`: no request is answered in a language it wanted less than one that was supported when it began |
| `WriteSemaphoreProofs!Invariance` | the two ints tell who is inside; nobody sleeps beside a free semaphore unless another was woken |
| `WriteSemaphoreProofs!Refinement` | the semaphore implements `ReentrantLock` |
| `WriteSemaphoreProofs!EphemeralIsExclusive` | before the ids wrap around, an ephemeral id is held once |
| `LdapMessageProofs!Types` | the type invariant of `LdapMessage` |
| `LdapMessageProofs!Order` | `DeliveredInOrder`: answers in order, none twice, none left out |
| `LdapMessageProofs!NoLostWakeup` | `Inv`: who sleeps while there is something to learn has somebody on the way to wake it |
| `LdapMessageProofs!IsQueue` | a request that is no bind implements `ResponseQueue` (`ImplementsResponseQueue`) |
| `MessageAgentProofs!Monitors` | `Inv`: types, one thread in a monitor, the waiting line is those who sleep in it |
| `MessageAgentProofs!Reach` | `ReplyIsInReach`, with timeouts, abandoning and merging |
| `MessageAgentProofs!Heard` | `NoReplySleptOver`, where requests time out, or have no time limit and are abandoned one by one |
| `MessageAgentProofs!Turns` | `FairTurns`, where nobody abandons or merges |
| `LdapSearchResultsProofs!Types`, `Honest` | `TypeOK`; after a yes of `hasMore` `next` gives a result |
| `LdapSearchResultsProofs!InOrder`, `AllGiven` | `GivenInOrder` and `NothingKeptBack`, when referrals are not to be followed |
| `ReaderThreadProofs!Types` | the type invariant of `ReaderThread`, for all constants |
| `ReaderThreadProofs!SemaphoreComesBack` | `Inv` without `StartTls`: the semaphore is returned by every path of `connect`, and by `Dispose` unless a reader that failed took the stream from under it |
| `ReaderThreadProofs!OneReader`, `OldReaderIsGone` | without `StartTls` and without a loss: one reader per stream, and none left when a socket is opened |
| `ReaderThreadProofs!Read` | without a loss: a connection that says it is connected is read, also after every outcome of `StartTls` |
| `ConnectionLossProofs!Accounting` | `Inv`: an open bind owns the semaphore once, and once more while it is written; who ends it is on the way to free it, and nobody frees it for another |
| `ConnectionLossProofs!NobodyForgotten` | `NoSleeperForgotten`: after a loss nobody sleeps on, but for a request removed in the place of another |
| `SharedConnectionProofs!Counted` | `Inv`: `cloneCount` is one less than the number of users |
| `SharedConnectionProofs!AloneThere` | `AloneAtTheSocket` |
| `SharedConnectionProofs!Implements` | the clones implement `SharedSocket` |

**Assumptions.** The named ones in the modules: constants have their types, message ids are
positive, there are at least two negative ints, a request has at least one answer, the kinds of
threads have different names, there are finitely many clones. Some theorems have a hypothesis of
their own, because without it the code does something else (section 5). `OneReader`,
`OldReaderIsGone` and `Read` assume `MayLose = FALSE`: after a loss a reader that is late meets
its successor. `SemaphoreComesBack`, `OneReader` and `OldReaderIsGone` assume that `StartTls` is not
called: its finally block can throw before it frees. `Turns` assumes `UserOps = {}`: to take a
request out of the list by hand, or to merge lists, moves the place a reader goes on from. `Heard`
assumes that nobody merges lists or abandons all requests, and that none is abandoned that may time
out, for these lose a pulse; it counts threads, so there are finitely many readers and timers.
`IsQueue` is about requests that are not binds: a thread that
frees the semaphore of a bind a second time throws, and then never queues its exception.
`InOrder` and `AllGiven` say nothing of a search whose referrals are to be followed, for these
are dropped. Each hypothesis is that of the runs that check the property.

**The set.** `Inv` is inductive. Its core is that the set named by a thread's local copy is
private until it is swapped in, and is the object the thread read plus its element. Since a
swap compares references and objects are immutable, the published set still equals what was
copied. The refinement follows, as each successful swap adds exactly the argument. `NoStaleRead`
needs `LookInv`: what a `Contains` has to see is in the object it got, and that object is a subset
of the published one.

**The filter.** `SetInFilter` shows that a step of the filter is a step of the set or leaves its
variables alone. `BestLanguage` then rests on `LookInv`. `BestInv` says, for each place of a
request, which languages were refused: each one it asked for so far was not in `before` (the set
when the request began), and the answer of the lookup in progress, if its language was in
`before`, will be yes. Languages that are added meanwhile can only turn a no into a yes, which is
why several lookups in several sets do no harm.

**The semaphore.** `Inv` is inductive as well: the count equals the grants of the owner, others
have none, and a free semaphore with sleepers has a woken thread. The last part needs the rest:
only the owner's last free makes the semaphore free, and it pulses. `EphemeralIsExclusive` needs
a second invariant (`Fresh`): the ids handed out so far are those between the counter and -2,
and no two threads or holders have the same.

**The request.** `DeliveredInOrder` is far from inductive. `OrderInv` adds: what was returned,
the reply in the caller's hands and the replies queued are together the answers `1..m`, in
order, with `m` as far as the reader has come (`Chain`). An abandon that empties the queue
breaks this, and then the caller must be past taking anything (`Cut`) or the reader must not be
about to add the next answer to what was thrown away. The latter (`NoLateAdd`) holds because of
the agent's lock, by way of `Awake`: a caller about to sleep beside an answer still has the
reader between adding and pulsing. Sequence facts (appending an answer, taking the head)
are lemmas of their own, so are the steps that leave the queue alone (`ChainFrame`).

`NoLostWakeup` has an invariant of its own (`WakeInv`). `SleeperWillBeWoken` speaks of the caller
that sleeps; the invariant speaks of it from its last look on, when what it missed (`Unseen`) must
still have a thread before its pulse (`Wakes`). Two threads may free the semaphore of one bind, or
find its connection gone, and the second throws and wakes nobody; so the invariant also says that
whoever frees it first leaves a response to read (`Freed`), that flags are cleared by threads past them only (`FlagsTell`), and that
a request that left the agent has let its caller go (`Gone`).

`IsQueue` is shown step by step: a step of any of the five threads is a step of `ResponseQueue` or
is not noticed (`Unnoticed`). What the queue calls `answered` is not the model's counter, which
counts answers taken from the socket, but the last answer queued; `QueueInv` says that while the
message is in the agent the answers that were returned, that the caller has in its hands and that
are queued are 1..m, and how far m can be from the counter (`Counted`). It also says that a reply
left over in the caller's local was returned (`HandGiven`), and what never comes back: flags that were
cleared, a message that was cleaned up (`Ended`). That the timer and the closer are one decider or
teller each, which the queue only counts, are lemmas on `Cutters`. Once the message has left the
agent nothing of it can be seen (`Hidden`); it leaves when the caller finds it over or when it
is abandoned, and with no other step (`LeavingStep`).

**The agent.** `Monitors` is inductive with the places of every kind of thread (`PlacesInv`); its
lemmas are about the two sequences of the agent, a line that is joined at the end and left at
the head and a list from which a request is removed where it stands. `Reach` adds `ReachInv`: a
request whose replies are wanted is in the list of the agent it names, and, while merge has added
it and not yet renamed it, in the new list too. `Turns` is the longest argument. `HomeInv`
says that without a user each request is in one list, once, and that a thread in the monitor still
has the place from which it started to look. `TurnsInv` says that if s was served while r had a reply,
r comes before s in the order in which the next reader looks (`Ahead`). So s is not looked at
again before r, and r is served or dropped first. Serving moves the origin of that order, dropping
closes a gap in the list and a request is added at the end: each is a lemma on `Ahead`. The one
request that this does not hold of is the one behind a dropped one; that is `overlooked`.

`Heard` counts. Each reply comes with one `Pulse`, which wakes whoever slept longest; that need not
be the reader that takes the reply, and a reader that is awake may have taken it when the pulse comes.
`PulsesInv` has what the count needs: what a reader has in hand in each place (`HandInv`), which flags
are cleared before which (`FlagsInv`), and that a request that is listed and waits for no reply has
timed out and has, or will have, its exception (`ToldInv`). `SleepInv` says of each queue that,
while somebody sleeps, the unread replies (`Unread`) are no more than the readers that are awake and
the pulses on their way (`Awake`, `Coming`), or there is a pulse for each sleeper, or for all but one
where no reply is wanted but those of requests that missed their turn (`Enough`). A reader that walks the
list may have passed a request before its reply came (`Behind`): it has then passed nothing that is
wanted, or a pulse is to come (`Seen`), and before it goes to sleep the count must do without it
(`MaySleep`). Each step keeps these: a reader that falls asleep or takes a reply, a pulse that finds
nobody, a request that is dropped. Lemmas on cardinalities carry the counts: a set that gains or loses
a member changes by one at most.

**Search results.** `ResultsInv` has the types, the queue as far as its reader depends on it
(`QueueInv`), and where the two lists stand in each place of the loop (`ListsInv`); it is enough for
`Honest`, as `said = "yes"` implies something unread as long as nobody empties a list. `OrderInv`
is stated once, for any class of results and either list (`Lined`): of what was taken from the
queue, those of the class are the ones that were given, followed by those in the unread part of
the list; an item of the list has the rank in what arrived that it has in what was given and the
list (`Ranked`), and unless the search was abandoned the totals agree (`Total`). Ranks are
cardinalities of sets of positions (`HowMany`), so that an append or a taken head changes them
by one or not at all. Errors are in the list of entries, which is why a class may be a part of a list.

**Readers.** `TypeInv` needs, besides types, that `startReader` and `connect` find a thread and a
socket left. `SemInv` says by the place of the application whether it owns the semaphore, or lost it to an
exception (`disposeThrew`), and that then the socket is there and the stream is gone.
`OrderlyInv` describes a connection that is not lost: all readers but the last one started are dead,
and where the last one is follows from where the application is. `ReadInv` is weaker and holds with
`StartTls` as well: between the stop of one reader and the start of the next there is none, and at
every other time some reader that has not been told to stop reads.

**The end of a connection.** `AccountInv` says how far each request, the reader and the thread in
`Dispose` are (`Stages`), and what of the semaphore is theirs: a bind has one count while it is open and
one more while it is written; when it is over, whoever found it open, or brought the answer, is on the
way to free it (`OnTheWay`), or its thread has released it too early. `WakingInv` follows the requests:
one that is listed and has no reply is in the list, in the hands of `Dispose`, was dropped in the place
of another, or came late (`Expected`); one that was abandoned is told or about to be (`Told`); and after
a loss the streams were gone before the list was emptied (`Lost`), so that who came late does not go on
to sleep.

**Clones.** `SharingInv` counts the users of a `Connection` as a finite set (`UsersCounted`), says that
a `Connection` nobody uses is fresh, that who works at a socket is alone there (`Alone`), and that a
semaphore is owned by a thread that is at work (`OwnersAtWork`). Each step of a clone is then a step
of `SharedSocket` or none.

The inductive invariants were checked with TLC too, on the instances of the runs.

**Only model-checked.** Liveness (`AddReturns`, `AcquireReturns`, `BindReleases`, `CallerEnds`,
`DisposeEnds`, `OpReturns`, `ReadingEnds`) is out of the prover's reach. Every invariant and every
refinement that a run checks is proved, under the hypotheses above.

## 5. Divergences

Places where the code does not do what its comments say, or what its callers need. Each is stated
as a property of a module that no run checks; with the constants given here TLC finds the
counterexample (with `FairSpec` for the properties that say that something happens).

The request:

- `LdapMessage!FreedOnce`: **the semaphore of a bind is freed twice** (`Message.cs` 355-369 and
  499-516). The reader queues the result before it sets `complete`. A caller that takes it in
  between abandons the finished bind and frees the semaphore; the reader then frees it again, gets
  the exception of `freeWriteSemaphore` (`Connection.cs` 504-511), and ends.
  `LdapConnection.cs` 1526: "The semaphore is released when the bind response is queued."
  `Answers = 1`, `IsBind = TRUE`, `Others = {}`.
- `LdapMessage!CallerEnds` with `ById = TRUE`, `Answers = 2`, `Others = {}`: after the same race the
  next `getResponse(id)` waits on a message that is complete and that nobody pulses again
  (`Message.cs` 161), although it "blocks until a response is available for a particular message
  ID, or until all operations associated with the object have completed or been canceled"
  (`LdapMessageQueue.cs` 153-156).
- `LdapMessage!TheEndIsTold`: a timeout or a disconnection can reach a caller as null, although
  `Connection.cs` 780-782 says that it "will wake with an LdapException". `Answers = 2`,
  `Others = {"closer"}`, `ById = FALSE`, or `{"timer"}` and `ById = TRUE`.
- `LdapMessage!NoTimeoutAfterResult`: the timeout thread tests `IsStopping` before it sleeps, so
  that a finished request can time out (`Message.cs` 584-592; 524 "stops the timeout timer from
  running"). `Answers = 2`, `Others = {"timer"}`.
- `LdapMessage!ReadOutLeavesConnection`: a result that is read before `complete` is set leaves the
  message in the connection's list (`Message.cs` 223). `Answers = 1`, `IsBind = TRUE`.
- `LdapMessage!ReleasedWhenQueued`, with the same constants as `FreedOnce`: **a bind that was answered can
  keep the semaphore** (`Message.cs` 481-513). The reader sets `complete` and then tests `bindprops` and
  uses `conn`. A caller that reads the answer in between abandons the bind, finds it complete and frees
  nothing, and `cleanup` clears both fields (440-445): the reader skips the free, or gets a
  `NullReferenceException` and ends. Every later write waits for ever. `BindReleases` excepts
  just this (`ReadTooEarly`), and `ConnectionLoss!NothingLeaks` says the same beside other requests
  (one bind, `Endings = {}`).
- A bind that cannot be written keeps the semaphore (`LdapConnection.cs` 1527-1529): the run `message_bind`
  lets writes fail, and `BindReleases` has to except a caller that an exception took away.

The connection:

- `ReaderThread!OneReaderPerSocket` with `Ops = {"connect", "startTls"}`, `TlsOutcomes = {"busy"}`,
  two readers, one socket: `StartTls` with operations outstanding starts a second reader, while
  `startReader` "assumes the reader thread is not running" (`Connection.cs` 1128).
- `ReaderThread!OldReaderStopped` and `ClosesOwnSocket` with `MayLose = TRUE`, two readers, two
  sockets: `waitForReader(null)` takes a null `deadReader` for the reader it waits for
  (`Connection.cs` 563), and a late reader closes the socket of the next connection (1061).
- `ReaderThread!JoinReturns` with `MayLose = TRUE`, one reader, one socket: **two threads dispose of
  one connection** (`Connection.cs` 1003). `clientActive` is tested and cleared without a lock. The
  application then joins the reader with the semaphore in hand while the reader waits for the
  semaphore. `Connection.cs` 778: "Only one destroyClone instance is allowed to run at any one time."
- `ReaderThread!JoinReturns` with `Bound = FALSE`, `MayLose = FALSE`: disconnecting a connection
  that was not bound joins a reader whose socket is still open (1044).
- `ReaderThread!DisposeCompletes` with `MayLose = TRUE`, one reader, one socket: **`Dispose` is left by a
  `NullReferenceException` with the semaphore taken**. `Connection.cs` 1024 tests `out_Renamed` and then
  reads it again for `CanWrite`, while a reader that fails sets it to null (1377); `freeWriteSemaphore`
  (1074) is in no finally block. The same holds of `in_Renamed` at 1060. Every later operation on the
  connection waits for ever; where it is the reader that is in `Dispose` the process ends. `Inv` and the
  theorem `SemaphoreComesBack` except this `Dispose` and no other (`disposeThrew`).
- `ReaderThread!StartReaderReturns` with `MayLose = TRUE`: an old reader clears the field that
  names the new one (1412), and `connect` waits for ever.
- `ReaderThread!SemaphoreReturned` with `TlsOutcomes = {"ok"}`, two readers, one socket:
  `startReader` throws inside the finally block of `StartTls`, before the semaphore is freed
  (`LdapConnection.cs` 816-820: "no matter what exceptions get thrown").
- `ReaderThread!TlsAnswerReturns` with `MayLose = TRUE` and `StartTls`: the reader abandons the
  request and blocks on writing the abandon request, for `StartTls` owns the semaphore
  (`Message.cs` 380).
- `ConnectionLoss!EveryoneIsTold` with `Requests = {s}`, `Binds = {}`, `Endings = {"disconnect"}`: a
  request that passed the test of the streams joins the list after it was emptied, is swallowed by
  the closed stream, and its thread sleeps for ever, although "any threads waiting for operations
  on that connection will wake" (`Connection.cs` 780-782). After a loss this cannot happen: that is
  `NoSleeperForgotten`.
- `ConnectionLoss!TakenIsTold` with two requests, `Binds = {}`, `Endings = {"lost"}`: **`Dispose` drops a
  request it never saw** (`Connection.cs` 1010-1011). It reads `messages[0]` and then calls `RemoveAt(0)`;
  a caller that takes its own request from the list in between (`Message.cs` 224) makes that the next
  request, which is never abandoned: its thread sleeps for ever, also after a loss. `NoSleeperForgotten` and
  the theorem `NobodyForgotten` except these requests and no others (`dropped`).
- `ConnectionLoss!DisposeReturns` with a bind and another request, `Endings = {"lost"}`: the reader
  abandons the other request first, and the abandon request needs the semaphore of the bind, which
  only that reader could free (`Message.cs` 380). The comment at 354, "Must do before writing abandon
  message, otherwise deadlock", sees the case of one request.
- `SharedConnection!OneReaderPerStream`, as in `MCSharedConnection`: two clones that bind at once
  while unconnected both connect; the second finds a stream, and starts a second reader of it.
  `connect` says "Synchronized so all variables are in a consistant state and so that another
  thread isn't doing a connect, disconnect, or clone at the same time" (`Connection.cs` 668-671),
  and is not synchronized.
- `SharedConnection!SemaphoreComesBack`, likewise: a bind whose reconnection fails leaves the
  semaphore taken, and every later write and connect on that `Connection` waits for ever, also those
  of other clones.
- "The network connection remains open until all clones have disconnected or gone out of scope"
  (`LdapConnection.cs` 625-626): there is no finalizer, so that a clone that goes out of scope keeps
  `cloneCount` up and the connection open. In `SharedConnection` it is a clone that does nothing any
  more.
- `Connection.Dispose()` does nothing, for the body of `Dispose(bool, ...)` is under `if(!disposing)`
  (`Connection.cs` 988-996).

The agent:

- `MessageAgent!NobodyIsOverlooked` with three requests, one reader, `Answers = 1`: a request that is
  dropped takes the turn of the one behind it. The comment "Start loop at next message that is now
  moved to the current position in the Vector" (`MessageAgent.cs` 392-393) is about a loop that
  starts at the place after it. The thread waits although a reply is queued, until the next one
  comes. `overlooked` remembers such requests, and `NoReplySleptOver`, `FairTurns` and `GetReturns`
  except them and no others.
- `MessageAgent!NoReplySleptOver` is not kept by three things a user can do. `merge` lists a request in
  both queues and pulses once (`MessageAgent.cs` 137-155): `Queues = {q1, q2}`, two requests, two
  readers, `Answers = 2`, `{"merge"}`. `AbandonAll` and `Abandon` take a request out of the list
  without the lock of its readers (lines 252-258 and 234), so that one that walks the list misses the
  next request; if the abandoned one had timed out nobody is pulsed for it: one queue, three requests,
  one reader, `Answers = 1`, `TimeLimited = {r1}`, `{"abandonAll"}` or `{"abandon"}`. The reader sleeps
  beside a reply until the next one comes.
- `MessageAgent!NoEmbrace` with `Queues = {q1, q2}`, two requests, two readers and `{"merge"}`: two
  readers in the monitors of their queues drop requests of the other's and wait for each other.
- `MessageAgent!PollSeesReplies` with two requests, one reader, `Answers = 1`: `isResponseReceived()`
  looks at one place as often as there are requests (`MessageAgent.cs` 184-195), or behind the end
  of the list.
- `AbandonAll` removes from the list that it walks by index: it skips every second request, and
  throws (`MessageAgent.cs` 252-258; the place "threw" of the user in `MessageAgent`).
- `MessageAgent!GetReturns` holds with two requests, two answers and two readers under `ServedSpec`,
  and not with time limits or abandoning: one `Pulse` wakes one of two threads that should both
  return null.
- Timeouts come 10,000 times too early: `new TimeSpan(timeToWait)` counts 100 ns
  (`Message.cs` 588). The models have no real time, and a timeout at any moment.

Search results:

- `LdapSearchResults!TruncationIsTold` with `MaxReplies = 2`, `MaxCuts = 1`: **a search that was cut
  looks complete** (`LdapSearchResults.cs` 184). A null response becomes an exception in the list
  which is not counted, so that `hasMore` says no and `next` never throws it. A null is what a
  reader gets between the two halves of `Message.Abandon`, which writes to the network in between.
- `LdapSearchResults!AbandonDiscards`: after `LdapConnection.Abandon(results)` `hasMore` is still
  true for what was fetched and not read, although it "discards any results already received"
  (`LdapConnection.cs` 879-881). Any batch size.
- `LdapSearchResults!NothingKeptBack` with `Following = {TRUE}`: the following of referrals is
  commented out, so that with `ReferralFollowing` references and referral results are neither
  followed nor thrown (`LdapSearchResults.cs` 131-134, 152-156).
- `Connection.cs` 512 says "wake up all threads" where the code calls `Pulse`. One is enough:
  that is `NoLostWakeup`, a part of `Inv` of `WriteSemaphore`.

The web application:

- `OnValidatePrincipal` rejects every principal (`JwtAuthentication.cs` 106-116), so that a cookie
  signs nobody in for longer than the request that set it.
- The keys are made when the process starts: a token issued before a restart makes `Unprotect`
  throw, where the cookie handler expects null.

## 6. What is not modelled, and why

- The JavaScript under `AuthTest/wwwroot`: copies of published libraries (plotly, d3, jQuery and
  others) and a page script of a few lines. It is most of the lines of the repository and none of
  its logic; all models here are of C# sources.
- The session (`JwtAuthentication.cs`, `CustomAuthTicket.cs`, `Startup.cs`): what the code adds to
  ASP.NET's cookie handler and the token library is stateless, and the handler is not in the
  repository. Its expiry and sliding would be modelled from nothing.
- Mail: one function without state over MailKit, tried again once. Whether a mail goes out twice
  depends on where the library and the server fail.
- `AddUserToGroup`, `SetPassword`, `Bind` of `Code/LDAP`: straight lines of synchronous calls against
  a directory. `IPtables` and `CheckExecutable` start processes and are called from nowhere.
- DER and IEEE P1363 conversions: copied from .NET, and only ECDSA would use them, whose keys are
  never chosen.
- `StopTls`: what closing an `SslStream` does to a read in progress is not in this code.
- Listeners of unsolicited notifications, SASL binds of several steps, `NonLockingCollection`, which
  nothing uses.
- Data races inside `ArrayList`: two threads that add and remove at once may corrupt it. The
  models take each of its operations as atomic.
- Real time, codecs, schema, names, controls, extensions, ETags, HTML, path helpers.
- Randomness and cryptography, BouncyCastle, dead code.

## 7. Plan

The modules planned are there. What is left are the listeners of unsolicited notifications, removed
while they are called (`Connection.cs` 1497), and the ids of requests, which wrap around after 2^31
and may meet one that is outstanding.
