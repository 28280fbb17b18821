# A TLA+ model of RDMAxWiki

RDMAxWiki is a key/value store over RDMA verbs: one server process, `NUM_CLIENTS` (2 in this
build) client processes, reliable-connection queue pairs between them, small values copied in
messages ("eager"), large ones moved by RDMA read and write ("rendezvous"). This directory
models how its clients connect, the protocol they speak, the completion queues and buffers under
it and the key table behind it, model-checks them with TLC and proves with TLAPS the safety
properties of the protocol and that it implements an atomic store.

To run it: `tlasany M.tla` parses; `tlc -config <M>_<run>.cfg <M>` checks an instance
(`CompletionPoll` and `Connect` are their own instances, `CompletionPoll.cfg` and `Connect.cfg`);
`tlapm M.tla` checks the proofs of `KvProofs`, `KvRegionProofs`, `KvStoreProofs` and
`VerbsProofs`, each of which uses those before it, of `TestSuiteProofs`, which uses the first two, and of
`CompletionPollProofs`, `ConnectProofs` and `DatabaseListProofs`. Most take minutes, `VerbsProofs` and `KvStoreProofs` the longest.

## The system

| Component | Source | State | Operations |
|---|---|---|---|
| Key table | `database.c/h` | a linked list of `Item`s: key, value, `is_set`, `num_in_get`, one pending flag per client and kind (`client_set`, `client_get`) | `valid_set`, `valid_get`, `set_item`, `get_value`, the updates of one field |
| Server query handlers | `client.c` 173-513 | the key table, the registered value buffers | `receive_query` → `parse_data` → `server_set_Ask`, `server_set_eager`, `server_set_rendezvous`, `server_set_FIN`, `server_get_Ask`, `server_get_eager/rendezvous`, `server_get_FIN`; `server_pending` at the end of both FINs |
| Client API | `client.c` 61-170, 515-618 | place in the query, arguments, the remote region it was told of | `kv_open`, `kv_set`, `kv_get`, `kv_release`, `kv_close` |
| Message formats | `client.c` | the text in a work buffer | `sprintf` of a request or an answer, `strtok` on the other side |
| Verbs transport | `bw_template.c` | per connection and end: QP, CQ, protection domain, one work buffer for sending and receiving, `routs` receive credits | post send/receive, RDMA read/write, `pp_wait_completions`, `pp_wait_completions_clients` |
| Connection set-up | `bw_template.c` (`init_connection`, `pp_*_exch_dest`), `main.c` | listening socket, TCP connection, QP state | exchange of queue pair addresses |
| Programs | `main.c` | input file, role | server loop, execution of a file of queries |
| Test programs | `main.c` | test, step | `run_tests`, `set_get`, `test_2` to `test_9` |
| Bandwidth benchmark | `bw_template.c` | - | the exercise the transport came from; nothing calls it |

How they interact. `main` of the server connects `NUM_CLIENTS` clients one after the other, then
handles queries for ever. A client asks (`as`, `ag`) and waits for a one-byte ACK or Not-ACK. It
then sends the value or its size (`se`, `sr`) or asks for the value (`g0`). In a rendezvous the
server answers with a registered region, the client moves the bytes itself and says so (`fs`,
`fg`). The last message of every query is an ACK. The server is one thread that polls all
connections round robin and runs one handler per request; the handler of client A may send to
client B, when `server_pending` answers those who were queued on the key.

What is hard about it:

- the grant of a key is made in two places (`server_set_Ask`, `server_pending`) and only one of
  them looks whether the key is free;
- an allowed `ag` is not recorded anywhere: only the later `g0` counts the reader, and a set may
  be allowed in between;
- the old value is deallocated when a set is *allowed*, while regions are read from outside;
- a region belongs to the protection domain of the connection it was set through;
- nothing tells a client's two waits apart but the order in which answers arrive;
- `_add_item` leaves three fields of a new `Item` as `malloc` returned them;
- a client that dies never sends its FIN, and there is no timeout;
- one buffer per connection end is shared by sends and receives, completions of both are counted
  alike, and `send_ACK` writes a byte back after its wait;
- receives are counted in copies of the context, which forget;
- the listening socket is closed after each accept, and nobody looks at the result of `kv_open`.

What makes each part correct:

- key table: updates touch one item, one field; a key has one node; a new item is locked by who
  created it;
- handlers: at most one setter per key, always marked by `is_set`; `is_set` is not left behind; the
  readers of a region are counted; no region in use is deallocated; nobody is queued where no FIN
  will look; to its clients the table behaves as if each query took effect at one instant;
- client API: each wait gets the message it is for; queries return; own writes are read back;
- message formats: a message fits the buffer, a value comes back as it was set;
- transport: FIFO order, no completion lost or taken by the wrong wait, no buffer reused while in
  use, receive credits never run out, no connection starved;
- connection set-up: who may send is paired with a queue pair of its own that is ready; no queue
  pair is spent on a client that was turned away; the server gets to its end.

`PROJECT.json` lists each part with its status, and under `hazards` the lines where these things
can go wrong.

## The modules

| Module | Content |
|---|---|
| `Database` | `database.c` as operators on a function from keys to items |
| `DatabaseList` | `database.c` as operators on the linked list, and their agreement with `Database` |
| `KvProtocol` | the client API, the handlers and the messages between them, over FIFO channels; `Spec` and `FairSpec` |
| `KvProperties` | what the protocol should guarantee, and statements of the sources it breaks |
| `AtomicStore`, `KvStore` | the abstract store, and the mapping that shows `KvProtocol` to implement it |
| `KvInductive` | the inductive invariants, by what they are about: `TypeInv`, `Dialogue`, the regions, who may set and who reads, the attended locks, what each set brings |
| `KvOnVerbs` | `KvProtocol` over completion queues, shared work buffers and receive credits |
| `VerbsProperties` | the mapping to the channels of `KvProtocol`, and statements of the sources the transport breaks |
| `VerbsTimings` | `KvOnVerbs` at any timing: what counts as a clash, whether one has happened, and what holds until and after |
| `VerbsInductive` | the inductive invariant of `KvOnVerbs` up to the first clash: where each message and each completion is |
| `CompletionPoll` | `pp_wait_completions_clients`: which connection is served next |
| `Connect` | `kv_open` of the clients and of the server |
| `Framing` | the text of the messages, by lengths |
| `TestSuite` | `run_tests` as one of the clients of `KvProtocol` |
| `MCKv`, `MCVerbs`, `MCTimings`, `MCFraming`, `MCTestSuite`, `MCDatabaseList` | instances for TLC |
| `SuiteInductive` | the inductive invariant of `SuiteSpec`: how far the tester is and what the table holds under its key |
| `KvProofs` | types, queued gets, `Dialogue` |
| `KvRegionProofs` | who may set a key, what it holds and who reads it: mutual exclusion, values returned, readers counted, regions in use, locks attended |
| `KvStoreProofs` | the refinement of `AtomicStore`, action by action |
| `VerbsProofs` | at any timing: the queue pairs carry the protocol, and with it the atomic store, until the first clash; the receives are accounted for |
| `TestSuiteProofs` | that no test fails |
| `CompletionPollProofs`, `ConnectProofs`, `DatabaseListProofs` | proofs about those modules |

What composes what: `KvProtocol` uses `Database`. `KvOnVerbs` takes the client's steps from
`KvProtocol` (EXTENDS) and the handlers from an instance of it whose channels are the parsed
requests and the answers still to be sent. `TestSuite` puts its steps in place of the free choice of
queries of one client.

### KvProtocol

`db` is the key table, a function from the keys it holds to records with the fields of `Item`;
the key itself is not a field. `client_set` and `client_get` are sets instead of arrays of flags.
`mem` maps the `rkey`s of registered buffers to the protection domain they are registered in, which
is that of the client that set them, and to their content, `Raw` until an RDMA write into it has completed; `next_rkey`
numbers the registrations. `pc[c]` names the wait client `c` is at, `key`, `val`, `rkey`, `got` are
the variables of its running `kv_set` or `kv_get`. `toServer[c]` and `toClient[c]` are the messages in
flight.

One action is the code between two waits of a client, or one `receive_query` of the server: the
key table belongs to the server's thread alone, so nothing interleaves with a handler except the
RDMA operations, which are actions of their own (`RdmaWrite`, `RdmaRead`).

- client, set: `StartSet` → `SetRefused` | `SendValue` | `SendSize` → `SetRecvRkey` → `RdmaWrite` →
  `QueryReturns`;
- client, get: `StartGet` → `GetAllowed` → `RecvValue` → (`GetRecvRkey` → `RdmaRead`) → `QueryReturns`;
- server: `SetAskPended`, `SetAskGranted`, `SetEager`, `SetRendezvous`, `SetFin`, `GetAskPended`,
  `GetAskGranted`, `GetMissing`, `GetNull`, `GetEager`, `GetRendezvous`, `GetFin`, each the whole
  handler with `server_pending` and the final ACK where it calls them (`Finish`);
- faults: `Crash` (only the clients in `Faulty`), `RdmaFails` (the region is no longer registered, or
  is in the domain of another connection), `SendFails` (the server process has died).

An RDMA operation that fails leaves the queue pair in its error state, so the next send of the client
fails and its program ends (`Die`); it stays counted.

A handler that stops half way because a send failed is modelled as it stands: `SetRendezvous` to
a client that is gone leaves the registered buffer and the old value, `GetEager` leaves
`num_in_get` counted. `GetNull` is the read through a null `Value` pointer; it ends the server (`up`
becomes FALSE), after which clients fail at their next post.

### KvOnVerbs

The path of a request is `toServer[c]` (posted) → `sbuf[c]` and an entry of `cq.server[c]` (delivered)
→ `request[c]` (parsed); that of an answer `outbox[c]` → `wire[c]` (posted) → `cbuf[c]` and `cq.client[c]` →
`toClient[c]` (read by the wait that returned). A buffer is the last message put there and, apart, its
first byte, which `send_ACK` replaces and puts back. `PollCq` is `pp_wait_completions(ctx, 1)`: one poll
takes up to `WC_BATCH` completions of either kind and the wait returns. `stage[c]` says in which of its waits
client `c` is, `srv` what the one thread of the server does. The device delivers in order
(`DeliverTo...`) when a receive is posted, and completes a send at any time after (`SendCompletes`).

`RepostInCopy` and the waits of `send_ACK` and `send_data_str` work on a copy of the context, as the code
passes it by value: the receives they take or post again are not counted in the context of the server.

Nothing is assumed of the timing: an answer may arrive before its client has polled for the completion of its
send, a query while the server is still sending to that client. Both ends post sends back to back
(`client.c:226` and 240 of the server's answers), and the completion of a send says only that the other device has acknowledged
it, not that its process has looked. `VerbsTimings` names the three ways in which a timing can break the dialogue:

- two completions lie in one completion queue, where one poll takes both for one wait;
- an answer reaches the buffer of a client that has not read the one before;
- a query reaches the buffer of the server while a `send_ACK` or `send_NACK` waits with the first byte to put back.

`clashed` is TRUE once one of them has happened, `swallowed[c]` counts the queries whose completion the wait for a send
took. Short of a clash a wait may still take the completion of another operation than its own. A wait for a send that takes
the completion of the next message goes on with its send still posted, and the next wait takes the other one; both end
in step. The mapping to the channels of `KvProtocol` covers these cases (`QueryThere`, `AnswerThere`).

### CompletionPoll, Connect

`CompletionPoll` has one action per `ibv_poll_cq` (`PollEmpty`, `PollHit`) and lets a completion arrive between
any two. `passed[c]` counts the services of others since `c` became ready.

In `Connect` the server goes through `at` = open, accept, accepted, read, write, finish for each slot, and to poll after
the last; a client through `stage` = off, connect, write, read, join, open, or to failed. `backlog` are
the TCP connections the kernel has established for the listening socket, `cut` those it has reset. Clients may be
started in any number and at any time; those in `Faulty` may be killed at any point.

### Framing, TestSuite, DatabaseList

`Framing` follows one `kv_set` and the `kv_get` after it. A text is the sequence of the lengths of
its pieces between colons, which is what `strtok` and the buffer size depend on. `at` is "overrun" when a message
has been written past the end of the buffer: what follows is undefined, and the model stops there.

`TestSuite` adds to `KvProtocol` the position in `run_tests`; the tester's queries come from the table
`Tests`, every other client chooses its own.

`DatabaseList` has one operator per function of `database.c` again, each defined by the search from the
head; its `Next` calls any of them with any key.

### What is abstracted

- *Values* are model values, except in `Framing`; what matters is whether `kv_set` sends them eagerly (`Large`).
- *RDMA operations* are one step in all modules, the wait for their completion included: the client does
  nothing else meanwhile, and nobody else polls its queue. That the wait may take another completion is
  modelled for messages only.
- *`get_value`'s* increment is the first thing both `g0` handlers do and is part of them.
- *Malformed requests* are not modelled: no client of the repository sends any. A request that arrives cut
  or overwritten is (`Parsed`).
- *Memory and devices* do not fail: `malloc`, registration, posting and polling succeed, and so does `pp_connect_ctx`
  on either side (`bw_template.c:831` for the client, `Connect.Join`). The failures of the server's `write` and `read` in
  the exchange (`bw_template.c:343-348`, `Connect.WriteAddress` and the read after it) are there as the death of the peer, their one cause left.
- *`server_set_rendezvous`* sends the region (`client.c:314`) before it stores it (327). `SetRendezvous` is one step: what the
  client can do in between, write to the region, touches no field of the table, and its FIN waits for the same thread.
- *Posting receives again* follows every poll that takes a receive. A poll of the server takes one at most, as a client
  has one query under way, so `Repost` is about one.
- *`test_6` to `test_8`* leave a buffer without its final zero; the model takes the value for the string the test
  means.
- *Bounds*: `MaxOps` bounds the queries of a client, as the length of its input file does. `RxDepth` 6 and
  `LowWater` 1 stand for 10000 and 10, so that posting again happens within two queries (the theorems hold for any); `MaxReaders` bounds `num_in_get`
  in `DatabaseList`; `Backlog` is what the kernel makes of `listen(sockfd, 1)`.

## What is checked

Runs of the protocol use one key: items of different keys share nothing but the list, which
`DatabaseList` is about. `MaxOps` is 2 or 3, which is enough for a client to leave something behind
with its first query and trip over it, or make the other trip over it, with its next. Deadlock is
not an error: a client whose input file has ended has stopped, and so has one that waits
for an answer that the code never sends; what must not stop is stated as a liveness property.
(`CompletionPoll` never stops, and is checked for it.)

| Run | Instance | What it shows | States |
|---|---|---|---|
| `shared` | 2 clients, any mix of 3 sets and gets, small and large, fair | `TypeOK`, `SetMutex`, `SetterLocks`, `NoOrphanedLock`, `ReadersCounted`, `NoUseAfterFree`, `GetReturnsValue`, `RepliesInStep`, `PendedGetHasSetter`, `PendedGetsAllowed`, `ImplementsAtomicStore` | 98,203 |
| `faults` | the same with 2 queries; both clients may die, a new item may have a stale `num_in_get` | `Dialogue`, `SetMutex`, `SetterLocks`, `ReadersCounted`, `NoUseAfterFree`, `GetReturnsValue`, `ImplementsAtomicStore` | 50,097 |
| `writers` | 3 clients that only set, one large and two small values, fair | `SetMutex`, `NoOrphanedLock`, `QueriesReturn` | 4,884 |
| `timings` | 2 clients over queue pairs, 2 queries each, one client sets small and large values, both get; any timing | `FifoUntilClash`, `ReceivesAccounted`, `ParsedOnce` | 1,553,108 |
| `polling` | 4 connections | `TypeOK`, `BoundedBypass`, `RequestsServed` | 1,312 |
| `connect` | 3 processes, 2 of which may be killed, 2 slots | `TypeOK`, `PairedWhenOpen`, `SlotsWellSpent`, `OpenEnds`, `ServerMovesOn` | 14,398 |
| `tests` | `test_2` to `test_9` beside a client on a key of its own | `TestsPass`, `SuiteEnds` | 34,048 |
| `list` | 2 keys, new items of two kinds | `KeysDistinct`, `CallsAgree`, `AnswersAgree` | 4,705 |

Four runs look for what a comment or the README of the repository says and the code
does not do; TLC finds each violated:

- `null_value`: client A's `ag` is allowed; B's `as` is allowed, the value becomes null; A's `g0`
  arrives and the server reads `value->is_large` through the null pointer (`ServerSurvives`);
- `stuck_set`: a get that was queued is counted by `server_pending` and again by `get_value`, and
  uncounted once. `num_in_get` stays positive and the next set of the key is queued for ever
  (`PendedSetsAnswered`, under `FairSpec`);
- `lost_answer`: the ACK may arrive before the client has polled for the completion of
  its send; one poll takes both, and the wait for the ACK never returns (`AnswersRead`, under `FairVerbsSpec`);
- `overflow`: with a key of three bytes a value of 4088 to 4092 is sent eagerly and does not fit the buffer with its
  flag and key; with four bytes this starts at 4087 (`MessageFits`).

There are more statements of this kind in the last section of the modules below. The configuration shows each to fail; where it
is one of the runs above or has another property, name the statement in place of that. Most are hazards of
`PROJECT.json` as well, but not among its runs.

| Statement | Module | Configuration | What happens |
|---|---|---|---|
| `RegionsReadable` | `KvProperties` | `MCKv_foreign_region` | a large value is registered in the protection domain of its setter: a get by another client is told of a region it cannot read, its program ends, and it stays counted |
| `RepliesInStep` | `KvProperties` | `MCKv_stale_flags` | a new item whose `client_set` or `client_get` is not zero makes `server_pending` answer a client that has asked nothing, which takes the ACK for the answer to another question |
| `QueriesReturn` | `KvProperties` | `MCKv_missing_key` | a get of a key nobody has set is allowed and then never answered |
| `PendedSetAvailable` | `KvProperties` | `MCKv_null_value`, as a PROPERTY | `server_pending` allows a queued set while a get is counted, although its comment says it checks |
| `ValueAsSent` | `VerbsProperties` | `MCVerbs_overwritten_answer` | the final ACK of `server_get_eager` reaches the buffer before `kv_get` has looked at the value, and replaces its first byte |
| `RequestsIntact` | `VerbsProperties` | `MCVerbs_byte_put_back` | the client's next query arrives while `send_ACK` waits; the byte put back goes over its first one |
| `ServerCanReceive` | `VerbsProperties` | `MCVerbs_receives_lost` | the wait of `send_ACK` takes the completion of the client's next query; the receive is subtracted in the copy of the context, and after enough of them the server has none posted while it counts some |
| `ClientCanReceive` | `VerbsProperties` | `MCVerbs_receives_lost` | a client never posts new receives and comes to its last |
| `EstablishedIsServed` | `Connect` | `Connect` | a client whose TCP connection is established is reset when the listening socket is closed |
| `ValueReturns` | `Framing` | `MCFraming_colon_value` | an eager value is cut at its first colon |

With three clients that get as well, `SetMutex`, `SetterLocks` and `NoUseAfterFree` fail too: the FIN of a
get runs `server_pending`, which allows a queued setter while a third client holds the key (`MCKv_shared`
with `NUM_CLIENTS = 3`). With two, the only client that can be queued when a getter sends
its FIN is the one that would have to hold the key. The build has two clients, so the runs that need
the lock have two, and the theorem about it says so.

### Refinements

`ImplementsAtomicStore`: in `AtomicStore` a query takes effect in one step between its call and its return,
or is refused without any. `KvStore` gives the mapping. A set that is allowed at once takes effect
there: from then on the old value is gone and everybody else is queued, although the new value is not in the table.
A set that was queued leaves the old value readable when it is allowed and takes effect when its `se` or `sr` is
handled. A get takes effect when the server copies the value out, or at its RDMA read. The abstract store
allows what the code does allow itself: the server may die and the table with it; a killed client's
set leaves the old value, the new one or none; a set may be refused, and so may a get (of a
region in another domain). It does not allow a refused or half-done set to be seen, a value nobody has set, or an old
value after a newer one was returned.

`FifoUntilClash`: at any timing, `KvOnVerbs` implements `KvProtocol` up to the first clash: every message lies in one of
the places on its path, in order, and each step of the transport is a step of the protocol or none. So the invariants of
`shared` are invariants of the program with its buffers and queues until then (`VerbsProofs` draws that conclusion for the
atomic store, mutual exclusion, the values returned and the regions in use). After a clash they may fail:
`lost_answer`, `MCVerbs_overwritten_answer` and `MCVerbs_byte_put_back` show one way for each kind.

`CallsAgree` and `AnswersAgree` relate the list to the function of `Database`, call by call.

### Fairness

`FairSpec` of `KvProtocol` is weak fairness of `Serve(c)` and of `Continue(c)` for each client. `Serve`: the
server polls forever, and `CompletionPoll` shows that a request that has arrived is reached
(`RequestsServed`, `BoundedBypass`). `Continue`: a client inside `kv_set` or `kv_get` does nothing but poll
for its message and act on it. Nobody has to start a query, close or die. `PendedGetsAllowed` and
`PendedSetsAnswered` assume `[]up`, so that the crash found by `null_value` is not what refutes or
trivialises them. `FairVerbsSpec` adds that a reliable connection delivers and completes. `FairSpec` of
`CompletionPoll` is the server's loop alone: requests need not arrive. In `Connect` the server and each client that
was started go on; none has to be started, none has to die. `SuiteSpec` adds to `FairSpec` that the test program takes its next step.

### Mutants

Definitions named after what they do wrong (`valid_set_ignores_gets`, `RdmaWrite_skipped`, ...) and commented
"The slip" are plausible slips in the definition that follows them. No specification uses them;
`PROJECT.json` names for every property of every passing run the slip that breaks it.

## What is proved

For every number of keys, values and queries and every workload; for every set of clients that may die but where
the table says otherwise:

| Theorem | Property | Clients | Conditions |
|---|---|---|---|
| `TypeCorrect` | `TypeOK` | any | none |
| `QueuedGetsBehindSet` | `PendedGetHasSetter` | any | none |
| `DialogueHolds` | `Dialogue` | any | `CleanFlags` |
| `AnswersAreExpected` | `RepliesInStep` | any | `CleanFlags` |
| `OneSetterAtATime` | `SetMutex` | at most 2 | `CleanFlags` |
| `SetterIsMarked` | `SetterLocks` | at most 2 | `CleanFlags` |
| `GetsReturnValues` | `GetReturnsValue` | any | `CleanFlags` |
| `ReadersAreCounted` | `ReadersCounted` | any | `CleanFlags`, `CleanCounts` |
| `RegionsInUseStay` | `NoUseAfterFree` | at most 2 | `CleanFlags`, `CleanCounts` |
| `LocksAreAttended` | `NoOrphanedLock` | any | `CleanFlags`, nobody is killed (`Faulty = {}`) |
| `StoreIsAtomic` | `ImplementsAtomicStore` | at most 2 | `CleanFlags`, `CleanCounts` |

For the program over its queue pairs at any timing (`TimedSpec`), for any `RxDepth` and `WC_BATCH` as well:

| Theorem | Property | Clients | Conditions |
|---|---|---|---|
| `QueuePairsAreFifosUntilClash` | `FifoUntilClash` | any | `CleanFlags` |
| `AtomicStoreUntilClash` | the steps of `AtomicStore` up to the first clash, with the messages wherever they are (`StoreUntilClash`) | at most 2 | `CleanFlags`, `CleanCounts` |
| `SafeUntilClashHolds` | `SetMutex`, `GetReturnsValue`, `NoUseAfterFree` unless there has been a clash (`SafeUntilClash`) | at most 2 | `CleanFlags`, `CleanCounts` |
| `ReceivesAreAccounted` | `ReceivesAccounted`, clashes or not | any | none |

For the test program (`SuiteSpec`), in which nobody is killed:

| Theorem | Property | Clients | Conditions |
|---|---|---|---|
| `TestsAlwaysPass` | `TestsPass` | any | `CleanFlags`, `NobodyElse` |

and, for any number of connections, processes and slots, of keys and of items:

| Theorem | Property |
|---|---|
| `PollTypeCorrect` | `TypeOK` of `CompletionPoll`: the sweep stays inside the array of contexts |
| `NobodyPassedOver` | `BoundedBypass` |
| `ConnectTypeCorrect` | `TypeOK` of `Connect` |
| `PairsMatch` | `PairedWhenOpen` |
| `NoSlotForTheTurnedAway` | `SlotsWellSpent` |
| `KeysStayDistinct` | `KeysDistinct` |
| `ListIsTable` | `CallsAgree` |
| `ListAnswersAsTable` | `AnswersAgree` |

The assumptions on the constants are the named ASSUMEs of the modules: at least one
client or connection, a workload over the keys and values, `Raw` and `NULL` not values, a `Heap` of well-typed
field values, `NULL` no value and no message, a receive queue deeper than the low-water mark by more than one query
takes (`VerbsAssumption`). `CleanFlags` says that the bytes `malloc` returned for `client_set` and `client_get` are zero,
which holds of fresh memory and is not ensured by the code; `num_in_get` may still be anything.
Without it `RepliesInStep` fails (a stale flag makes `server_pending` answer a client that did not ask).
`CleanCounts` says that the bytes returned for `num_in_get` are no negative number, zero or not: a negative one hides as
many readers. `Faulty = {}` is what `NoOrphanedLock` needs, as a setter that is killed leaves `is_set` behind for ever;
clients may still end by themselves, when the server is gone or when the region they were told of
is out of their reach. `NobodyElse` says that the other clients leave `key` and `key2` alone, which the tests take for
granted: with somebody else on these keys a set may be refused, or the value be another by the time it is compared.

The argument for the protocol:

1. `TypeInv` adds to `TypeOK` that the arguments of a running query are those it was started with:
   the messages a client sends are typed because of it.
2. `PendedGetHasSetter` is inductive with `TypeInv`. A getter is queued only when `is_set` is TRUE;
   `is_set` is cleared only in the two FIN handlers of a set, and `server_pending`, which follows, either locks the
   key again or empties the queue of getters.
3. `RepliesInStep` is not inductive: a handler answers correctly only if the client is still at the
   wait that its request announced, and `server_pending` only if those it answers wait for
   nothing else. `Dialogue` says so: one request at most, matching the client's label, nothing on its
   way back meanwhile; at most two answers, the second fitting the wait after this one; a queued
   client is at its ask with both channels empty. Each handler is shown to add no client to a
   queue (`QueuesFrom`) but the one whose request it takes.
4. `SetMutex` and `SetterLocks` are inductive together, given `Dialogue`. `server_set_Ask` grants a key
   that is not marked, hence held by nobody. The FIN of a set comes from the holder, so whoever
   `server_pending` picks is the only one. The FIN of a get comes from a client that holds nothing, and if
   another is queued then with two clients it is the only other one, and being queued it holds nothing
   either (`GetterLeavesTheOther`, the one place of this proof that needs `NUM_CLIENTS <= 2`).
5. `GetReturnsValue` follows from `RegionsOwned` (a region that is a value is registered, and the value of one key only)
   and `RawIsBeingSet`: a region without content is one its setter has yet to write, and it is in the protection domain
   of that setter. So another client, which was given the region by mistake while it was raw, cannot read it, and the
   setter itself reads only after it has written. The protection domains that make `RegionsReadable` fail are what
   makes this hold.
6. `ReadersCounted` relates a counter to a cardinality. The steps need only that a handler adds or takes away one reader
   at most, the client it serves (`ServerReaders`), and that the counter moves at least as far (`HandlerCounts`).
   `ReadersKnown` adds that a key that is read is in the table: the counter of an item is never reset.
7. `NoUseAfterFree` needs `ToldIsValue`, that a region a client was told of, is being told or works on is still the value of
   its key, and `SetterAlone`: while a client may set and has not brought its value, nobody else reads the key,
   and a get that was allowed before will find no value. An ask is allowed only with a counter of zero,
   so by `ReadersCounted` there is no reader then. `server_pending` looks at no counter; with two clients the only
   other one has been queued, hence reads nothing.
8. `NoOrphanedLock` needs to know that the setter behind `is_set` goes on. `LocksAttended` says of a client that holds
   the key that the region it was told of is in its own domain and is still the value of the key, so its write does not fail; and of
   a client that is gone that it left nothing with the server.
9. `ImplementsAtomicStore`: `Mappable` joins the invariants so far with `SetsInv`: the region a setter writes is its own and
   raw (`WritersOwn`), the value of a `se` is the one `kv_set` was given (`SentValues`), when a FIN SET is on its way
   the value is there (`FinAfterValue`), and who is gone and left a request behind was killed
   (`LeftByKilled`). `ValueFacts` and `CallFacts` give the two mapped functions case by case; then there is
   one lemma per kind of step: `StartsInvoke`, `SetsGoOn`, `RefusalsRefuse`, `GetsGoOn`, `ReadsApply`, `EndsReturn`,
   `CloseIsQuiet`, `DeathWithRequest` and `DeathWithout` for the client, `GetsAreQuiet`, `EagerApplies`, `NullCrashes`,
   `AsksWait`, `GrantApplies`, `EagerSets`, `RegionSets`, `FinsAreQuiet` and `GetFinAllows` for the handlers. The other
   keys and the other clients' queries are the frame of each (`KeyKept`, `OtherCall`). The step that is least
   expected is `GetFinAllows`: the FIN of a get lets a queued set go, and when the key has no value at that
   time, that set takes effect there.

TLC checked these strengthenings on the instance of `faults` (50,097 states) before they were proved.

For the transport: `VerbsInv` joins to the invariants of the protocol, taken of the two FIFOs that the pieces of each path make
(`Fifo!TypeInv`, `Fifo!Dialogue`), `EndsInStep`: the client's end of a connection and the server's are each in one of a few states,
nothing under way, or one send that is posted, delivered or complete with or without the next message come before its completion
(`ClientEnd`, `ServerEnd`); what lies in a buffer and has not been read is what was sent (`AnswerWhole`, `QueryWhole`); the
server has parsed one query at most (`OneQuery`); who is being sent to is a client (`SendingToClient`). The two parts need
each other. That a message is alone in its buffer follows from `Dialogue`, which allows one request at a time and no answer beside
it; that `Dialogue` goes on to hold follows from the step being a step of the protocol on the FIFOs, which needs the message to
come out of the buffer as it went in.

The invariant is `CarriedUntilClash`: `VerbsInv` unless `clashed`. There is one lemma for each action (`ClientStepCarries` to
`AnswerSentCarries`): it is a step of the FIFOs or none, and keeps `PortsTyped` and `EndsInStep`. That the step is no clash is used in three of
them only, one for each way to clash: `DeliverToServerCarries` (the byte to be put back), `DeliverToClientCarries` (the answer not yet read)
and `SendCompletesCarries` (the second completion). The client runs the protocol on `toServer`, `toClient` and the
server on `request`, `outbox`; `ClientMaps` and `HandlerMaps` take a step on those to the same step on the FIFOs, the first
because a message is appended at the end and taken from the head of the concatenation, the second because all else a handler
reads is shared. `VerbsProofs` cites the proofs of the protocol through instances: `Fifo` is `KvStoreProofs` of the
FIFOs, and `MappedUntilClash`, which adds `Fifo!Mappable` to the invariant, gives the two theorems about the store and about safety.

The receives have an argument of their own, the first in the module, which needs none of this and so goes on after a clash. `RxInv`: for each client
`routs` is above the low-water mark and at most `Held`, the receives posted, those complete in the queue of the server and those
swallowed. A delivery moves one from the first to the second; a poll of the server takes some from the second, and either
`routs` counts them or they were taken in the wait for an answer, which is what `swallowed` adds (`CountCut`: what a poll takes and what it leaves
add up); posting again raises both sides. TLC checked `FifoUntilClash` and `ReceivesAccounted` on the instance of `timings`
(1,553,108 states) before they were proved.

For the tests: `SuiteInv` follows the tester through one `set_get`. In its set (`Setting`) the value is on its way or in the region
it was told of, and when the FIN is sent or the last ACK is awaited it is `Brought`: the table holds it under the key. From then
until the comparison it stays (`Getting`), and whatever the get is answered is that value. What others do cannot
disturb it: they are about other keys (`OthersAway`), and the region of a key of the tests is in the domain of the tester
(`OwnRegions`), out of reach of their writes. No refusal needs to be considered, as only a set that was queued beside
another one is refused. The count a new item starts with needs no condition: if it is of readers that do not
exist, the next set of the key is queued and never allowed, and the suite stops without a failure, which is a matter for `SuiteEnds`. TLC
checked `SuiteInv` on the instance of `tests` (34,048 states) before it was proved.

For the polling: `BoundedBypass` is not inductive. `PollInv` says that for a ready connection the services it has
been passed over by and its distance from the place of the sweep add up to at most `NUM_CLIENTS - 1`: a
service of another one moves the sweep past that one, so the distance shrinks by at least one.

For the set-up: `ConnInv` adds to the two properties where the server is with the queue pair of its slot
(`ServerInv`), that whoever has been told an address, uses it or is about to is the one that queue
pair was connected to, in a slot that will not be opened again (`Told`), and that a process whose connection is waiting or
accepted is not reset and not in another one (`Meeting`).

For the list: `ListInv` (typed nodes, no key twice) is inductive. Under it the search stops at the one node that has the
key (`FirstHasKey`, `ItemOfKey`), so an update of that node is an update of the table at the key (`OnItemInTable`), and a
new head adds one key (`add_item_agrees`); the two theorems about calls and answers follow function by function.

Only model-checked:

- `ParsedOnce`;
- liveness (`QueriesReturn`, `PendedGetsAllowed`, `RequestsServed`, `OpenEnds`, `ServerMovesOn`, `SuiteEnds`): fairness and
  ENABLED are beyond the prover.

## What could come next

1. Clients that die over `KvOnVerbs`: what is left in the queues of a connection whose other end has gone.
2. What is left of the protocol after a clash: which of its guarantees the damage to one connection can break for the others.
3. `ParsedOnce` as a theorem: it speaks of buffers after a clash, where the invariant of the transport ends.

## Not modelled

- The bandwidth benchmark of `bw_template.c`: nothing calls it.
- `test_throughout` (a measurement) and `test_double_client`, which nothing calls.
- Build files and the container: no run-time behaviour.
- Input lines of another form than `execute_query` scans, and its scan of `sr:` lines, where `%s` takes the
  rest of the line and two variables stay as they were: undefined from there on.
- Failures of the device or of `malloc` during set-up, after which the server goes on with a null context.
