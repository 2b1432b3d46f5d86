# astro-scheduler: specification, model checks and proofs

TLA+ modules for the scheduler server of this repository, TLC configurations that check them on small instances, and theorems that TLAPS checks for every instance. `tlc -config X.cfg M` runs a check, `tlapm M.tla` a proof; PROJECT.json names the runs, the source lines behind every definition, the mutants that show what a property can catch, and the hazards of the code.

The repository has no tests and no documents besides comments. As committed it does not compile: scheduler.go uses `container/heap` without importing it and calls two methods its `NodeManager` interface lacks, manager.go defines `SetLoadBalancerStrategy` twice, queue.go imports what it does not use. The models follow the evident meaning.

## 1. Inventory

| Component | State | Operations | Hard because | What makes it correct |
|---|---|---|---|---|
| Scheduler (internal/scheduler/scheduler.go) | `s.mu`, queue, dispatchCh (100), retryCh (50), retry timers | SubmitTask, dispatchTasks each tick, handleRetry per entry of retryCh, MarkTaskRunning/Completed/Failed in HTTP goroutines | sends that block with a lock held; entries dropped when a lock is held; status read, then written by another call; nodes leave in the middle of a round | one dispatch per submission and granted retry; no retry beyond the budget; nothing stranded |
| Ready queue (queue.go) | slice under container/heap | Push, Pop, Peek | index arithmetic | a bag whose head no entry precedes |
| Task store (scheduler/store.go) | task map, event log | four writers, queries, exports | calls in any order | the log replays to the task; queries agree with it |
| Node store and manager (internal/node) | node map: status, running count, last seen | register, deregister, heartbeat, task count, health round | the round lists silent nodes, then marks them one by one without the lock; clients stamp heartbeats and report any status and count; counts revive nodes | one alert per outage; silent nodes are not on offer; counts and statuses agree; agents get their node back |
| Load balancer (loadbalancer.go) | strategy, rrIndex | select | lists in map order; nodes change after listing | a node that is left, the lighter half for urgent tasks |
| Lock (pkg/lock) | map or Redis keys, TTL, identity | TryLock, Lock, Unlock, Extend, Close | late unlocks, expiry at the boundary, one identity per process, restarts | a lease protects whoever relies on it, unless callers overlap that the lock cannot tell apart |
| Archiver (internal/archiver) | records, indexes, policies, archiveCh (100) | AddData, archive loop, failures, downloads, search, listing, cleanup, Stop | storage that fails half way; reads through pointers; two full channels in a row; shutdown; pages cut out of an order that is new at every call | archived means stored; every record accounted for; pages of a search fit together |
| Alert manager (internal/notifier) | alerts, alertCh (100) | CreateAlert, notification loop, resolve, Stop | the send blocks its caller; shutdown | every alert notified once |
| HTTP API and server (internal/api, cmd/server) | requests in progress, main's deferred calls | requests, Shutdown with a timeout of 10 s, the Stops in order | handlers that wait for room in a channel; clients that give up; goroutines nobody waits for | an answer can be relied on; shutdown cuts off nobody in time and ends |
| Agent (cmd/node-agent) | none | registers once, heartbeat every 5 s | either side may restart; answers are not looked at | a running agent's node is on offer again, unless the table lost it |
| Object storage, client library | files or S3 objects | PutObject, URLs, Close; one request per call | partial files, a nil client, no retries | see archiver and server |
| Configuration, logging | values | loading | | not modelled |

Interactions: HTTP goroutines call the scheduler, the node manager, the archiver and the notifier directly. The scheduler calls the node manager (available nodes, counts), the task store, the lock and the notifier; its goroutines meet in `s.mu`, the two channels and the lock table. The archiver uses the lock, the storage and the notifier. Agents know the server only through HTTP. All stores share pointers to their records with their callers, so that a record can change between two reads of one caller.

## 2. Modules

`Identifiers` holds the identifiers all others use.

* **Scheduler** (core; scheduler.go) extends `TaskTable` (store.go, one operator per method), `NodeTable` (node/store.go) and `ReadyQueue`. One action per step that another goroutine can observe: the dispatcher (`dpc`) runs `StartDispatch, LockHead, SelectNode, Assign, CountUp, Send, UnlockDispatch`; the retry loop (`rpc`) `RetryReceive, RetryCheck, RetryIncrement, RetrySpawn, RetryUnlock`; each handler (`hpc`) `Report, CheckStatus, ReleaseNode, UpdateStatus, HandOff, UnlockStatus`; `SubmitTask` and `PushSubmitted` are the two halves of a submission and `Requeue` a timer that fires. `s.mu` is held exactly while `dpc # "idle"`. The lock is the part of pkg/lock the scheduler sees: `Reentrant` and `LockErrors` for Redis, `LeaseExpiry` for keys that time out. `ReceiveDispatched` stands for a reader of `GetDispatchChannel`; the repository has none, and no fairness is assumed of it, so that every behaviour of the program as it is is one of Spec. Two history variables record where the lock gives way: `lostRetries` the failed tasks whose entry handleRetry took out of retryCh before its TryLock failed, `overlapped` the tasks whose status key ran out under a handler, or was re-entered by a second one of the process, until the last of these handlers is done. `SchedulerProperties` states the properties, `AttemptLedger` is the abstract specification it implements (an attempt for the submission, and one at most for each reported failure within the retry limit; `failures` of Scheduler counts the reports), `SchedulerProofs` the proofs, `MCScheduler` the instance.
* **ReadyQueue** is the abstract queue: a bag with `Push` and the removal of a head. **TaskHeap** is the slice with the loops `up` and `down` of container/heap, turn by turn (`UpTurn`, `DownTurn`), position 1 for index 0; `TaskHeapProofs` proves that it implements the bag.
* **TaskLog** is `TaskTable` with the event log, the start and completion times and the queries; the n-th event happens at instant n. **Queries** has the filters, the two ways of paging (`ListPage` counts while it walks, `SlicePage` slices), and what a page is (`Cut` of an order, `PageOf` a set).
* **NodeTable** is the part of node/store.go that Scheduler, NodeHealth and LoadBalancer share. A heartbeat stores its status and running count unchecked: `ReportedStatus` may be any strings and `ReportedLoads` any integers, and the runs use a status that nobody knows and a count below zero.
* **NodeHealth** (manager.go, node/store.go, cmd/node-agent) extends `NodeTable` with what the server knows of time: `age` by the stamp of the last heartbeat, `silence` by the server's clock. `CheckOfflineNodes`, `MarkSuspect` and `ReportOffline` are the three steps of a health round, and `heard` remembers, for the property about alerts, who was heard of or brought back by a task count since it was last marked. `StartAgent` is the agent's main up to the answer 201 or 409, `StopAgent` its end, `RestartServer` empties the table under running agents, and `lost` says whose node was taken from the table since it registered. `NodeHealthProperties`, `NodeHealthProofs`, `MCNodeHealth` belong to it.
* **LoadBalancer** (loadbalancer.go, GetBestNodeForTask): a list in any order, changes to the nodes, then the set of nodes each strategy may return. Integer cross products replace the float division; `RegisterNode` of the API makes every weight positive. Counts start at -1, which a heartbeat may carry and which `leastConnections` takes for no count. A selection reads all statuses and counts at one instant; the code reads them one after the other through pointers, without the store's lock (loadbalancer.go:33-38, 135-139), so that a node may change between two reads of one call, which this module does not show.
* **LeaseLock** (pkg/lock): both locks with leases counted down, identities, waiting callers, Extend, and processes that stop and restart. Nothing makes a caller finish before its lease ends. The history variable `overlapped` has the keys that were given out while a caller was at work under them whose Unlock the lock cannot tell from the new holder's: another caller of the process with RedisLock, one that has overrun its lease with MemoryLock. A key leaves the set when it is taken with nobody at work under it. `LeaseLockProperties`, `LeaseLockProofs`, `MCLeaseLock` belong to it.
* **Channels** counts how often an item is in a channel or in a place. **CommonProofs** holds the lemmas that the proofs of several components cite (section 5).
* **AlertManager** (internal/notifier) and **Archiver** (archiver.go, storage), which composes it: `AddData` and `SendData` of a request, the archive loop (`apc`) from lock to storage to `MarkArchived`'s two writes or `MarkFailed` and the alert, `StopArchiver`, `CloseStorage`. An object in the storage is absent, a part or whole. `GetPresignedURL` says what each kind of storage answers for a record, and `DownloadData` what the handler of the API makes of it.
* **Server** composes Archiver with what is around it (internal/api, pkg/client, cmd/server): `Call` is a client's POST, `HandleAdd` and `FinishAdd` (`HandleAlert`, `FinishAlert`) the two halves of its handler with the send in between, `RaiseAlert` a goroutine of the server; `Signal`, `DeferArchiver`, `DeferNotifier` and `DeferStorage` follow main after a signal. `timedOut` says that Server.Stop left handlers behind. `ArchiverProperties`, `ArchiverProofs`, `MCArchiver` belong to both.
* **DataIndex** (archiver/store.go): the index maps, `SearchData` as intersection, filters, unstable sort and page, `ListData` over a map in any order, the statistics, and what searches and pages promise; `DataIndexProofs`.
* **StoresProperties**, **StoresProofs**: what the log, its queries and the load balancer promise, and the proofs. **MCStores**: an instance in which one of the heap, the log, the index and the load balancer is exercised at a time. They share no state, so that interleaving them would show nothing more.

Definitions named `X_Something` with a comment that begins with "Mutant" are faulty forms of `X` that no specification uses.

## 3. Runs

| Run | Shows | Bounds, and why they are enough |
|---|---|---|
| scheduler_memory | types, ledgers, alerts, no skipped entry, nothing stranded, serialised reports, refinement of AttemptLedger, over MemoryLock, with or without a receiver | two tasks of different priority, so that one overtakes the other; retry limits 2 and none, so that failures may outrun retries and retries the limit; both channels hold one entry, so that each fills up; two handlers for racing reports; 2 reports and 2 node events, enough for a failure, its retry and a node that comes and goes in a round; heartbeats with count -1 and with a status nobody knows |
| scheduler_redis | nothing stranded and no completed task failed when TryLock re-enters, any lock call fails, and keys expire: a retry is lost only by the TryLock of handleRetry, a completed task failed only between overlapping reports; the ledgers over this lock are proved | as above with one node event |
| scheduler_live | waiting tasks dispatched, failed tasks retried, reports answered, rounds end, with nobody who has to receive | one task; one handler and 3 reports: the retry loop has one entry in hand and one in retryCh when the handler waits at its send, and the dispatcher may be stuck at its own send at that time; 3 node events: a node may come, leave in mid-round and return |
| scheduler_completed | **violation**: a completed task is turned back | a late report of running suffices |
| lock_memory | leases protected and exclusive, except under overlapped keys, for callers that may overrun their leases | three callers, so that a third takes the key that a late Unlock freed; two keys; TTL 3 so that renewal and expiry at the boundary both occur; one restart |
| lock_redis | the same for RedisLock, whose late Unlocks and restarts harm no other process; somebody who waits gets a dead process's key | two callers in one process and one in another, two stops each |
| lock_overlap | **violation**: two callers of one process share an identity | three callers, two processes |
| node_health | one alert per outage, silent nodes not on offer, counts and statuses agree, agents' nodes known, silent nodes found, agents return | one free client, which reports counts from -1 and a status nobody knows, and one agent that starts and stops; server restarts without bound; timeout 1, clocks from one tick ahead to two behind; two ticks between rounds |
| archiver | archived is stored, records and alerts accounted for, records given up left alone, answers honest, shutdown clean; records settled, alerts sent, shutdown ends | two records and one more alert, by a client or by the server, over channels of capacity one: the third item always finds a full channel; every storage and lock call may fail; a signal at any point |
| archiver_urls, archiver_limited | **violations**: a download of a half-marked record; a nil S3 client behind a non-nil interface | as above |
| stores | heap implements bag; log replays; answers from the log fit together; searches and pages exact; load spread | five heap entries (three levels, both children), two tasks that tie; five events of three tasks; three records that tie in size and fields; limits and offsets from below zero to past the end, a search without a limit gets 2 instead of 50; three nodes of unequal weight, so that the halves differ in length, and counts from -1 |

`CHECK_DEADLOCK FALSE` stands where the bounds on reports, events or entries are used up or everything was shut down; the lock and node models never stop.

### What the violations say

1. `CompletedIsFinal`: MarkTaskRunning and the dispatcher write without a look at the status, while line 334 calls completed final. A retry timer that fires after a late completion also sends the task out again. The ledger still balances: the task is dispatched once for every retry it was granted.
2. `InstancesExclusive`: RedisLock has one identity per process, re-entry is not counted, and the first Unlock ends the lease of another caller, so that a second instance gets the key. That, and a caller of MemoryLock that overruns its lease, are the only ways to lose a key early: lock_memory, lock_redis and the theorems show the leases of all other keys protected and exclusive. The scheduler's dispatch and retry keys have one caller per process, its status keys one per HTTP request.
3. `DownloadsNameObjects`: a record is read without the lock through the pointer GetData returned. With a local storage, which has no URLs, a download that falls between the two writes of MarkArchived is answered with 200 and an empty path. With S3 it is refused, as the client takes no empty object name.
4. `LimitedMode`: without an S3 endpoint the first record that is archived ends the process.

Also visible in the models and stated by no comment: nothing reads dispatchCh, so that after 101 dispatches the dispatcher waits for ever with `s.mu` held (`DeliveryLedger` says exactly how far it gets, `WaitingTaskDispatched` and `RoundsEnd` that this send is the one thing that stops it, `FailedTaskRetried` and `ReportsAnswered` that failures are still taken up meanwhile); a task on a node that goes offline is assigned again only after a report of failure (`ImplementsAttempts`); records and alerts that are in a channel when the process ends are lost, although the client was told 201 (`AnswersHonest` says what 201 does mean); an agent whose node was lost in a restart sends heartbeats into a 404 for ever (`AgentReturns`); pages of ListTasks, ListData and ListAlerts come from a new order at each call, so that a client who pages through them may miss records and see others twice (`PagesExact`); `Instrument` of a search query is not looked at; the turns of round_robin follow a map order that is new each time.

## 4. Fairness

Go runs every goroutine that can proceed and tickers tick: weak fairness for the dispatcher, the retry loop, each handler past its lock, the archive loop, the notifier, the health checker, and main once it shuts down. `s.mu` and the channels serve waiters in the end (sync.Mutex hands over to a starving waiter, channels are FIFO), also when others keep taking them in between: strong fairness for `PushSubmitted`, `Requeue`, `FinishAdd`, `FinishAlert` and `SendRaised`. A receiver of dispatchCh is not assumed: the two properties that need the dispatcher to move say that it is not for ever at its blocked send, and the other two hold even then. A running agent sends heartbeats by its ticker. In lock_redis time passes and waiters poll. Nothing is assumed of clients, of a request's first step, of agents that start or stop, of signals and restarts, of other nodes, of leases or of lock and storage calls.

## 5. Theorems

SchedulerProofs, for every number of tasks, nodes and handlers, every priority, retry limit and channel capacity, and either lock:

* `TypeCorrect`. The invariant `TypeInv` adds that a goroutine at work has its task (and node) at hand, without which no update is well typed.
* `EntriesNeverSkipped`, from `KeysInUse`: a dispatch key is in the table only while the dispatcher holds it, or after a failed Unlock, which only a reentrant lock can have; the same for the retry keys.
* `LedgerBalances`, `RetriesBounded`, `AlertsAccurate`, from `Accounts`. The ledger is not inductive alone: LockHead would drop an entry if the key could be held, hence `KeysInUse`; RetryIncrement needs the budget checked one step before; and `FreshTasks` says that a task not yet stored has no retries. `DispatchesBounded` follows: never more than 1 + MaxRetries dispatches.
* `DeliveryBalances`, by counting the entries of dispatchCh under Append and Tail (`QueuedAppend`, `QueuedTail`).
* `TasksNeverStranded`, on top of the ledger: it also follows where a failed or queued task is (`AboutToRetry`, `AboutToRun`). The one way out is the TryLock of handleRetry (`lostRetries`).
* `ReportsSerialised` and `CompletedStaysUnfailed`, over either lock, with keys that may expire: each handler past TryLock has its status key in the table, or its task is in `overlapped`, so that outside such an overlap what a handler checked still holds when it writes.
* `LedgerImplemented`: Scheduler implements AttemptLedger; every step maps to a report, a grant, a start or a stutter. That a grant answers a failure of its own is `FailuresCovered`: the retries of a task and what is on its way to one (entries of retryCh, the loop's task, handlers about to send) never outnumber its reported failures. Counting the handlers needs finitely many of them (`HandlerAssumption`).

LeaseLockProofs, for any callers, processes and times to live, over either lock: `LeaseTypeCorrect`, `LeaseProtects`, `LeaseExcludes`. The invariant says, of keys that are not overlapped, that two callers at work under one are told apart by RedisLock, that MemoryLock's entry is that of whoever is at work, and that the entry of a caller that relies on its key is there, is its own, and outlasts its lease.

NodeHealthProofs, for any nodes, agents, clocks and timeout: `HealthTypeCorrect`; `AlertsAreEarned`, where `HealthInv` adds that a node the checker would list was heard of, or brought back, since it was last marked; `CountsAlwaysAgree`; `SilenceIsNoticed`, from `SilenceInv`, which ties `age` to `silence` by the lead of the fastest clock and says what holds, while a round is in progress, of the nodes it did not list; `AgentsAreKnown`.

ArchiverProofs, for any records, alerts and channel capacities: `ServerTypeCorrect`; `RecordsNeverLost` and `AlertsNeverLost`, which count places as the ledger does and need to know which record the loop holds at each `apc`; `GivenUpLeftAlone`; `ArchivedAlwaysStored`, for which the loop must know that the object is whole when it marks a record, and that no marked record is put again; `AnswersAlwaysHonest`; `ShutdownAlwaysClean`, under the assumption that the storage is configured.

TaskHeapProofs, for any tasks, priorities, creation times and lengths of the slice: `HeapImplementsQueue`, the refinement of ReadyQueue. The bag does not say why what is popped is a head; `HeapInv` does: every entry stands behind none that comes after it (`Ordered`). Each turn of `up` keeps the order everywhere but between the rising entry and its parent, each turn of `down` everywhere but between the sinking entry and its children, and both keep the bag. The root, `heap[1]`, precedes all others by induction over the positions.

DataIndexProofs, for any data, fields, values, limits and offsets:

* `SearchAlwaysExact`; `IndexInv` says what every index entry holds, where SearchExact sees an entry only through queries.
* `PagesAlwaysExact`: both ways of paging cut the same page out of an order (`SliceIsCut`, `ListIsCut`), pages have their length, totals add up, and if no two records tie there is only one order (`SortedInOneWay`), so that each record is on exactly one page. `KeptInv` says that only finitely many records are kept; Data itself may be infinite.

StoresProofs, for any tasks, nodes, weights and lengths of log and list:

* `LogAlwaysReplays`, by `LogInv`: the types and the property, which is inductive. One lemma (`LogGrows`) covers the four calls.
* `LogAlwaysAnswers`, by `AnswersInv`, which adds to LogInv that a completed task was not started after its completion and that finitely many tasks are stored. Events are found in order because an answer grows at one end by an event newer or older than all it has (`LogOrderGrows`), and exports equal them because there is one such answer (`LogOrderOnce`); the counts are sums over disjoint sets; the rounded average lies between the least and the greatest duration by `SumBounds`.
* `LoadAlwaysSpread`: each strategy is a walk over the list or a half of it in order of load (`FitSelects`, `LeastIsLeast`, `SortedByLoad`, `Halves`), and all sorted listings have the same loads at the same places (`ListingsAgree`), although equal loads may swap.

CommonProofs has the lemmas these rest on. How Append and Tail change the counts of a channel. Induction: the library's theorems take an operator, so that steps are stated of a set instead (`NatSteps`, `IntervalSteps`, `FiniteSteps`), from `NatLeast`, which follows from the well-foundedness of Nat. Recursion: a loop of the code is a recursive function of a LET; `RecursionExists` says that there is such a function, and what it computes follows with IntervalSteps. Cardinalities and sums (`DisjointUnion`, `SumBounds`). Listings of a finite set in an order (`ListingOfAll`, `SortedListing`, `SortedOnce`).

The proofs rest on the named assumptions about constants in the modules, on the library's theorems about finite sets and well-founded relations, and on nothing else. The assumptions: identifiers that stand for none are no identifiers (`IdentifierAssumption`, `LogAssumption`, `Unset` in `DataAssumption`), and "absent" is the model's word for a node that is not in the table (`HeartbeatAssumption`); priorities, counts in heartbeats, sizes and times are integers; capacities and weights are positive, the weights because `RegisterNode` of the API makes them so; handlers and nodes are finitely many, while tasks and data need not be. ShutdownAlwaysClean assumes more, as said with it.

Every type invariant, safety property and refinement of the passing runs is stated by a theorem. Checked by TLC only: liveness (scheduler_live, KeyTakenOver, SilentNodeFound, AgentReturns, RecordsSettled, AlertsSent, ShutdownEnds), which is out of the prover's reach. TLC checked the inductive invariants before they were proved.

## 6. Not modelled

* Texts, layouts, the counters of nodes that only GetStats reads, the DataID a completion writes, routing, JSON, configuration and logging; failures during start-up, which end the process.
* Stop of the scheduler and of the node manager as actions: both cancel a context and wait for nobody, so that what follows is a behaviour in which their loops take no further step, which the safety properties cover. Liveness is claimed of running loops only.
* Archive policies and the daily cleanup: it takes a lock, reads the policies, logs a date and deletes nothing, and nothing else reads a policy.
* UpdateData, SelectNodeByCapability, GetPendingArchive and the archiver's own DownloadData, which nothing calls. Two of them are wrong as they stand: UpdateData replaces a record without touching the indexes (archiver/store.go:92), Archiver.DownloadData reads a drained reader (archiver.go:227).
* LocalStorage and S3Storage beyond PutObject, PresignedGetURL and Close, which are all the program calls; no object is written twice, as every record is put once.
* The calls of a notification (webhook, mail), which run in goroutines of their own and whose outcome is only logged; eventLoop, whose channel nobody writes.
* The other methods of the client library: the same request with another path. Its giving up after 30 s (scheduler_client.go:374) is no step, as it changes nothing in the server; the handler goes on.
* In Scheduler the load balancer's choice is any available node, since its fallback on a node that went away is the same as a node that goes away right after the choice.

## 7. Plan

Done: all parts of section 2, and a theorem for every safety property a passing run checks. Left:

1. A composition of Scheduler, NodeHealth and an executing agent, which shows what a task on a lost node comes to on the side of the node.
2. The abstract lock of Scheduler as implemented by LeaseLock.
3. The calls of notifications with their cancellation by Stop.
