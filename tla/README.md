# A formal model of hubjs

hubjs (`lib/`) is a message hub. Services publish messages over HTTP; the hub
puts them into a RabbitMQ queue for each subscriber, POSTs them to the
subscriber's endpoint, retries what fails after a delay kept in MongoDB, and
buries what fails too often. Any number of hub processes may run on the same
configuration. They share RabbitMQ, MongoDB and Redis and nothing else, and they
coordinate by a Redis lock and a Redis sorted set only.

This directory holds TLA+ modules of that system, the TLC configurations that
check them on small instances, and TLAPS proofs of all their safety properties
and of the refinements that say what the message flow and the bulks promise.
Paths below are relative to the repository's `src/`, and those without a
directory are in `lib/middlewares/`.

## 1. Inventory

| part | state | operations | talks to |
|---|---|---|---|
| Hub (`lib/hub/hub.js`, `middleware.js`) | registry of middlewares, dependency injection | createMiddlewares, initializeMiddlewares, run, stop | every middleware |
| Service (`lib/hub/service.js`), `config/config.js` | manifest | getPublisherOf, getSubscribersOf | Hub, OutQueue |
| API (`api.js`) | none | publish; schedule, dead letter, recurring and archive requests | OutQueue, Scheduler, DeadLetter, Recurring, Archive |
| OutQueue (`out_queue.js`) | exchanges and bindings at the broker | initialize, publish | RabbitMQ, InQueue, Bulk |
| InQueue, RabbitQueue (`in_queue.js`, `rabbit_queue.js`) | queue at the broker, consumer, its prefetch count | enqueue, processQueueMessage, setConcurrency, stop | RabbitMQ, Delivery, Archive |
| Delivery (`delivery.js`) | a coroutine per message | handle, handleResponse | service, Processing, ErrorHandler, Scheduler |
| ErrorHandler (`error_handler.js`) | attemptsMade on the message | handle | Scheduler, DeadLetter |
| Scheduler (`scheduler.js`) | collection `<service>_schedule` | schedule, poll, scheduleNow, delete | MongoDB, LockManager, InQueue |
| DeadLetter (`dead_letter.js`) | collection `<service>_dead_v2` | kill, reenqueue (one, all), delete (one, all) | MongoDB, InQueue |
| LockManager (`lock_manager.js`) | a Redis key with a TTL | tryAcquire, release | Redis |
| Processing (`processing.js`) | a Redis hash | register, unregister | Redis |
| ConcurrencyManager (`concurrency_manager.js`) | a Redis sorted set of reports | adjustConcurrency | Redis, InQueue |
| Recurring (`recurring.js`) | collection `<service>_recurring` | register, unregister, poll | MongoDB, LockManager, InQueue |
| Bulk (`bulk.js`) | buffers in memory, timeouts, a queue at the broker | packBulks, enqueueBulk | RabbitMQ, InQueue |
| Archive (`archive.js`) | collection `<service>_archive` | logAcceptedMessage, replay | MongoDB, InQueue |
| WebServer (`web_server.js`) | HTTP listener | start, stop | API |
| Inspector, Monitor, StatsReporter | logs, gauges | observe only | |
| Transport, Mongo, Redis | connections | connect; Mongo: stop | |

A message goes API → exchange → in queue → Delivery → service. On failure it
goes Delivery → ErrorHandler → Scheduler → (due time, lock) → in queue, or to
DeadLetter. The acknowledgement to RabbitMQ comes last of all
(`rabbit_queue.js:66`), which is what makes the delivery at-least-once. An
administrator may put dead letters back into the in queue. When a hub stops, all
its middlewares stop at once (`hub.js:122`), each closing what is its own.

What is hard:

- every `yield` is a point where other coroutines and other processes run;
  the pollers work on copies of documents they read before;
- a process may die between any two steps; RabbitMQ requeues, MongoDB keeps
  what was inserted, a lock stays until its TTL, a socket's buffer is lost;
- a store may reject an operation that it has applied;
- locks live 60 s, however long their holder takes;
- exceptions under `handleResponse` are taken for failures of the delivery and
  handled a second time (`delivery.js:69-80`);
- dead letters are found, enqueued and deleted in separate steps without a lock,
  while what was enqueued may die again;
- a stop closes MongoDB's connections while the in queue still drains.

`PROJECT.json` lists the hazards one by one with the properties that cover them.

## 2. Modules

| module | models | state |
|---|---|---|
| `HubStore` | what outlives a process, for one service, and the API's effects on it | `inQueue`, `outbox`, `schedule`, `dead`, and the ghosts `accepted`, `released`, `count` |
| `LockManager` | the Redis lock; its unlock script is redlock's and external | `lock` |
| `Scheduler` | pollers and scheduleNow requests, step by step between awaits | `runPc`, `todo`, `sent`, and the ghost `lapsed` |
| `DeadLetters` | reenqueue, reenqueueAll and delete behind the API's routes, step by step | `revivalPc`, `found`, `revived` |
| `Delivery` | processQueueMessage, Archive, Processing, Delivery, ErrorHandler, step by step | `jobs`, `processing`, `minted` |
| `MessageFlow` | composes the five above, with crashes and restarts; all properties of the message flow | |
| `AtLeastOnce` | the abstract specification: what the hub promises for a message, without queues, locks and processes | `state`, `why` |
| `MessageFlowProofs`, `OneCopyProofs`, `AtLeastOnceProofs` | the TLAPS proofs about `MessageFlow`: its invariants; `OneCopy`; that it implements `AtLeastOnce` | |
| `Shutdown` | `Hub.stop` of one process amid deliveries, a poll and HTTP clients | `phase`, `web`, `connected`, `ready`, `jobs`, `shelf`, `due`, `moving` |
| `ShutdownProofs`, `BulkProofs`, `RecurringProofs`, `HubBootProofs`, `ConcurrencyProofs` | the TLAPS proofs about `Shutdown`, `Bulk`, `Recurring`, `HubBoot`, `Concurrency` | |
| `Bulk` | packing of bulks for one message type and service, with crashes and stops | `queue`, `held`, `buffer`, `timers`, `outbox`, `acks`, `inQueue`, `phase` |
| `Recurring` | recurring messages of one service; uses `LockManager` | `docs`, `turn`, `fired`, `posts`, runs as in `Scheduler` |
| `HubBoot` | creation and initialisation of the middlewares, declarations at the broker | `stack`, `visited`, `initialized`, `queues`, `bindings` |
| `Concurrency` | prefetch shares of the processes, with discrete time | `age`, `wait`, `limit`, `current`, `former` |
| `MC*` | values of constants for TLC | |

`HubStore`, `LockManager`, `Scheduler`, `DeadLetters` and `Delivery` extend one
another in that order (`LockManager` is also used by `Recurring`); `MessageFlow`
extends them all. `AtLeastOnce` is instantiated by `MessageFlow` with the
refinement mapping `Phase`: a message is "held" while a queue, a socket, the
schedule, the memory of a poller or of a revival, or a job has it; else "buried"
if it is among the dead letters; else "gone". `Bulk` instantiates it with the
mapping `Stage`: a message is "held" while the broker, a buffer or a socket has
it, also the buffer of a stopped hub, and then "gone". A job counts until its
acknowledgement, since the broker may deliver its message again until then.

Conventions. An action is what happens between two awaits, or the answer to an
await. Where an operation may be rejected there is an action for it, with both
outcomes (applied or not). Mishaps and administrator requests are counted by
kind in `count` and bounded by the constants `Limit` and `Budget`, so that
properties can say "unless a lock ran out under its holder". Ghost variables
record what the code does not keep: `accepted`, `released` (why the hub let go
of a message), `lapsed` (the pollers whose lock has run out under their present
run), `fired`, `wiped`. Definitions called "Mutant" in their comment
are plausible mistakes; they are used nowhere, and each shows that some property
would notice it.

Assumptions on what is not in the repository (external):

- RabbitMQ requeues unacknowledged messages when their connection ends, limits
  each consumer by the prefetch count in force when it was created, takes 0 for
  no limit, closes the channel on a bind to a queue that does not exist, and
  loses none of the messages it has received;
- MongoDB applies single-document operations atomically; an inserted document
  without `_id` gets a fresh one, put by the driver on the object itself;
- `$lt` with a number finds no document whose field is NaN;
- once a MongoDB connection is closed, new operations are rejected, and those in
  flight are rejected, applied or not, or still answered;
- amqplib throws on every use of a closed channel, and what was written to it
  before reaches the broker;
- `server.close` calls back when the last HTTP connection has ended, and idle
  connections are ended by the client or the server's timeout;
- a unique index treats a missing field as a value;
- `redlock` is SET NX PX and a script that deletes the key only for the owner
  (`ReleaseLock`); `lock_manager.js:28-30` only calls it, so that a late poller
  does not free its successor's lock is an assumption here and not a result;
- no hub has declared queues on the broker under another manifest before
  (`NeverOnLateFeed` needs it: with the late queue there, the bind succeeds);
- a supervisor starts a process again that has died.

Abstractions are named in the head comment of each module. The main ones: the
queue is a bag (redelivery destroys the order, and nothing relies on it); a due
time is a flag that becomes true at any time; message contents are left out; one
service is looked at, since services share nothing.

## 3. Runs

Bounds are in the `.cfg` files and `MC*` modules.

| run | instance | what it shows |
|---|---|---|
| `flow_crashes` | 2 hubs with a worker and a poller each, 1 message of 2 attempts, 1 crash, 1 lock running out | `TypeOK`; `OneCopy`: while nothing fails a message has exactly one copy until it is released, though two processes poll the schedule; `NoLeftovers`; `NoUnexplainedLoss`; `PollMutex`: a poller at work has the lock unless its own has run out in that run, also when a poller outlives its lock, a second one takes over and the first returns; `ImplementsAtLeastOnce` |
| `flow_faults` | 1 hub with a worker, a poller, a scheduleNow request and a revival; any 2 of: 2 store errors, a Redis error, a crash, a Retry-After, a scheduleNow, a revival of one or all, a deletion of a scheduled item, of one or all dead letters; 5 kinds of reply | `RetryBudget`; `NoLeftovers` on the ways out of `handle` that fail; `NoUnexplainedLoss`; `ImplementsAtLeastOnce` |
| `flow_live` | 2 hubs, 1 message, 1 crash, store error, Redis error (an unlock included) or Retry-After (seconds or a date) | `Settlement`: every accepted message ends, or waits for a time that is not a number; `ItemsLeave`: no item with a time stays in the schedule, even under an abandoned lock |
| `shutdown` | 2 messages, 2 prefetch slots, a poll, HTTP clients that come and go | `StopLosesNothingElse`, `DrainedFirst`, `StopEnds` |
| `bulk` | 2 hubs, 3 messages, bulks of 2, 1 crash or stop | `NoLoss`, `OneBulk`, `BulksAtLeastOnce`: the bulks keep the promise of `AtLeastOnce` too; `EveryMessagePacked` |
| `recurring` | 1 type, 2 pollers, 2 concurrent POSTs (3 in all), 1 deletion, 1 failed run, 1 lock running out, 2 turns | `OncePerTurn`, `NoTurnSkipped`, `DueIsSent` |
| `boot` | 2 hubs, 2 services, each hub started up to 3 times; 6 manifests and configurations: a good feed, a late one, both; and three that fail for want of a middleware, of the bulk queues, or by naming an in queue first | `EachOnce`, `Complete`, `Routed`, `FailsOnLateFeedOnly`, `NeverOnLateFeed`, `EveryHubStarts` |
| `concurrency` | 3 processes, concurrency 2, so that a share of 0 (no limit) is reached | `LoneProcess`; `Settles`: when no process comes or goes any more and there are two at most, they keep to the limit, also after there have been three |

Four more runs expect a violation and record where the code and what is said of
it disagree:

- `bulk_request`: `clearTimeout` is given the `timeoutId` of its own call, so the
  timeout of a batch that was filled by a later message still fires, and
  enqueues an empty bulk (`bulk.js:49-60`). `test/integration/bulk.js:20-24`
  expects one request. The same stale timeouts cut later batches short; that
  neither loses nor repeats a message (`OneBulk`).
- `recurring_update`: registering a type again replaces the document
  (`recurring.js:45-47`) and the message never recurs again.
  `test/middlewares/recurring.js:26` tests the new content only.
- `boot_order`: `hub.js:83` says the middlewares are initialised according to
  their dependencies. The queues and the concurrency manager depend on each
  other, so the out queue of a service after the first is initialised before its
  own in queue. If such a service subscribes to what it publishes itself, or to
  what a later service publishes, the bind fails and the boot with it.
  `NeverOnLateFeed` shows that this is so on every attempt, of every process, and
  `FailsOnLateFeedOnly` that nothing else makes a boot fail, if each middleware
  has what it needs, bulks have the bulk middleware, and the configuration names
  the API or the out queue before the other middlewares that depend on something
  (`config/config.js` does). One that names an in queue first fails even on a feed
  from the second service to the first. Without the concurrency manager there is
  no cycle and no such failure.
- `concurrency_start`: `test/integration/basic.js:70` says a service is sent up
  to its concurrency even from several processes. A process that joins takes its
  share after its first interval, before the others have given up theirs.
  `Settles` shows that they do, in the end, if timers are punctual and there are no
  more processes than the concurrency (with more, the share of each is rounded
  down to 0, which RabbitMQ takes for no limit).

Why these bounds are enough. Two processes make every race between two pollers,
two deliveries of one message, and a poller and a delivery; nothing in the code
relates three. Two attempts reach both ends of `handle` in the ErrorHandler; one
retry is enough for a message to have been in the schedule. Three items let an
insert whose answer was lost be followed by the second handling's insert; that
second copy is also what meets a revival of the first one's dead letter. One
rejected insert is what it takes to lose a message when the exception handler runs
already (the request threw, or the HSET before it was rejected:
`delivery.js:69-80`); if the service answered, it takes the rejection of two
inserts, or of one after the other was refused as a duplicate, which needs an
earlier mishap. `NoUnexplainedLoss` states both cases, and the two store errors of
`flow_faults` reach both. Two mishaps let each administrator's request meet
another or a failure. A batch of one item leaves others in the schedule when the
lock is released, and a page of one dead letter sends reenqueueAll round its loop.
In `shutdown` two messages are one that is in hand and one that arrives during the
cancelling, or two that fail in one drain (three messages pass as well, at twenty
times the states). For bulks of 2, a third message starts a batch under a stale
timeout. `boot` needs two services because the order among services decides, and
uses the least configuration with the API and the cycle for the search;
`boot_order` uses all of `config/config.js`.

The deadlock check is on for the message flow and the shares. It is off where a
run ends by its bounds or may stop: `bulk` (every message packed), `recurring`
(turns used up), `boot` (everything started, or starts used up), `shutdown` (the
hub has stopped).

Fairness (`FairSpec` in each module). Weak fairness of the process's own steps:
pending promises are settled, timers fire, sockets are flushed, the broker
delivers to a free slot. Weak fairness of restarts (the supervisor) and of the
TTL of a lock that nobody works under. Poll starts are fair as a whole
(`\E p : AcquireLock(p)`): some poller gets the free lock, but no fairness says
which. A service that answers Retry-After for ever can put a message off for
ever; the bound on "putOff" says that it does not. In `Shutdown` the broker need
not deliver and nobody need publish; with finitely many messages the drain comes
to a moment without any in hand. HTTP connections end, at the latest by the
server's timeout. No mishap, and no stop, is ever forced to happen.

## 4. Proofs

Every invariant, every action property and both refinements of the passing runs
are theorems, for all values of the constants: `MessageFlowProofs`, `OneCopyProofs` and
`AtLeastOnceProofs` for any number of processes, messages, items, workers and
revivals, and any bounds on mishaps; `ShutdownProofs` for any number of messages
and slots; `BulkProofs` for any number of hubs and messages and any size of a
bulk; `RecurringProofs` for any number of pollers, requests, types and turns;
`HubBootProofs` for any number of processes and services, any configuration and
any manifest; `ConcurrencyProofs` for finitely many processes, any concurrency,
interval and jitter:

| theorem | property |
|---|---|
| `TypeCorrect` | `TypeOK` |
| `PollMutexHolds` | `PollMutex` |
| `NoLeftoversHolds` | `NoLeftovers` |
| `RetryBudgetHolds` | `RetryBudget` |
| `NoUnexplainedLossHolds` | `NoUnexplainedLoss` |
| `OneCopyHolds` | `OneCopy` |
| `AtLeastOnceHolds` | `ImplementsAtLeastOnce` (the refinement) |
| `StopTypeCorrect` | `Shutdown`'s `TypeOK` |
| `StopLosesNothingElseHolds` | `StopLosesNothingElse` |
| `DrainedFirstHolds` | `DrainedFirst` (an action property) |
| `BulkTypeCorrect`, `BulkNoLossHolds`, `OneBulkHolds` | `Bulk`'s `TypeOK`, `NoLoss`, `OneBulk` |
| `BulksAtLeastOnceHolds` | `BulksAtLeastOnce` (the refinement) |
| `RecurringTypeCorrect`, `OncePerTurnHolds` | `Recurring`'s `TypeOK`, `OncePerTurn` |
| `NoTurnSkippedHolds` | `NoTurnSkipped` (an action property) |
| `BootTypeCorrect`, `EachOnceHolds` | `HubBoot`'s `TypeOK`, `EachOnce` |
| `CompleteHolds`, `RoutedHolds` | `Complete`, `Routed` |
| `FailsOnLateFeedOnlyHolds`, `NeverOnLateFeedHolds` | `FailsOnLateFeedOnly`, `NeverOnLateFeed` |
| `SharesTypeCorrect`, `LoneProcessHolds` | `Concurrency`'s `TypeOK`, `LoneProcess` |

They rest on the assumptions stated in the modules only: the constants' types,
`Free \notin Pollers`, that pollers and requests are distinct, and that there are
finitely many processes to share a service's concurrency; a manifest's feeds are
among its services, and its middlewares among those the repository has.

The argument. `TypeOK` is inductive, and `NoLeftovers` relative to it. `PollMutex`
is part of `MutexInv`, which adds that only a poller at work can have outlived its
lock: a run that begins begins with its lock. Two more need strengthening, stated
like it at the end of `MessageFlow`:

- `BudgetInv`. `RetryBudget` speaks of what is stored; a job has to carry the
  bound from where it took the message to where it puts it. `JobBudget` says, for
  every place a job can be in, how many attempts its message may have made, with
  the one extra attempt that a rejected first insert causes; `RunBudget` says
  the same of the copies a poller holds. The subtle case is a job in the
  exception handler that finds its dead letter already there: without store
  errors that can only be so when the `_id` is taken (`KeyTaken`), and then the
  dead letter keeps its count.
- `LossInv`. Its part `Kept` says that an accepted message has a copy, or has been
  let go with a reason. A poller that deletes an item it has enqueued must not
  delete another's: `ItemsAgree` says that a MongoDB `_id` stands for one message
  in the schedule and in every copy a run holds. `RawKeepsId` says that what the
  broker would redeliver after a crash is the message the job works on. A dead
  letter counts as a copy only while no revival is about to delete it
  (`Overtaken`); a message that dies again in that time is recorded as
  "overtaken", and `RevivalsClear` says that a revival holds nothing it is not at
  work on.

`NoUnexplainedLoss` says besides which mishaps must have come before each reason.
That is `ReasonsInv`: every recorded reason has come true (`Happened`), and a job
in the exception handler got there by what `CaughtAfter` names. The hard case is
an insert refused as a duplicate: before any mishap there is no dead letter to
meet, because the job has the only copy of its message. So the theorem follows
`OneCopy`, in `OneCopyProofs`.

`OneCopy` says that a message has exactly one copy (in the queue, in a socket, in
the schedule, among the dead letters, in a job or in the hands of a run) while
nothing has gone wrong. `CopyInv` adds what keeps a copy from being made twice:
`_id`s are unique in the schedule (`ItemsUnique`), a run that has read nothing has
nothing in hand (`RunsClear`), and what a poller has still to enqueue is in the
schedule, due, and not what it has just enqueued (`StillDue`). The lock makes a
poller the only run at work (`MutexInv`), so nobody else enqueues its items. Each
step then moves one copy, lets it go or leaves it alone.

The proofs go by the four parts of `Next`: one lemma per part, one step per
action. Lemmas about bags, `LetGo`, `Settle` and `HandleError` are stated once
and cited.

The refinement. The mapping is a function of the state (`Phase`), so each step of
`MessageFlow` has to be a step of `AtLeastOnce` or leave `Phase` and `released`
alone. That what is gone stays gone follows action by action: every action that
adds a copy takes it from one that was there, or is `Publish`. That a message goes
only with a reason is `Kept` in the state before and after the step: a firm copy
makes a message "held" or "buried", so one that is neither has a reason.

The stop. `Inv` in `ShutdownProofs` adds three facts to `TypeOK`. `BegunInv`: once
the drain is over no job that was in hand when the stop began is left, from which
`DrainedFirst` follows. `PollInv`: what a poll has read and not yet come to, and
what it is about to delete by an operation issued in time, is still in the
schedule. `LeftInv`: of an accepted message there is, besides what the poll is
about to delete, a copy, or one of the ends that the property names; so a delete
that MongoDB still applies never takes the last trace, as the item was enqueued
while the queue was open.

Bulks. `NoLoss` is not inductive: it does not say why an acknowledged message is
safe. `Inv` in `BulkProofs` says that the broker has what it has no
acknowledgement of (`AtBroker`), that what is acknowledged is in a bulk that has
arrived, in a socket or wiped (`Acknowledged`), and that an acknowledgement still
in a socket follows its bulk (`BulkFirst`), so that the order in which the two
sockets are flushed does not matter. Only a process that runs holds anything
(`Running`).

`OneBulk` says that any two places of a message are the same one, a place being
the queue, or a position in a buffer, in a bulk on its way or in a bulk that has
arrived. `OnceInv` says it for every message of the model. What a step does to the
places is a one-to-one map: a publish makes the only place of a new message, a
buffer that is packed becomes the last bulk of its socket, and a stale timeout
packs what is there, without a second copy.

That `Bulk` implements `AtLeastOnce` needs two more facts. What nobody has in hand
nobody takes up, unless it is published (`NothingFromNothing`): each action takes
what it writes, packs or requeues from a place that counts as in hand. That is
why the buffer of a stopped hub counts although its messages are with the broker
again: a timeout may still pack them. And what is in hand has been published
(`Known`, inductive by the first fact). A message that leaves the last hand is in a
bulk or wiped by `NoLoss`.

Recurring messages. The lock makes the runs exclude each other while it does not
run out (`Mutex`). What a run has in hand has not been sent, and a due document has
not been sent but by the run that will put it off (`Unsent`): a second run finds
nothing due that is. `OncePerTurn` is inductive with these; that a type has one
document (`OneDoc`) is what MongoDB's unique index gives. For `NoTurnSkipped`,
`Current` says that the document a run is going to put off is still the one it has
sent, unless someone has deleted and registered it in the meantime.

The boot. `BootInv` says that what has been initialised has had its needs visited
and, if it is an out queue, its queues bound (`Provided`), and that a hub that has
started has been through everything that is created (`Through`). `EachOnce` says
that what is visited is initialised or under way; with nothing under way, all that
is needed has been initialised and all out queues have bound theirs, which are
`Complete` and `Routed`. No fact about the order of the visits is needed for them.

For the two theorems on late feeds the order is everything. `OrderInv` says how
the stack of calls can look: each call is for a dependency of the one below
(`Called`), the first out queue comes first and visits the in queues by service,
and whatever else belongs to a service follows its in queue (`QueuesInTurn`); an
in queue goes to its concurrency manager before anything else (`ManagerNext`); so
the queues of a later service are initialised inside those of an earlier one
(`QueuesNested`), and the in queues that wait below an out queue on the stack are
of the second service to its own. Hence `FailsOnLateFeedOnly`: all in queues have
been visited when an out queue binds, so a queue that is not declared yet is one
of those that wait, and it is fed late. For `NeverOnLateFeed`,
`LateInv` says that an out queue binds before the in queue of its service is
initialised (`BindsFirst`); so the queue of a late feed would have had to exist
before it was declared, and no hub, however often started, declares it
(`LateUndeclared`). `OrderInv` and `LateInv` were checked by TLC on the instance of
the run and on three services before they were proved.

Shares. A process that is alone counts itself only, since no other has ever
reported (`Untouched`), so its share is the whole concurrency at every report and
its consumer is created once (`Undivided`).

Only model-checked: liveness (`Settlement`, `ItemsLeave`, `StopEnds`,
`EveryMessagePacked`, `DueIsSent`, `EveryHubStarts`, `Settles`), which is out of the
prover's reach and stays with TLC.

## 5. Not modelled

- The archive's replay. It does not work as written: `archive.js:32` calls
  `enqueue` without its queue as `this`, so every call rejects, and `api.js:191`
  looks for `from` in the path. It changes nothing in the hub.
- `Hub.purge` and `RabbitQueue.purge`, which delete queues and are called by tests
  only; the GET routes and `getCount`, which change nothing.
- A DELETE of a recurring message by anything but its `recurringMessageId`, such
  as the type in the README's example: it finds nothing and changes nothing.
- The length of delays (`getDelay`): an item becomes due at any later time.
- Several subscribers of one message: the exchange copies it, and each copy goes
  its own way, one instance of `MessageFlow` each. `HubBoot` checks the bindings.
- Polls of a process after it has stopped (its timers go on, `middleware.js:63`):
  they fail on the closed connection and leave the lock to its TTL. One of them is
  a failed run in `MessageFlow`, but such a process, as long as it lives, may take
  and abandon the lock at every poll. `ItemsLeave` does not cover that: it is
  checked for finitely many failed runs, and nothing in the code makes the other
  processes ever get the lock.
- The loss of a recurring message in the socket of a process that dies:
  `MessageFlow` has it for every message, `Recurring` counts a message as sent
  when it is written to the socket (`rabbit_queue.js:109`).
- What should become of a 1xx or 3xx response: the model acknowledges the message
  as the code does ("ignored"), and no document says more.
- That a revival of all dead letters ends: it does not if its messages keep dying.
- Inspector, Monitor, StatsReporter, Transport, the opening of connections: I/O
  and observation; in `HubBoot` they appear as dependencies.

## 6. Plan

Done, in this order: the message flow with its proofs; bulks; recurring
messages; the boot; the shares; dead letters; at-least-once delivery as an
abstract specification, checked and proved; the stop of a hub, checked and
proved; bulks under a stop; proofs for bulks, recurring messages and shares; that
there is one copy of a message, and one bulk; that bulks keep the promise of
at-least-once delivery; the boot, with the exact condition
under which it fails. To do: `Bulk` composed with the message flow (a bulk is one
message of the in queue, delivered, retried and buried as a whole).
