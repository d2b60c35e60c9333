------------------------------- MODULE HubBoot -------------------------------
(***************************************************************************)
(* Starting a hub (lib/hub/hub.js): the middlewares of the configuration   *)
(* are created, one of each type or one per service, and initialised depth *)
(* first along the dependencies their constructors declare, so that the    *)
(* RabbitMQ queues and exchanges exist before the API accepts messages.    *)
(*                                                                         *)
(* A middleware is marked as visited before its dependencies are: a cycle  *)
(* of dependencies is cut at the middleware where it is entered.           *)
(*                                                                         *)
(* Simplifications.                                                        *)
(*  - Of what initialize() does only the declarations on the broker        *)
(*    matter; connections, indexes and routes succeed.                     *)
(*  - All services share one broker, whose declarations are durable; it    *)
(*    starts without any, as if no hub had run under another manifest.     *)
(*  - A process that fails to boot is given a new start, as one that dies. *)
(***************************************************************************)
EXTENDS Naturals, Sequences, FiniteSets, SequencesExt

CONSTANTS
    Hubs,      \* hub processes
    Services,  \* number of services; a service is its place in the manifest
    Manifests, \* what the hubs may be started with, see Manifest
    MaxBoots   \* how often a process is started

ASSUME ServicesAssumption == Services \in Nat \ {0}
ASSUME BootsAssumption == MaxBoots \in Nat

-----------------------------------------------------------------------------
(* What the constructors declare: dependencies on the instance of the same *)
(* service, on those of each service, and on one the whole hub shares.     *)

Own(type) == [type |-> type, scope |-> "own"]
Each(type) == [type |-> type, scope |-> "each"]
Shared(type) == [type |-> type, scope |-> "hub"]

Stats == Shared("stats_reporter")
None == [needs |-> <<>>, supports |-> <<>>]

API == [needs |-> <<Shared("web_server"), Each("out_queue"), Each("recurring"),
                    Each("scheduler"), Each("dead_letter")>>,
        supports |-> <<Each("archive"), Stats>>]
RabbitQueue == [needs |-> <<>>, supports |-> <<Own("concurrency_manager"), Stats>>]

\* Mutant: an out queue declares only what every queue does.
OutQueueAlone == RabbitQueue

OutQueue == [needs |-> <<Each("in_queue")>>,
             supports |-> RabbitQueue.supports \o <<Each("bulk")>>]
InQueue == [needs |-> <<>>, supports |-> RabbitQueue.supports \o <<Own("delivery")>>]
Bulk == [needs |-> <<Each("in_queue")>>, supports |-> RabbitQueue.supports]
Delivery == [needs |-> <<>>,
             supports |-> <<Own("error_handler"), Stats, Own("processing"), Own("scheduler")>>]
Scheduler == [needs |-> <<Own("in_queue"), Own("lock_manager")>>, supports |-> <<Stats>>]
ErrorHandler == [needs |-> <<Own("scheduler"), Own("dead_letter")>>, supports |-> <<Stats>>]
DeadLetter == [needs |-> <<Own("in_queue")>>, supports |-> <<Stats>>]
ConcurrencyManager == [needs |-> <<Own("in_queue"), Own("out_queue")>>, supports |-> <<>>]
Recurring == [needs |-> <<Own("in_queue"), Own("lock_manager")>>, supports |-> <<>>]
Archive == [needs |-> <<Own("in_queue")>>, supports |-> <<>>]
Monitor == [needs |-> <<>>,
            supports |-> <<Own("in_queue"), Own("out_queue"), Own("dead_letter"),
                           Own("scheduler"), Stats>>]
Inspector == [needs |-> <<>>,
              supports |-> <<Own("dead_letter"), Own("scheduler"), Own("delivery"),
                             Shared("api")>>]

Declared == [api |-> API, out_queue |-> OutQueue, in_queue |-> InQueue, bulk |-> Bulk,
             delivery |-> Delivery, scheduler |-> Scheduler, error_handler |-> ErrorHandler,
             dead_letter |-> DeadLetter, concurrency_manager |-> ConcurrencyManager,
             recurring |-> Recurring, archive |-> Archive, monitor |-> Monitor,
             inspector |-> Inspector, web_server |-> None, stats_reporter |-> None,
             lock_manager |-> None, processing |-> None]

(* What config.js and services.json say.                                   *)
(*  config: the middleware types, in order;                                *)
(*  feeds: <<p, s>> if p publishes a type s subscribes to; bulks: to bulks.*)
Manifest == [config : Seq(DOMAIN Declared),
             feeds : SUBSET ((1 .. Services) \X (1 .. Services)),
             bulks : SUBSET ((1 .. Services) \X (1 .. Services))]

ASSUME ManifestsAssumption == Manifests \subseteq Manifest

-----------------------------------------------------------------------------

\* The types whose isPerService is false.
PerHub == {"web_server", "api", "stats_reporter"}

\* An instance of a type: of a service, or of the hub (service 0).
Instance(type, svc) == [type |-> type, svc |-> IF type \in PerHub THEN 0 ELSE svc]

\* defineDependency: the instance that a declaration d of mw stands for, or the
\* one of service s if d stands for one of each.
Resolve(mw, d, s) == Instance(d.type, CASE d.scope = "each" -> s
                                        [] d.scope = "own" -> mw.svc
                                        [] d.scope = "hub" -> 0)

VARIABLES
    manifest,     \* what the hubs are started with
    queues,       \* the queues that exist, <<"in", s>> or <<"bulk", s>>
    bindings,     \* <<p, q>>: the exchanges of p's messages are bound to the queue q
    status,       \* hub -> "booting", "started", "failed" or "down"
    visited,      \* hub -> the set "visited" of initializeMiddlewares
    stack,        \* hub -> the calls of initializeMiddleware under way, innermost last
    initialized,  \* hub -> middlewares whose initialize() has returned
    boots         \* hub -> how often the process has been started

\* createMiddlewares: what the hub registers, and what get() can find.
Created == {Instance(type, s) : type \in ToSet(manifest.config), s \in 1 .. Services}

\* initializeMiddlewares goes through them as a middleware through what it needs.
TheHub == [type |-> "hub", svc |-> 0]
Middlewares == [needs |-> [i \in DOMAIN manifest.config |-> Each(manifest.config[i])],
                supports |-> <<>>]

DeclaredBy(mw) == IF mw = TheHub THEN Middlewares ELSE Declared[mw.type]
Needs(mw) == {Resolve(mw, d, s) : d \in ToSet(DeclaredBy(mw).needs), s \in 1 .. Services}

brokerVars == <<manifest, queues, bindings>>
hubVars == <<status, visited, stack, initialized, boots>>
vars == <<brokerVars, hubVars>>

Queues == {"in", "bulk"} \X (1 .. Services)

TypeOK ==
    /\ manifest \in Manifest
    /\ queues \subseteq Queues
    /\ bindings \subseteq (1 .. Services) \X queues
    /\ status \in [Hubs -> {"booting", "started", "failed", "down"}]
    /\ visited \in [Hubs -> SUBSET Created]
    /\ stack \in [Hubs -> Seq(Created)]
    /\ initialized \in [Hubs -> SUBSET Created]
    /\ boots \in [Hubs -> 1 .. MaxBoots + 1]

Init ==
    /\ manifest \in Manifests
    /\ queues = {} /\ bindings = {}
    /\ status = [h \in Hubs |-> "booting"]
    /\ visited = [h \in Hubs |-> {}]
    /\ stack = [h \in Hubs |-> <<>>]
    /\ initialized = [h \in Hubs |-> {}]
    /\ boots = [h \in Hubs |-> 1]

\* The services that subscribe to what service p publishes, or to bulks of it.
SubscribersOf(p) == {s \in 1 .. Services : <<p, s>> \in manifest.feeds}
BulkSubscribersOf(p) == {s \in 1 .. Services : <<p, s>> \in manifest.bulks}

\* The queues that buildExchange binds for the messages service p publishes.
QueuesFedBy(p) == ({"in"} \X SubscribersOf(p)) \cup ({"bulk"} \X BulkSubscribersOf(p))

\* Mutant: the in queue declares a queue of another name.
QueuesMisnamed(mw) == IF mw.type = "in_queue" THEN {<<"out", mw.svc>>} ELSE {}

\* The queues that mw.initialize declares.
QueuesOf(mw) == CASE mw.type = "in_queue" -> {<<"in", mw.svc>>}
                  [] mw.type = "bulk" -> {<<"bulk", mw.svc>>}
                  [] OTHER -> {}

\* The innermost call of initializeMiddleware, or initializeMiddlewares itself.
Top(h) == IF stack[h] = <<>> THEN TheHub ELSE Last(stack[h])

(* What a call goes through, by place: the mandatory dependencies (1) and  *)
(* then the optional ones (2), in the order of their declarations and of   *)
(* the services, and in the end the instance.                              *)
Dependencies(mw) ==
    LET declared == <<DeclaredBy(mw).needs, DeclaredBy(mw).supports>>
    IN  UNION {{<<k, i, s, Resolve(mw, declared[k][i], s)>> :
                   i \in DOMAIN declared[k], s \in 1 .. Services} : k \in 1 .. 2}

NotAfter(d, e) == \/ d[1] < e[1]
                  \/ d[1] = e[1] /\ d[2] < e[2]
                  \/ d[1] = e[1] /\ d[2] = e[2] /\ d[3] <= e[3]

\* Mutant: a mandatory dependency that is not configured is passed over.
ToVisitIfCreated(h) ==
    {d \in Dependencies(Top(h)) : d[4] \notin visited[h] /\ d[4] \in Created}

\* What h has not visited yet, an optional dependency only if it exists.
ToVisit(h) ==
    {d \in Dependencies(Top(h)) : d[4] \notin visited[h] /\ (d[1] = 2 => d[4] \in Created)}

\* The first of it.
UpNext(h) == LET unvisited == ToVisit(h)
             IN  {d[4] : d \in {d \in unvisited : \A e \in unvisited : NotAfter(d, e)}}

\* Mutant: a middleware is marked as visited once it has been initialised.
VisitUnmarked(h) ==
    /\ status[h] = "booting"
    /\ \E mw \in UpNext(h) \cap Created :
        /\ stack' = [stack EXCEPT ![h] = Append(@, mw)]
        /\ visited' = [visited EXCEPT ![h] = @ \cup initialized[h]]
    /\ UNCHANGED <<brokerVars, status, initialized, boots>>

\* initializeMiddleware is called for a middleware not visited yet.
Visit(h) ==
    /\ status[h] = "booting"
    /\ \E mw \in UpNext(h) \cap Created :
        /\ stack' = [stack EXCEPT ![h] = Append(@, mw)]
        /\ visited' = [visited EXCEPT ![h] = @ \cup {mw}]
    /\ UNCHANGED <<brokerVars, status, initialized, boots>>

\* A mandatory dependency is not configured: run() throws.
Unresolved(h) ==
    /\ status[h] = "booting"
    /\ ~(UpNext(h) \subseteq Created)
    /\ status' = [status EXCEPT ![h] = "failed"]
    /\ UNCHANGED <<brokerVars, visited, stack, initialized, boots>>

\* Mutant: what the broker says to a bind is not waited for.
InitializeUnheard(h) ==
    /\ status[h] = "booting"
    /\ stack[h] # <<>> /\ ToVisit(h) = {}
    /\ queues' = queues \cup QueuesOf(Top(h))
    /\ initialized' = [initialized EXCEPT ![h] = @ \cup {Top(h)}]
    /\ stack' = [stack EXCEPT ![h] = Front(@)]
    /\ UNCHANGED <<manifest, bindings, status, visited, boots>>

\* The innermost call has no dependency left: mw.initialize() and return.
Initialize(h) ==
    /\ status[h] = "booting"
    /\ stack[h] # <<>> /\ ToVisit(h) = {}
    /\ queues' = queues \cup QueuesOf(Top(h))
    /\ \/ /\ Top(h).type # "out_queue"
          /\ UNCHANGED bindings
       \/ /\ Top(h).type = "out_queue"
          /\ QueuesFedBy(Top(h).svc) \subseteq queues
          /\ bindings' = bindings \cup ({Top(h).svc} \X QueuesFedBy(Top(h).svc))
    /\ initialized' = [initialized EXCEPT ![h] = @ \cup {Top(h)}]
    /\ stack' = [stack EXCEPT ![h] = Front(@)]
    /\ UNCHANGED <<manifest, status, visited, boots>>

(* buildExchange binds a queue that does not exist: the broker closes the  *)
(* channel and initialize() throws, with some of the bindings made.        *)
BindFails(h) ==
    /\ status[h] = "booting"
    /\ stack[h] # <<>> /\ ToVisit(h) = {}
    /\ Top(h).type = "out_queue"
    /\ ~(QueuesFedBy(Top(h).svc) \subseteq queues)
    /\ \E made \in SUBSET (QueuesFedBy(Top(h).svc) \cap queues) :
          bindings' = bindings \cup ({Top(h).svc} \X made)
    /\ status' = [status EXCEPT ![h] = "failed"]
    /\ UNCHANGED <<manifest, queues, visited, stack, initialized, boots>>

\* Mutant: run() does not wait for initializeMiddlewares.
StartAtOnce(h) ==
    /\ status[h] = "booting"
    /\ stack[h] = <<>>
    /\ status' = [status EXCEPT ![h] = "started"]
    /\ UNCHANGED <<brokerVars, visited, stack, initialized, boots>>

\* All are initialised, and run() starts them; the API accepts messages.
Start(h) ==
    /\ status[h] = "booting"
    /\ stack[h] = <<>> /\ ToVisit(h) = {}
    /\ status' = [status EXCEPT ![h] = "started"]
    /\ UNCHANGED <<brokerVars, visited, stack, initialized, boots>>

\* The process dies, at any point of its boot or later.
Crash(h) ==
    /\ status[h] \in {"booting", "started"}
    /\ boots[h] < MaxBoots
    /\ status' = [status EXCEPT ![h] = "down"]
    /\ UNCHANGED <<brokerVars, visited, stack, initialized, boots>>

\* It is started again, with nothing in memory.
Reboot(h) ==
    /\ status[h] \in {"down", "failed"}
    /\ boots[h] <= MaxBoots
    /\ boots' = [boots EXCEPT ![h] = @ + 1]
    /\ status' = [status EXCEPT ![h] = "booting"]
    /\ visited' = [visited EXCEPT ![h] = {}]
    /\ stack' = [stack EXCEPT ![h] = <<>>]
    /\ initialized' = [initialized EXCEPT ![h] = {}]
    /\ UNCHANGED brokerVars

BootProceeds(h) == Visit(h) \/ Unresolved(h) \/ Initialize(h) \/ BindFails(h) \/ Start(h)

Next == \E h \in Hubs : BootProceeds(h) \/ Crash(h) \/ Reboot(h)

Spec == Init /\ [][Next]_vars

\* A boot goes on, and a process that is down is started again.
Fairness == \A h \in Hubs : WF_vars(BootProceeds(h)) /\ WF_vars(Reboot(h))

FairSpec == Spec /\ Fairness

-----------------------------------------------------------------------------

(* ROUTED.  A hub that has started with an API has bound the queues of    *)
(* all subscribers of every message: nothing the API accepts is dropped by *)
(* an exchange that has no binding for one of them yet (out_queue.js:13-30,*)
(* api.js:26), whatever crashes came before and whichever hub made which   *)
(* declaration.                                                            *)
Routed ==
    \A h \in Hubs : status[h] = "started" /\ Instance("api", 0) \in Created =>
        \A p \in 1 .. Services : {p} \X QueuesFedBy(p) \subseteq bindings

(* EACH ONE ONCE.  Although the dependencies are cyclic, no middleware is  *)
(* initialised while its initialisation is under way, and those not under  *)
(* way have been initialised (hub.js:70-81).                               *)
EachOnce ==
    \A h \in Hubs : /\ IsInjective(stack[h])
                    /\ visited[h] = initialized[h] \cup ToSet(stack[h])
                    /\ initialized[h] \cap ToSet(stack[h]) = {}

(* FAILS ONLY ON A LATE FEED.  A boot fails only without a middleware that *)
(* is needed, or with a configuration that names another dependent one     *)
(* before the API and the out queue, or with a manifest in which some      *)
(* service but the first is fed by itself or by a later one: the out queue *)
(* of that publisher is initialised, through its concurrency manager,      *)
(* before the in queue it has to bind (hub.js:70-81, out_queue.js:13-25).  *)
LateFeed == \E feed \in manifest.feeds : 1 < feed[2] /\ feed[2] <= feed[1]
Resolvable ==
    /\ \A type \in ToSet(manifest.config) :
           {d.type : d \in ToSet(Declared[type].needs)} \subseteq ToSet(manifest.config)
    /\ manifest.bulks # {} => "bulk" \in ToSet(manifest.config)
OutQueuesFirst ==
    \E k \in DOMAIN manifest.config :
        /\ manifest.config[k] \in {"api", "out_queue"}
        /\ \A j \in 1 .. k - 1 : Declared[manifest.config[j]] = None

Bootable == Resolvable /\ OutQueuesFirst /\ ~LateFeed

FailsOnLateFeedOnly == (\E h \in Hubs : status[h] = "failed") => ~Bootable

(* NEVER ON A LATE FEED.  With the concurrency managers configured no hub  *)
(* ever starts on such a manifest: nothing that the boots which failed or  *)
(* were cut short have declared lets a later one, or another process, get  *)
(* through (hub.js:70-81, out_queue.js:13-25).  Like all of this module it *)
(* is about a broker that starts without queues; one that still has the    *)
(* late queue, declared under another manifest, lets the hub through.      *)
Managed == Resolvable /\ OutQueuesFirst /\ "concurrency_manager" \in ToSet(manifest.config)

NeverOnLateFeed == Managed /\ LateFeed => \A h \in Hubs : status[h] # "started"

(* EVERY HUB STARTS.  Otherwise every hub process gets through its boot,   *)
(* in spite of the crashes of its own and of the others.                   *)
EveryHubStarts == Bootable => \A h \in Hubs : <>[](status[h] = "started")

(* COMPLETE.  A hub starts only when every middleware has had each of its  *)
(* mandatory dependencies injected and that one has been initialised       *)
(* (hub.js:61-68), if not before it then at least before the start.        *)
Complete ==
    \A h \in Hubs : status[h] = "started" =>
        \A mw \in Created : Needs(mw) \subseteq initialized[h]

(* NEEDS FIRST.  When an out queue is about to be initialised, the in      *)
(* queues it needs have been: hub.js:83 has the middlewares initialised    *)
(* "according to their dependencies list".                                 *)
NeedsFirst ==
    \A h \in Hubs :
        (/\ status[h] = "booting" /\ stack[h] # <<>> /\ ToVisit(h) = {}
         /\ Top(h).type = "out_queue")
            => {Instance("in_queue", s) : s \in 1 .. Services} \subseteq initialized[h]

-----------------------------------------------------------------------------
(* What makes the invariants above inductive; the proofs use these.        *)

\* What has been initialised has had its needs visited, and its queues bound.
Provided ==
    \A h \in Hubs : \A mw \in initialized[h] :
        /\ Needs(mw) \subseteq visited[h]
        /\ mw.type = "out_queue" => {mw.svc} \X QueuesFedBy(mw.svc) \subseteq bindings

\* A hub that has started has been through all its middlewares.
Through == \A h \in Hubs : status[h] = "started" => stack[h] = <<>> /\ Created \subseteq initialized[h]

BootInv == EachOnce /\ Provided /\ Through

In(s) == Instance("in_queue", s)
Out(s) == Instance("out_queue", s)
Manager(s) == Instance("concurrency_manager", s)

\* What is initialised has its queues, in every configuration.
Declares == \A h \in Hubs : \A mw \in initialized[h] : QueuesOf(mw) \subseteq queues

\* Every call is made for a dependency of the one below it.
Called(h) == \A i, j \in DOMAIN stack[h] :
                j = i + 1 => stack[h][j] \in {d[4] : d \in Dependencies(stack[h][i])}

\* In queues are visited in order, and before what depends on them.
QueuesInTurn(h) ==
    \A mw \in visited[h] :
        /\ mw.type \in {"in_queue", "out_queue"} => Out(1) \in visited[h]
        /\ mw.type = "out_queue" /\ 1 < mw.svc => In(mw.svc) \in visited[h]
        /\ mw.type = "in_queue" => \A s \in 1 .. mw.svc : In(s) \in visited[h]
        /\ mw.type = "bulk" => \A s \in 1 .. Services : In(s) \in visited[h]
        /\ Declared[mw.type] # None /\ mw.type \notin PerHub \cup {"out_queue"}
              => In(mw.svc) \in visited[h]

\* An in queue goes through its concurrency manager before anything else.
ManagerNext(h) ==
    \A s \in 1 .. Services :
        In(s) \in visited[h] /\ Top(h) # In(s) => Manager(s) \in visited[h] \/ Manager(s) \notin Created

\* The queues of a later service are initialised inside those of an earlier one.
QueuesNested(h) ==
    \A i, j \in DOMAIN stack[h] :
        /\ i < j /\ stack[h][i].type = "in_queue" =>
              /\ stack[h][j].type = "in_queue" => 1 < stack[h][i].svc /\ stack[h][i].svc < stack[h][j].svc
              /\ stack[h][j].type = "out_queue" => 1 < stack[h][i].svc /\ stack[h][i].svc <= stack[h][j].svc
        /\ i < j /\ stack[h][i].type = "out_queue" /\ stack[h][j].type = "in_queue" =>
              stack[h][j].svc = 1 \/ stack[h][i].svc < stack[h][j].svc
        /\ i < j /\ stack[h][i].type = "concurrency_manager" => stack[h][j] # In(stack[h][i].svc)
        /\ j = i + 1 /\ stack[h][i].type = "bulk" => stack[h][j].type = "stats_reporter"

InTurn == Resolvable /\ OutQueuesFirst =>
    \A h \in Hubs : Called(h) /\ QueuesInTurn(h) /\ ManagerNext(h) /\ QueuesNested(h)

OrderInv == Declares /\ InTurn

\* With concurrency managers an out queue binds before the in queue beside it declares.
BindsFirst == Managed =>
    \A h \in Hubs : \A s \in 2 .. Services : In(s) \in initialized[h] => Out(s) \in initialized[h]

\* So a queue that is fed late is never declared.
LateUndeclared == Managed =>
    \A feed \in manifest.feeds : 1 < feed[2] /\ feed[2] <= feed[1] => <<"in", feed[2]>> \notin queues

LateInv == BindsFirst /\ LateUndeclared

=============================================================================
