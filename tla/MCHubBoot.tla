------------------------------ MODULE MCHubBoot ------------------------------
(***************************************************************************)
(* Small instances of HubBoot for TLC, with the middlewares of config.js.  *)
(***************************************************************************)
EXTENDS HubBoot

DefaultConfig ==
    <<"web_server", "api", "out_queue", "in_queue", "delivery", "scheduler",
      "error_handler", "dead_letter", "concurrency_manager", "lock_manager",
      "stats_reporter", "recurring", "processing", "monitor", "inspector",
      "archive", "bulk">>

\* The least one with an API and a cycle; the same without a mandatory dependency,
\* and without the middleware that has the bulk queues.
CoreConfig ==
    <<"web_server", "api", "out_queue", "in_queue", "scheduler", "dead_letter",
      "concurrency_manager", "lock_manager", "recurring", "bulk">>
NoLockManager == SelectSeq(CoreConfig, LAMBDA type : type # "lock_manager")
NoBulk == SelectSeq(CoreConfig, LAMBDA type : type # "bulk")

\* One that names an in queue first.
InQueueFirst == <<"in_queue">> \o SelectSeq(CoreConfig, LAMBDA type : type # "in_queue")

\* A good and a late feed and both, and three configurations that fail.
SomeFeeds == [config : {CoreConfig}, feeds : {{<<1, 2>>}, {<<2, 2>>}, {<<1, 2>>, <<2, 2>>}},
              bulks : {{<<1, 2>>}}]
             \cup [config : {NoLockManager}, feeds : {{<<1, 2>>}}, bulks : {{}}]
             \cup [config : {NoBulk}, feeds : {{<<1, 2>>}}, bulks : {{<<1, 2>>}}]
             \cup [config : {InQueueFirst}, feeds : {{<<2, 1>>}}, bulks : {{}}]

\* The second of two services subscribes to what it publishes.
LateOnly == [config : {DefaultConfig}, feeds : {{<<2, 2>>}}, bulks : {{}}]

=============================================================================
