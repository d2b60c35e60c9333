------------------------------- MODULE Delivery -------------------------------
(***************************************************************************)
(* One message from the queue to the service and on: RabbitQueue's         *)
(* processQueueMessage, Archive, Processing, Delivery.handle and           *)
(* ErrorHandler.handle, with a step for every answer they wait for.        *)
(*                                                                         *)
(* A job is one execution of processQueueMessage's coroutine.  raw is the  *)
(* message as the broker keeps it until the acknowledgement; msg is the    *)
(* object the middlewares mutate.                                          *)
(*                                                                         *)
(* Simplifications.                                                        *)
(*  - The archive's insert is not awaited by anyone and its outcome is     *)
(*    only logged; what it leaves on msg, the _id, is modelled.            *)
(*  - All default middlewares of config/config.js are present.             *)
(***************************************************************************)
EXTENDS DeadLetters

CONSTANTS
    Workers,    \* the prefetch slots of the consumers
    WorksOn,    \* [Workers -> Hubs]
    Replies     \* the ways a POST to the service may end

ReplyKinds == {"processed",   \* 2xx
               "ignored",     \* 1xx or 3xx
               "failed",      \* 4xx or 5xx
               "thrown",      \* no response at all
               "retryAfter",  \* a Retry-After header in seconds, whatever the status
               "retryDate"}   \* a Retry-After header that is an HTTP date

ASSUME WorkersAssumption == WorksOn \in [Workers -> Hubs]
ASSUME RepliesAssumption == Replies \subseteq ReplyKinds

VARIABLES
    jobs,        \* the messages being handled
    processing,  \* fields of the Redis hash hub_<service>_processing
    minted       \* id -> how many _ids the archive has given to copies of it

jobVars == <<jobs, processing, minted>>

\* What a job waits for.
Steps == {"registering",    \* HSET into the processing hash
          "posting",        \* the service's response
          "scheduling",     \* the insert into the schedule
          "shelving",       \* the same, with a dueTime that is not a number
          "killing",        \* the insert into the dead letters
          "unregistering",  \* HDEL from the processing hash
          "acking"}         \* its acknowledgement to reach the broker

\* The exception that Delivery.handle has caught and handles, if any.
Exceptions == {"nothing",
               "delivery",    \* of the POST, or of the HSET before it
               "insert"}      \* of an insert under handleResponse

\* registered: processingHandle has been assigned.
Job == [worker : Workers, pc : Steps, raw : Message, msg : Message,
        caught : Exceptions, registered : BOOLEAN]

JobTypeOK == /\ jobs \subseteq Job /\ IsFiniteSet(jobs)
             /\ processing \subseteq Ids
             /\ minted \in [Ids -> Nat]

JobInit == /\ jobs = {}
           /\ processing = {}
           /\ minted = [id \in Ids |-> 0]

-----------------------------------------------------------------------------

Replace(j, k) == jobs' = (jobs \ {j}) \cup {k}

\* Mutant: unregister is not in the finally block but after a successful delivery.
SettleOnly(j) ==
    Replace(j, [j EXCEPT !.pc = IF j.registered /\ j.pc = "posting"
                                THEN "unregistering" ELSE "acking"])

\* Delivery.handle's finally block, then the acknowledgement.
Settle(j) ==
    Replace(j, [j EXCEPT !.pc = IF j.registered THEN "unregistering" ELSE "acking"])

\* Mutant: the message is killed one attempt too late.
HandleErrorOffByOne(j, caught) ==
    LET failed == [j.msg EXCEPT !.attempts = @ + 1]
    IN  Replace(j, [j EXCEPT !.msg = failed,
                             !.caught = caught,
                             !.pc = IF failed.attempts > MaxAttempts[failed.id]
                                    THEN "killing" ELSE "scheduling"])

\* Mutant: attemptsMade is not counted up.
HandleErrorUncounted(j, caught) ==
    Replace(j, [j EXCEPT !.caught = caught, !.pc = "scheduling"])

(* ErrorHandler.handle up to its first insert: one more attempt has been   *)
(* made, and the message is to be retried later or is dead.                *)
HandleError(j, caught) ==
    LET failed == [j.msg EXCEPT !.attempts = @ + 1]
    IN  Replace(j, [j EXCEPT !.msg = failed,
                             !.caught = caught,
                             !.pc = IF failed.attempts >= MaxAttempts[failed.id]
                                    THEN "killing" ELSE "scheduling"])

(* Archive.logAcceptedMessage, called synchronously by emit('received'):   *)
(* the Mongo driver puts a new _id on the message that is about to be      *)
(* delivered, unless it is a retry or has been archived before.            *)
Archived(m) ==
    IF m.attempts = 0 /\ m.key = 0
    THEN [m EXCEPT !.key = minted[m.id] + 1]
    ELSE m

\* The broker hands a message to a free slot of a consumer.
Receive(w) ==
    /\ WorksOn[w] \in up
    /\ \A j \in jobs : j.worker # w
    /\ \E m \in BagToSet(inQueue) :
        /\ inQueue' = inQueue (-) SetToBag({m})
        /\ jobs' = jobs \cup {[worker |-> w, pc |-> "registering", raw |-> m,
                               msg |-> Archived(m), caught |-> "nothing",
                               registered |-> FALSE]}
        /\ minted' = [minted EXCEPT ![m.id] = IF Archived(m) = m THEN @ ELSE @ + 1]
    /\ UNCHANGED <<up, outbox, schedule, dead, accepted, released, count, processing>>

\* Processing.register: the field is the messageId, so copies share it.
Registered(j) ==
    /\ j.pc = "registering"
    /\ processing' = processing \cup {j.msg.id}
    /\ Replace(j, [j EXCEPT !.pc = "posting", !.registered = TRUE])
    /\ UNCHANGED <<storeVars, minted>>

\* A rejected HSET counts as a failed delivery although nothing was posted.
RegisterFails(j) ==
    /\ j.pc = "registering"
    /\ Mishap("redis")
    /\ processing' \in {processing, processing \cup {j.msg.id}}
    /\ HandleError(j, "delivery")
    /\ UNCHANGED <<up, outbox, inQueue, schedule, dead, accepted, released, minted>>

\* A 2xx response: the service has processed the message.
ReplyProcessed(j) ==
    /\ j.pc = "posting" /\ "processed" \in Replies
    /\ LetGo({j.msg.id}, "processed")
    /\ Settle(j)
    /\ UNCHANGED <<up, outbox, inQueue, schedule, dead, accepted, count, processing, minted>>

\* A 1xx or 3xx response matches no branch of handleResponse.
ReplyIgnored(j) ==
    /\ j.pc = "posting" /\ "ignored" \in Replies
    /\ LetGo({j.msg.id}, "ignored")
    /\ Settle(j)
    /\ UNCHANGED <<up, outbox, inQueue, schedule, dead, accepted, count, processing, minted>>

\* A Retry-After header is looked at first: no attempt is counted.
ReplyRetryAfter(j) ==
    /\ j.pc = "posting" /\ "retryAfter" \in Replies
    /\ Mishap("putOff")
    /\ Replace(j, [j EXCEPT !.pc = "scheduling"])
    /\ UNCHANGED <<up, outbox, inQueue, schedule, dead, accepted, released, processing, minted>>

\* A date times 1000 is NaN, and so is the dueTime made of it.
ReplyRetryDate(j) ==
    /\ j.pc = "posting" /\ "retryDate" \in Replies
    /\ Mishap("putOff")
    /\ Replace(j, [j EXCEPT !.pc = "shelving"])
    /\ UNCHANGED <<up, outbox, inQueue, schedule, dead, accepted, released, processing, minted>>

\* A 4xx or 5xx response, handled within the try block.
ReplyFailed(j) ==
    /\ j.pc = "posting" /\ "failed" \in Replies
    /\ HandleError(j, "nothing")
    /\ UNCHANGED <<storeVars, processing, minted>>

\* The request itself fails, and the catch block handles the exception.
ReplyThrown(j) ==
    /\ j.pc = "posting" /\ "thrown" \in Replies
    /\ HandleError(j, "delivery")
    /\ UNCHANGED <<storeVars, processing, minted>>

\* What Scheduler.schedule inserts.
InsertMessageOf(j) ==
    /\ j.pc \in {"scheduling", "shelving"}
    /\ \E i \in Items :
          InsertItem(i, j.msg, IF j.pc = "shelving" THEN "never" ELSE "later")

\* The insert is acknowledged by Mongo.
Scheduled(j) ==
    /\ InsertMessageOf(j)
    /\ Settle(j)
    /\ UNCHANGED <<up, outbox, inQueue, dead, accepted, released, count, processing, minted>>

(* A message that dies while a revival of it is still to delete its dead   *)
(* letter: the deletion cannot tell the new death from the old one.        *)
DiesAgain(j) ==
    IF Overtaken(j.msg) THEN LetGo({j.msg.id}, "overtaken") ELSE UNCHANGED released

\* The insert of DeadLetter.kill is acknowledged by Mongo.
Killed(j) ==
    /\ j.pc = "killing"
    /\ ~KeyTaken(j.msg)
    /\ dead' = dead \cup {j.msg}
    /\ DiesAgain(j)
    /\ Settle(j)
    /\ UNCHANGED <<up, outbox, inQueue, schedule, accepted, count, processing, minted>>

\* Mutant: no catch block around handleResponse.
StoreRejectsUncaught(j) == Settle(j) /\ LetGo({j.msg.id}, "storeFailed")

(* A rejected insert.  Under handleResponse it is caught like a failed     *)
(* delivery, which counts one more attempt and makes a second insert.      *)
(* Within the catch block, be it that second insert or the only one after  *)
(* a request or an HSET that threw, it leaves the coroutine: the queue     *)
(* logs it and acknowledges the message all the same.                      *)
StoreRejects(j) ==
    IF j.caught = "nothing"
    THEN HandleError(j, "insert") /\ UNCHANGED released
    ELSE /\ Settle(j)
         /\ LetGo({j.msg.id}, IF j.caught = "delivery" THEN "undelivered" ELSE "storeFailed")

\* Mongo refuses to insert a dead letter under an _id that exists already.
KillDuplicate(j) ==
    /\ j.pc = "killing"
    /\ KeyTaken(j.msg)
    /\ IF j.caught = "nothing"
       THEN HandleError(j, "insert") /\ UNCHANGED released
       ELSE Settle(j) /\ DiesAgain(j)
    /\ UNCHANGED <<up, outbox, inQueue, schedule, dead, accepted, count, processing, minted>>

\* Mongo rejects an insert: it was not applied, or it was and the answer got lost.
InsertFails(j) ==
    /\ Mishap("store")
    /\ \/ /\ j.pc \in {"scheduling", "shelving", "killing"}
          /\ UNCHANGED <<schedule, dead>>
       \/ /\ InsertMessageOf(j)
          /\ UNCHANGED dead
       \/ /\ j.pc = "killing"
          /\ ~KeyTaken(j.msg)
          /\ dead' = dead \cup {j.msg}
          /\ UNCHANGED schedule
    /\ StoreRejects(j)
    /\ UNCHANGED <<up, outbox, inQueue, accepted, processing, minted>>

\* Processing.unregister; a rejected HDEL is logged and leaves the field behind.
Unregistered(j) ==
    /\ j.pc = "unregistering"
    /\ \/ processing' = processing \ {j.msg.id} /\ UNCHANGED count
       \/ Mishap("redis") /\ UNCHANGED processing
    /\ Replace(j, [j EXCEPT !.pc = "acking"])
    /\ UNCHANGED <<up, outbox, inQueue, schedule, dead, accepted, released, minted>>

\* The acknowledgement reaches the broker, which drops the message for good.
Acked(j) ==
    /\ j.pc = "acking"
    /\ jobs' = jobs \ {j}
    /\ UNCHANGED <<storeVars, processing, minted>>

=============================================================================
