------------------------------ MODULE HubStore ------------------------------
(***************************************************************************)
(* What outlives a hub process, for ONE consuming service: its RabbitMQ    *)
(* queue, its Mongo schedule and its dead letters, and beside them the     *)
(* socket buffers of the hub processes.  Every other component reads and   *)
(* writes this state; lib/middlewares/rabbit_queue.js, scheduler.js and    *)
(* dead_letter.js are its owners.                                          *)
(*                                                                         *)
(* Simplifications.                                                        *)
(*  - A message is its id, its attemptsMade and the _id under which Mongo  *)
(*    knows it; the rest of the document decides nothing here.             *)
(*  - Queues are bags: RabbitMQ's order is lost as soon as one message is  *)
(*    redelivered, and no property here is about order.                    *)
(*  - Failures and unusual requests are counted by kind and bounded        *)
(*    by Limit and Budget.                                                 *)
(***************************************************************************)
EXTENDS Naturals, FiniteSets, FiniteSetsExt, Bags

CONSTANTS
    Hubs,         \* hub processes started on the same configuration
    Ids,          \* messageIds
    MaxAttempts,  \* [Ids -> Nat \ {0}], the maxAttempts a message carries
    Items,        \* Mongo _ids of schedule entries, enough of them for the bounds
    Limit,        \* [Kinds -> Nat], how often each kind of mishap may happen
    Budget        \* how many mishaps may happen in all

\* What may go wrong, or be asked for by an administrator or by the service.
Kinds == {"crash",        \* a hub process dies
          "store",        \* a Mongo operation is rejected
          "redis",        \* a Redis operation is rejected
          "expiry",       \* a lock's TTL runs out under a holder still at work
          "putOff",       \* the service answers with a Retry-After header
          "scheduleNow",  \* PUT .../schedule/:scheduledMessageId
          "delete",       \* DELETE .../schedule/:messageId
          "reenqueue",    \* PUT .../dead/:messageId, for one message or for all
          "deadDelete"}   \* DELETE .../dead/:messageId, for one message or for all

ASSUME MaxAttemptsAssumption == MaxAttempts \in [Ids -> Nat \ {0}]
ASSUME LimitAssumption == Limit \in [Kinds -> Nat] /\ Budget \in Nat

VARIABLES
    up,        \* the hub processes that run
    outbox,    \* hub -> bag of messages written to its channel, not yet at the broker
    inQueue,   \* bag: the ready messages of the queue <service>_in
    schedule,  \* the documents of <service>_schedule
    dead,      \* the documents of <service>_dead_v2
    accepted,  \* ids the API answered 201 for
    released,  \* id -> why the hub was entitled, or forced, to let go of it
    count      \* kind -> how many such mishaps have happened

storeVars == <<up, outbox, inQueue, schedule, dead, accepted, released, count>>

(* key is the Mongo _id the archive gave the message, 0 before it has one; *)
(* hex tells the ObjectId from the hexadecimal string that JSON makes of it.*)
Message == [id : Ids, attempts : Nat, key : Nat, hex : BOOLEAN]
NewMessage(id) == [id |-> id, attempts |-> 0, key |-> 0, hex |-> FALSE]

(* due: a dueTime in the future, one that has passed, or NaN, which no     *)
(* find by $lt returns.                                                    *)
ScheduledItem == [item : Items, msg : Message, due : {"later", "due", "never"}]

\* Why a message may be gone, see the actions that record each.
Reasons == {"processed", "ignored", "deleted", "undelivered", "storeFailed", "wiped", "overtaken"}

MessageBag(b) == IsABag(b) /\ DOMAIN b \subseteq Message

StoreTypeOK ==
    /\ up \subseteq Hubs
    /\ DOMAIN outbox = Hubs /\ \A h \in Hubs : MessageBag(outbox[h])
    /\ MessageBag(inQueue)
    /\ schedule \subseteq ScheduledItem
    /\ dead \subseteq Message
    /\ accepted \subseteq Ids
    /\ released \in [Ids -> SUBSET Reasons]
    /\ count \in [Kinds -> Nat]

StoreInit ==
    /\ up = Hubs
    /\ outbox = [h \in Hubs |-> EmptyBag]
    /\ inQueue = EmptyBag
    /\ schedule = {}
    /\ dead = {}
    /\ accepted = {}
    /\ released = [id \in Ids |-> {}]
    /\ count = [k \in Kinds |-> 0]

-----------------------------------------------------------------------------

\* One more mishap of kind k, if the bounds allow it.
Mishap(k) == /\ count[k] < Limit[k]
             /\ MapThenSumSet(LAMBDA n : count[n], Kinds) < Budget
             /\ count' = [count EXCEPT ![k] = @ + 1]

Quiet == UNCHANGED count

LetGo(ids, why) ==
    released' = [id \in Ids |-> IF id \in ids THEN released[id] \cup {why}
                                               ELSE released[id]]

\* Mutant: attemptsMade is left out of what goes to the queue.
JsonForgets(m) == [f \in DOMAIN m \ {"attempts"} |-> m[f]]

\* JSON.stringify turns an ObjectId into its hexadecimal string.
Json(m) == [m EXCEPT !.hex = (m.key # 0)]

\* RabbitQueue.enqueue and publish: channel.publish only writes to the socket
\* of hub h and neither reports nor awaits what becomes of the message.
Enqueue(h, m) == outbox' = [outbox EXCEPT ![h] = @ (+) SetToBag({Json(m)})]

(* POST /api/v1/messages on hub h: the message gets an id of its own and   *)
(* is published to the exchange the service's queue is bound to; the 201   *)
(* does not wait for the broker.                                           *)
Publish(h, id) ==
    /\ h \in up
    /\ id \notin accepted
    /\ Enqueue(h, NewMessage(id))
    /\ accepted' = accepted \cup {id}
    /\ UNCHANGED <<up, inQueue, schedule, dead, released, count>>

\* The broker receives and routes a message that hub h had written.
Flush(h) ==
    /\ h \in up
    /\ \E m \in BagToSet(outbox[h]) :
        /\ outbox' = [outbox EXCEPT ![h] = @ (-) SetToBag({m})]
        /\ inQueue' = inQueue (+) SetToBag({m})
    /\ UNCHANGED <<up, schedule, dead, accepted, released, count>>

\* The same Mongo _id.
SameKey(d, m) == d.id = m.id /\ d.key = m.key /\ d.hex = m.hex

\* The unique _id index of the dead letters.
KeyTaken(m) == \E d \in dead : SameKey(d, m)

\* Time reaches the dueTime of a scheduled item.
BecomeDue(s) ==
    /\ s \in schedule /\ s.due = "later"
    /\ schedule' = (schedule \ {s}) \cup {[s EXCEPT !.due = "due"]}
    /\ UNCHANGED <<up, outbox, inQueue, dead, accepted, released, count>>

\* DELETE .../schedule/:messageId: an administrator discards a scheduled item.
ApiDelete(s) ==
    /\ up # {}
    /\ s \in schedule
    /\ Mishap("delete")
    /\ schedule' = schedule \ {s}
    /\ LetGo({s.msg.id}, "deleted")
    /\ UNCHANGED <<up, outbox, inQueue, dead, accepted>>

\* The process is started again: boot.js runs a hub with nothing in memory.
Restart(h) ==
    /\ h \in Hubs \ up
    /\ up' = up \cup {h}
    /\ UNCHANGED <<outbox, inQueue, schedule, dead, accepted, released, count>>

=============================================================================
