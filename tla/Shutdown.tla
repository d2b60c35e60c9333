------------------------------- MODULE Shutdown -------------------------------
(***************************************************************************)
(* Hub.stop: the middlewares of ONE hub process stop in parallel, while    *)
(* messages are in hand, a poll of the schedule is under way and HTTP      *)
(* clients are connected (lib/hub/hub.js, rabbit_queue.js, mongo.js,       *)
(* web_server.js, middleware.js).                                          *)
(*                                                                         *)
(* co starts all the generators of the yielded array in one tick: that     *)
(* tick closes the Mongo connections and the listener, stops the out       *)
(* queue, which has nothing to drain, and begins to drain the in queue.    *)
(* What the messages of the in queue still need is closed by then.         *)
(*                                                                         *)
(* Simplifications.                                                        *)
(*  - Errors other than those the stop causes are left to MessageFlow;     *)
(*    what a retry, a Retry-After and a death have in common, an insert    *)
(*    into Mongo, is one thing here, and so are schedule and dead letters. *)
(*  - Round trips to Redis, which nothing closes, are not steps.           *)
(*  - Middleware.stop calls the generator terminate without yield, which   *)
(*    runs none of it: the timers go on.  After the stop their polls fail  *)
(*    on the closed connections and change nothing.                        *)
(*  - The consumer is not replaced (setConcurrency) during the stop.       *)
(***************************************************************************)
EXTENDS Naturals, FiniteSets

CONSTANTS
    Ids,    \* messageIds
    Slots   \* the prefetch slots of the in queue's consumer

VARIABLES
    phase,      \* of the in queue; every other middleware has stopped unless "running"
    web,        \* the HTTP listener: "open", "closing" or "closed"
    connected,  \* some client has a connection open
    ready,      \* id -> copies that are ready in the queue at the broker
    jobs,       \* the messages in hand
    shelf,      \* id -> documents in the schedule and the dead letters
    due,        \* ids of the batch a poll has read and not yet come to
    moving,     \* the item the poll works on, if any
    accepted,   \* ids the API, here or in another process, answered 201 for
    late,       \* ids it answered 201 for after the out queue was stopped
    processed,  \* ids the service has taken
    forsaken    \* ids acknowledged though the last insert for them was rejected

vars == <<phase, web, connected, ready, jobs, shelf, due, moving,
          accepted, late, processed, forsaken>>

Phases == {"running", "draining", "cancelling", "stopped", "closed"}

(* caught: the exception handler of Delivery.handle runs;  sent: the       *)
(* insert was issued while Mongo was open;  begun: in hand when the stop   *)
(* began;  held: the broker waits for the acknowledgement.                 *)
Job == [slot : Slots, id : Ids, pc : {"posting", "storing", "acking", "over"},
        caught : BOOLEAN, sent : BOOLEAN, begun : BOOLEAN, held : BOOLEAN]

TypeOK ==
    /\ phase \in Phases
    /\ web \in {"open", "closing", "closed"}
    /\ connected \in BOOLEAN
    /\ ready \in [Ids -> Nat]
    /\ jobs \subseteq Job /\ IsFiniteSet(jobs)
    /\ shelf \in [Ids -> Nat]
    /\ due \subseteq Ids
    /\ moving \subseteq [id : Ids, sent : BOOLEAN]
    /\ accepted \subseteq Ids /\ late \subseteq Ids
    /\ processed \subseteq Ids /\ forsaken \subseteq Ids

Init ==
    /\ phase = "running" /\ web = "open" /\ connected = TRUE
    /\ ready = [id \in Ids |-> 0] /\ shelf = [id \in Ids |-> 0]
    /\ jobs = {} /\ due = {} /\ moving = {}
    /\ accepted = {} /\ late = {} /\ processed = {} /\ forsaken = {}

\* Mutant: the middlewares stop one after the other, the queues first.
MongoOpenToTheEnd == phase # "closed"

\* Operations issued from now on are not rejected by the driver.
MongoOpen == phase = "running"

\* RabbitQueue.stopped of the in queue; amqplib's channel takes no more either.
QueueStopped == phase \in {"stopped", "closed"}

-----------------------------------------------------------------------------
\* The API and the broker.

\* POST /api/v1/messages here: a stopped out queue logs and drops the message.
Publish(id) ==
    /\ connected /\ id \notin accepted
    /\ accepted' = accepted \cup {id}
    /\ IF phase = "running"
       THEN ready' = [ready EXCEPT ![id] = @ + 1] /\ UNCHANGED late
       ELSE late' = late \cup {id} /\ UNCHANGED ready
    /\ UNCHANGED <<phase, web, connected, jobs, shelf, due, moving, processed, forsaken>>

\* The same in another process, which goes on.
PublishElsewhere(id) ==
    /\ id \notin accepted
    /\ accepted' = accepted \cup {id}
    /\ ready' = [ready EXCEPT ![id] = @ + 1]
    /\ UNCHANGED <<phase, web, connected, jobs, shelf, due, moving, late, processed, forsaken>>

\* The consumer is there until its cancellation has been confirmed.
Receive(s, id) ==
    /\ phase \in {"running", "draining", "cancelling"}
    /\ \A j \in jobs : j.slot # s
    /\ ready[id] > 0
    /\ ready' = [ready EXCEPT ![id] = @ - 1]
    /\ jobs' = jobs \cup {[slot |-> s, id |-> id, pc |-> "posting", caught |-> FALSE,
                           sent |-> FALSE, begun |-> FALSE, held |-> TRUE]}
    /\ UNCHANGED <<phase, web, connected, shelf, due, moving, accepted, late, processed, forsaken>>

-----------------------------------------------------------------------------
\* Delivery: see the module Delivery for the whole of it.

Replace(j, k) == jobs' = (jobs \ {j}) \cup {k}

\* ErrorHandler.handle or scheduleRelative, up to the insert.
Store(j, caught) ==
    Replace(j, [j EXCEPT !.pc = "storing", !.caught = caught, !.sent = MongoOpen])

Settle(j) == Replace(j, [j EXCEPT !.pc = "acking"])

\* The service takes the message.
ReplyProcessed(j) ==
    /\ j.pc = "posting"
    /\ processed' = processed \cup {j.id}
    /\ Settle(j)
    /\ UNCHANGED <<phase, web, connected, ready, shelf, due, moving, accepted, late, forsaken>>

\* It fails it, within the try block or by an exception, or puts it off.
ReplyFailed(j) ==
    /\ j.pc = "posting"
    /\ \E caught \in BOOLEAN : Store(j, caught)
    /\ UNCHANGED <<phase, web, connected, ready, shelf, due, moving,
                   accepted, late, processed, forsaken>>

Shelve(id) == shelf' = [shelf EXCEPT ![id] = @ + 1]

\* The insert has been issued in time and is confirmed.
Stored(j) ==
    /\ j.pc = "storing" /\ j.sent
    /\ Shelve(j.id)
    /\ Settle(j)
    /\ UNCHANGED <<phase, web, connected, ready, due, moving,
                   accepted, late, processed, forsaken>>

\* Mutant: an exception of the exception handler gets past the finally block.
GiveUpUncounted(j) ==
    /\ forsaken' = forsaken \cup {j.id}
    /\ Replace(j, [j EXCEPT !.pc = "over"])

(* An exception of the exception handler, of the second insert or, if the  *)
(* request had thrown already, of the only one: it is logged, and the      *)
(* message acknowledged all the same.                                      *)
GiveUp(j) ==
    /\ forsaken' = forsaken \cup {j.id}
    /\ Settle(j)

(* The closed connection rejects the insert, which may have been applied   *)
(* if it was issued before.  A first exception is handled like a failure   *)
(* of the delivery, by another insert.                                     *)
StoreRejected(j) ==
    /\ j.pc = "storing" /\ ~MongoOpen
    /\ \/ UNCHANGED shelf
       \/ j.sent /\ Shelve(j.id)
    /\ IF j.caught THEN GiveUp(j) ELSE Store(j, TRUE) /\ UNCHANGED forsaken
    /\ UNCHANGED <<phase, web, connected, ready, due, moving, accepted, late, processed>>

(* The acknowledgement at the end of processQueueMessage.  On a closed     *)
(* channel it throws: the broker is not told and the message goes on       *)
(* being counted as in hand.                                               *)
Acknowledge(j) ==
    /\ j.pc = "acking"
    /\ IF QueueStopped THEN Replace(j, [j EXCEPT !.pc = "over"]) ELSE jobs' = jobs \ {j}
    /\ UNCHANGED <<phase, web, connected, ready, shelf, due, moving,
                   accepted, late, processed, forsaken>>

-----------------------------------------------------------------------------
\* Scheduler.doHandleScheduledMessages and scheduleNow, under the lock.

Poll ==
    /\ MongoOpen
    /\ due = {} /\ moving = {}
    /\ \E batch \in (SUBSET {id \in Ids : shelf[id] > 0}) \ {{}} : due' = batch
    /\ UNCHANGED <<phase, web, connected, ready, jobs, shelf, moving,
                   accepted, late, processed, forsaken>>

\* Mutant: the loop stays where it is.
AdvanceNot(id) == UNCHANGED due

\* What the loop has come to is no longer to be done.
Advance(id) == due' = due \ {id}

\* Enqueue a copy, unless the queue is stopped, and issue the delete.
ScheduleNow(id) ==
    /\ moving = {} /\ id \in due
    /\ IF QueueStopped THEN UNCHANGED ready ELSE ready' = [ready EXCEPT ![id] = @ + 1]
    /\ moving' = {[id |-> id, sent |-> MongoOpen]}
    /\ Advance(id)
    /\ UNCHANGED <<phase, web, connected, jobs, shelf, accepted, late, processed, forsaken>>

Unshelve(id) == shelf' = [shelf EXCEPT ![id] = @ - 1]

Deleted(m) ==
    /\ m.sent
    /\ Unshelve(m.id)
    /\ moving' = {}
    /\ UNCHANGED <<phase, web, connected, ready, jobs, due,
                   accepted, late, processed, forsaken>>

\* The rejected delete, applied or not, ends the poll.
DeleteRejected(m) ==
    /\ ~MongoOpen
    /\ \/ UNCHANGED shelf
       \/ m.sent /\ Unshelve(m.id)
    /\ moving' = {} /\ due' = {}
    /\ UNCHANGED <<phase, web, connected, ready, jobs, accepted, late, processed, forsaken>>

-----------------------------------------------------------------------------
\* The stop itself.

\* The tick of Hub.stop.
StopHub ==
    /\ phase = "running"
    /\ phase' = "draining"
    /\ web' = "closing"
    /\ jobs' = {[j EXCEPT !.begun = TRUE] : j \in jobs}
    /\ UNCHANGED <<connected, ready, shelf, due, moving, accepted, late, processed, forsaken>>

\* Mutant: the consumer is cancelled without waiting for the messages in hand.
DrainedAtOnce == phase = "draining"

\* drainMessages finds messagesBeingHandled at zero, in one of its looks every 50 ms.
Drained == phase = "draining" /\ jobs = {}

\* Then the consumer is cancelled.
CancelConsumer ==
    /\ Drained
    /\ phase' = "cancelling"
    /\ UNCHANGED <<web, connected, ready, jobs, shelf, due, moving,
                   accepted, late, processed, forsaken>>

\* The broker confirms; stopped is set and the channel begins to close.
ConsumerCancelled ==
    /\ phase = "cancelling"
    /\ phase' = "stopped"
    /\ UNCHANGED <<web, connected, ready, jobs, shelf, due, moving,
                   accepted, late, processed, forsaken>>

HeldCopies(id) == Cardinality({j \in jobs : j.held /\ j.id = id})

\* Channel and connection close; the broker puts back what is not acknowledged.
ChannelClosed ==
    /\ phase = "stopped"
    /\ phase' = "closed"
    /\ ready' = [id \in Ids |-> ready[id] + HeldCopies(id)]
    /\ jobs' = {[j EXCEPT !.held = FALSE] : j \in jobs}
    /\ UNCHANGED <<web, connected, shelf, due, moving, accepted, late, processed, forsaken>>

\* A client connects, which takes an open listener, or ends its connection.
Connect ==
    /\ web = "open" /\ ~connected
    /\ connected' = TRUE
    /\ UNCHANGED <<phase, web, ready, jobs, shelf, due, moving,
                   accepted, late, processed, forsaken>>

Disconnect ==
    /\ connected
    /\ connected' = FALSE
    /\ UNCHANGED <<phase, web, ready, jobs, shelf, due, moving,
                   accepted, late, processed, forsaken>>

\* server.close calls back when the last connection has ended.
WebClosed ==
    /\ web = "closing" /\ ~connected
    /\ web' = "closed"
    /\ UNCHANGED <<phase, connected, ready, jobs, shelf, due, moving,
                   accepted, late, processed, forsaken>>

Next ==
    \/ \E id \in Ids : \/ Publish(id) \/ PublishElsewhere(id) \/ ScheduleNow(id)
                       \/ \E s \in Slots : Receive(s, id)
    \/ \E j \in jobs : \/ ReplyProcessed(j) \/ ReplyFailed(j) \/ Stored(j)
                       \/ StoreRejected(j) \/ Acknowledge(j)
    \/ \E m \in moving : Deleted(m) \/ DeleteRejected(m)
    \/ Poll \/ StopHub \/ CancelConsumer \/ ConsumerCancelled \/ ChannelClosed
    \/ Connect \/ Disconnect \/ WebClosed

Spec == Init /\ [][Next]_vars

(* The service and Mongo's driver answer every call, the broker confirms   *)
(* what it is asked, the drain looks again, and clients end their          *)
(* connections, at the latest by the timeout of the HTTP server.  Nobody   *)
(* has to publish, and the broker need not deliver.                        *)
Fairness ==
    /\ WF_vars(\E j \in jobs : ReplyProcessed(j) \/ ReplyFailed(j))
    /\ WF_vars(\E j \in jobs : Stored(j) \/ StoreRejected(j))
    /\ WF_vars(\E j \in jobs : Acknowledge(j))
    /\ WF_vars(CancelConsumer) /\ WF_vars(ConsumerCancelled) /\ WF_vars(ChannelClosed)
    /\ WF_vars(Disconnect) /\ WF_vars(WebClosed)

FairSpec == Spec /\ Fairness

-----------------------------------------------------------------------------

\* The broker or Mongo has the message, or a coroutine that will see to it.
Kept(id) ==
    \/ ready[id] > 0 \/ shelf[id] > 0
    \/ \E j \in jobs : j.id = id /\ j.held

(* A STOP LOSES NOTHING ELSE.  Whatever a process was doing when Hub.stop  *)
(* was called, an accepted message is still at the broker or in Mongo, or  *)
(* was taken by the service, unless the API answered 201 for it with the   *)
(* out queue already stopped (rabbit_queue.js:118), or the closing of      *)
(* Mongo (mongo.js:31) rejected the last insert that was to keep it: one   *)
(* still in flight then, or issued too late.  In particular a poll that    *)
(* enqueues into a stopped queue (rabbit_queue.js:106) never gets to       *)
(* delete the item.                                                        *)
StopLosesNothingElse ==
    \A id \in accepted : Kept(id) \/ id \in processed \cup late \cup forsaken

(* DRAINED FIRST.  A message that is in hand when the stop begins is       *)
(* acknowledged, never handed back to the broker to be delivered again     *)
(* (rabbit_queue.js:148); only one that the consumer still gets while its  *)
(* cancellation is under way may be.                                       *)
DrainedFirst ==
    [][\A j \in jobs : j.held /\ phase' = "closed" /\ phase # "closed" => ~j.begun]_vars

(* THE STOP ENDS.  If the messages are finitely many, Hub.stop comes to    *)
(* its end, in the queue (whose drain goes on consuming, and whose failing *)
(* messages have no store left) and in the listener (hub.js:122).          *)
StopEnds == phase # "running" ~> phase = "closed" /\ web = "closed"

=============================================================================
