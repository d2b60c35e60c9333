-------------------------------- MODULE Bulk --------------------------------
(***************************************************************************)
(* Bulk delivery of ONE message type to ONE service                        *)
(* (lib/middlewares/bulk.js): every hub process collects messages of the   *)
(* queue <service>_<type>_bulk in memory and enqueues them together, when  *)
(* there are Size of them or when a timer fires, as one message of the     *)
(* service's in queue; only then does it acknowledge them.                 *)
(*                                                                         *)
(* The bulk goes out on a connection of the in queue, the acknowledgements *)
(* on the bulk middleware's own: either may reach the broker first, and a  *)
(* process that dies loses what neither has delivered yet.  A hub that     *)
(* stops (RabbitQueue.stop) closes the bulk connection at once and the in  *)
(* queue when that has drained, while the timeouts go on.                  *)
(*                                                                         *)
(* Simplifications.                                                        *)
(*  - A bulk is the sequence of its messages.                              *)
(*  - The broker may hand any ready message to any consumer.               *)
(*  - Timers carry no deadline: all have the same delay, and any pending   *)
(*    one may be the next to fire.                                         *)
(*  - The closing of the bulk connection is one step: what was written to  *)
(*    it arrives, and what is not acknowledged goes back to the queue.     *)
(***************************************************************************)
EXTENDS Naturals, Sequences, FiniteSets, Bags, SequencesExt

CONSTANTS
    Hubs,       \* hub processes
    Msgs,       \* messages of the type
    Size,       \* the number after the @ in the manifest
    MaxUpsets   \* how often a process may die or be stopped

ASSUME SizeAssumption == Size \in Nat \ {0}
ASSUME UpsetsAssumption == MaxUpsets \in Nat

VARIABLES
    published,  \* the messages routed to the bulk queue so far
    queue,      \* its ready messages
    acked,      \* those whose acknowledgement it has received
    up,         \* the hub processes that run
    phase,      \* hub -> "open", "stopping" without its bulk connection, or "stopped"
    held,       \* hub -> messages handed to it and not acknowledged, as the broker sees it
    buffer,     \* hub -> "buffer" of packBulks
    timers,     \* hub -> number of its timeouts that have not fired
    outbox,     \* hub -> bulks written to the in queue's connection
    acks,       \* hub -> acknowledgements written to the bulk connection
    inQueue,    \* bag of the bulks that have reached the service's in queue
    wiped,      \* messages whose bulk died in a socket after their acknowledgement arrived
    upsets      \* how many deaths and stops there have been

brokerVars == <<published, queue, acked, inQueue, wiped, upsets>>
hubVars == <<up, phase>>
vars == <<brokerVars, hubVars, held, buffer, timers, outbox, acks>>

TypeOK ==
    /\ published \subseteq Msgs /\ queue \subseteq published
    /\ acked \subseteq published
    /\ up \subseteq Hubs
    /\ phase \in [Hubs -> {"open", "stopping", "stopped"}]
    /\ held \in [Hubs -> SUBSET published]
    /\ buffer \in [Hubs -> Seq(Msgs)]
    /\ timers \in [Hubs -> Nat]
    /\ outbox \in [Hubs -> Seq(Seq(Msgs))]
    /\ acks \in [Hubs -> Seq(Msgs)]
    /\ IsABag(inQueue) /\ DOMAIN inQueue \subseteq Seq(Msgs)
    /\ wiped \subseteq published
    /\ upsets \in 0 .. MaxUpsets

Init ==
    /\ published = {} /\ queue = {} /\ acked = {} /\ wiped = {}
    /\ inQueue = EmptyBag
    /\ upsets = 0
    /\ up = Hubs
    /\ phase = [h \in Hubs |-> "open"]
    /\ held = [h \in Hubs |-> {}]
    /\ buffer = [h \in Hubs |-> <<>>]
    /\ timers = [h \in Hubs |-> 0]
    /\ outbox = [h \in Hubs |-> <<>>]
    /\ acks = [h \in Hubs |-> <<>>]

-----------------------------------------------------------------------------

\* The exchange routes a published message to the bulk queue.
Publish(m) ==
    /\ m \notin published
    /\ published' = published \cup {m}
    /\ queue' = queue \cup {m}
    /\ UNCHANGED <<acked, inQueue, wiped, upsets, hubVars, held, buffer, timers, outbox, acks>>

\* Mutant: the messages are enqueued one by one, not as one message.
EnqueueEach(h, bulk) ==
    /\ outbox' = [outbox EXCEPT ![h] = @ \o bulk]
    /\ acks' = [acks EXCEPT ![h] = @ \o bulk]

(* enqueueBulk: the bulk and the acknowledgements are written, to two      *)
(* sockets.  A stopped in queue drops the bulk, and on a closed connection *)
(* the first acknowledgement throws.                                       *)
EnqueueBulk(h, bulk) ==
    /\ outbox' = IF phase[h] = "stopped" THEN outbox ELSE [outbox EXCEPT ![h] = Append(@, bulk)]
    /\ acks' = IF phase[h] = "open" THEN [acks EXCEPT ![h] = @ \o bulk] ELSE acks

\* Mutant: the timeout is set by the second message of a batch.
TimersAfterLate(h, batch) ==
    [timers EXCEPT ![h] = IF Len(batch) = 2 THEN @ + 1 ELSE @]

(* The first message of a batch sets a timeout.  timeoutId is a variable   *)
(* of that one call, so the clearTimeout of the call that fills the batch  *)
(* clears nothing, unless the first message fills it.                      *)
TimersAfter(h, batch) ==
    [timers EXCEPT ![h] = IF Len(batch) = 1 /\ Size # 1 THEN @ + 1 ELSE @]

\* A message is pushed to the buffer, which is enqueued when it is full.
ProcessMessage(h) ==
    /\ h \in up /\ phase[h] = "open"
    /\ \E m \in queue : LET batch == Append(buffer[h], m) IN
        /\ queue' = queue \ {m}
        /\ held' = [held EXCEPT ![h] = @ \cup {m}]
        /\ timers' = TimersAfter(h, batch)
        /\ \/ /\ Len(batch) >= Size
              /\ EnqueueBulk(h, batch)
              /\ buffer' = [buffer EXCEPT ![h] = <<>>]
           \/ /\ Len(batch) < Size
              /\ buffer' = [buffer EXCEPT ![h] = batch]
              /\ UNCHANGED <<outbox, acks>>
    /\ UNCHANGED <<published, acked, inQueue, wiped, upsets, hubVars>>

\* Mutant: the timeout enqueues the buffer and does not reset it.
TimerFiresNoReset(h) ==
    /\ timers[h] > 0
    /\ timers' = [timers EXCEPT ![h] = @ - 1]
    /\ EnqueueBulk(h, buffer[h])
    /\ UNCHANGED <<brokerVars, hubVars, held, buffer>>

\* A timeout enqueues whatever is in the buffer now.
TimerFires(h) ==
    /\ timers[h] > 0
    /\ timers' = [timers EXCEPT ![h] = @ - 1]
    /\ EnqueueBulk(h, buffer[h])
    /\ buffer' = [buffer EXCEPT ![h] = <<>>]
    /\ UNCHANGED <<brokerVars, hubVars, held>>

\* The broker receives the next bulk that h has written.
BulkArrives(h) ==
    /\ outbox[h] # <<>>
    /\ inQueue' = inQueue (+) SetToBag({Head(outbox[h])})
    /\ outbox' = [outbox EXCEPT ![h] = Tail(@)]
    /\ UNCHANGED <<published, queue, acked, wiped, upsets, hubVars, held, buffer, timers, acks>>

\* The broker receives the next acknowledgement and forgets the message.
AckArrives(h) ==
    /\ acks[h] # <<>>
    /\ held' = [held EXCEPT ![h] = @ \ {Head(acks[h])}]
    /\ acked' = acked \cup {Head(acks[h])}
    /\ acks' = [acks EXCEPT ![h] = Tail(@)]
    /\ UNCHANGED <<published, queue, inQueue, wiped, upsets, hubVars, buffer, timers, outbox>>

\* Mutant: the in queue stops before the bulk connection is closed.
StopInQueueFirst(h) ==
    /\ h \in up /\ phase[h] = "open" /\ upsets < MaxUpsets
    /\ upsets' = upsets + 1
    /\ phase' = [phase EXCEPT ![h] = "stopped"]
    /\ acks' = [acks EXCEPT ![h] = @ \o buffer[h]]
    /\ buffer' = [buffer EXCEPT ![h] = <<>>]
    /\ UNCHANGED <<published, queue, acked, inQueue, wiped, up, held, timers, outbox>>

(* Bulk inherits RabbitQueue.stop, which knows neither its channels nor    *)
(* the messages in its buffers: there is nothing to drain, and the         *)
(* connection is closed.                                                   *)
Stop(h) ==
    /\ h \in up /\ phase[h] = "open" /\ upsets < MaxUpsets
    /\ upsets' = upsets + 1
    /\ phase' = [phase EXCEPT ![h] = "stopping"]
    /\ acked' = acked \cup ToSet(acks[h])
    /\ acks' = [acks EXCEPT ![h] = <<>>]
    /\ queue' = queue \cup (held[h] \ ToSet(acks[h]))
    /\ held' = [held EXCEPT ![h] = {}]
    /\ UNCHANGED <<published, inQueue, wiped, up, buffer, timers, outbox>>

\* The in queue has drained and stops.
InQueueStops(h) ==
    /\ phase[h] = "stopping"
    /\ phase' = [phase EXCEPT ![h] = "stopped"]
    /\ UNCHANGED <<brokerVars, up, held, buffer, timers, outbox, acks>>

\* The messages of the bulks in a sequence of bulks.
Packed(bulks) == UNION {ToSet(bulks[i]) : i \in DOMAIN bulks}

\* Mutant: the queue is consumed without acknowledgements.
CrashWithoutRequeue(h) ==
    /\ h \in up /\ upsets < MaxUpsets
    /\ upsets' = upsets + 1
    /\ up' = up \ {h}
    /\ phase' = [phase EXCEPT ![h] = "open"]
    /\ wiped' = wiped \cup (Packed(outbox[h]) \cap acked)
    /\ held' = [held EXCEPT ![h] = {}]
    /\ buffer' = [buffer EXCEPT ![h] = <<>>]
    /\ timers' = [timers EXCEPT ![h] = 0]
    /\ outbox' = [outbox EXCEPT ![h] = <<>>]
    /\ acks' = [acks EXCEPT ![h] = <<>>]
    /\ UNCHANGED <<published, queue, acked, inQueue>>

\* A process dies: its memory and its sockets are gone, the broker requeues.
Crash(h) ==
    /\ h \in up /\ upsets < MaxUpsets
    /\ upsets' = upsets + 1
    /\ up' = up \ {h}
    /\ phase' = [phase EXCEPT ![h] = "open"]
    /\ queue' = queue \cup held[h]
    /\ wiped' = wiped \cup (Packed(outbox[h]) \cap acked)
    /\ held' = [held EXCEPT ![h] = {}]
    /\ buffer' = [buffer EXCEPT ![h] = <<>>]
    /\ timers' = [timers EXCEPT ![h] = 0]
    /\ outbox' = [outbox EXCEPT ![h] = <<>>]
    /\ acks' = [acks EXCEPT ![h] = <<>>]
    /\ UNCHANGED <<published, acked, inQueue>>

\* The process is started again and consumes the queue.
Restart(h) ==
    /\ h \notin up
    /\ up' = up \cup {h}
    /\ UNCHANGED <<brokerVars, phase, held, buffer, timers, outbox, acks>>

Next ==
    \/ \E m \in Msgs : Publish(m)
    \/ \E h \in Hubs : \/ ProcessMessage(h) \/ TimerFires(h)
                       \/ BulkArrives(h) \/ AckArrives(h)
                       \/ Stop(h) \/ InQueueStops(h)
                       \/ Crash(h) \/ Restart(h)

Spec == Init /\ [][Next]_vars

\* Timers fire, sockets are flushed, the broker hands out what is ready; no
\* hub has to stop.
Fairness ==
    /\ WF_vars(\E h \in Hubs : ProcessMessage(h))
    /\ \A h \in Hubs : /\ WF_vars(TimerFires(h)) /\ WF_vars(BulkArrives(h))
                       /\ WF_vars(AckArrives(h)) /\ WF_vars(Restart(h))

FairSpec == Spec /\ Fairness

-----------------------------------------------------------------------------

InBulk(m) == \E bulk \in BagToSet(inQueue) : m \in ToSet(bulk)

(* NO LOSS.  A message the broker has routed to the bulk queue is still    *)
(* with the broker or in a bulk that has reached the in queue, or on its   *)
(* way there in a process that runs, also while hubs stop with messages in *)
(* their buffers; the one exception is a process that dies after the       *)
(* acknowledgement has arrived and before the bulk has (bulk.js:39-40:     *)
(* enqueue first, then acknowledge, on two connections).                   *)
NoLoss ==
    \A m \in published :
        \/ m \in queue \cup wiped
        \/ InBulk(m)
        \/ \E h \in up : m \in held[h] \cup Packed(outbox[h])

At(seq, m) == {i \in DOMAIN seq : seq[i] = m}

\* Where a message is: with the broker, or in a buffer, a bulk written or one arrived.
Copies(m) ==
    LET buffered(h) == {<<"buffer", h, 0, i>> : i \in At(buffer[h], m)}
        written(h) == UNION {{<<"socket", h, n, i>> : i \in At(outbox[h][n], m)} :
                                 n \in DOMAIN outbox[h]}
        arrived(bulk) == UNION {{<<"in", bulk, n, i>> : i \in At(bulk, m)} :
                                    n \in 1 .. inQueue[bulk]}
    IN  {<<"queue", 0, 0, 0>> : q \in queue \cap {m}}
        \cup (UNION {buffered(h) \cup written(h) : h \in Hubs})
        \cup (UNION {arrived(bulk) : bulk \in BagToSet(inQueue)})

(* ONE BULK.  While no hub dies or stops, a message is in one bulk at most *)
(* and once in it, although timeouts and full buffers of several processes *)
(* race for it (bulk.js:50-62); one still buffered, or with the broker, is *)
(* in none, and in no other buffer.                                        *)
OneBulk == upsets = 0 => \A m \in Msgs : \A c, d \in Copies(m) : c = d

\* Somebody has it who may still put it into a bulk: the broker, a buffer, a socket.
InHand(m) ==
    \/ m \in queue
    \/ \E h \in Hubs : m \in held[h] \cup ToSet(buffer[h]) \cup Packed(outbox[h])

\* Why nobody need have it any more.
Ends(m) == {why \in {"enqueued", "wiped"} : \/ why = "enqueued" /\ InBulk(m)
                                            \/ why = "wiped" /\ m \in wiped}

Stage(m) == IF InHand(m) THEN "held" ELSE IF m \in published THEN "gone" ELSE "new"

Promise == INSTANCE AtLeastOnce WITH Ids <- Msgs,
                                     Answers <- {},
                                     state <- [m \in Msgs |-> Stage(m)],
                                     why <- [m \in Msgs |-> Ends(m)]

(* AT LEAST ONE BULK.  The packing of bulks keeps the same promise as the  *)
(* delivery of messages: one that has been routed to the bulk queue is     *)
(* held until a bulk has it, or the one exception of NoLoss has wiped it,  *)
(* and then it never comes back, whoever still has it in a buffer or under *)
(* a timeout after a stop or a death (bulk.js:39-69).                      *)
BulksAtLeastOnce == Promise!Spec

(* NO ONE WAITS FOR EVER.  Every message of the bulk queue gets into a     *)
(* bulk of the in queue, however few messages follow it and whichever      *)
(* processes hold the rest of the batch (bulk.js:50-57), as long as there  *)
(* is a hub that has not been stopped.                                     *)
EveryMessagePacked ==
    \A m \in Msgs : m \in published ~> (InBulk(m) \/ m \in wiped)

(* ONE REQUEST.  Once all messages have been enqueued as one bulk, that is *)
(* the only bulk: test/integration/bulk.js:20-24 publishes two messages to *)
(* a subscriber of bulks of two and expects one request.                   *)
OneRequest ==
    (\E bulk \in BagToSet(inQueue) : ToSet(bulk) = Msgs) => BagCardinality(inQueue) = 1

=============================================================================
