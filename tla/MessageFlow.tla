----------------------------- MODULE MessageFlow -----------------------------
(***************************************************************************)
(* The life of the messages of one consuming service: hub processes that   *)
(* share RabbitMQ, Mongo and Redis publish, deliver, retry, reschedule and *)
(* bury them, while processes die and are started again.                   *)
(*                                                                         *)
(* This module composes HubStore, LockManager, Scheduler, DeadLetters and  *)
(* Delivery.                                                               *)
(***************************************************************************)
EXTENDS Delivery

vars == <<storeVars, lock, runVars, revivalVars, jobVars>>

\* Mutant: messages are consumed without acknowledgements, so none is requeued.
CrashWithoutRequeue(h) ==
    /\ h \in up
    /\ Mishap("crash")
    /\ up' = up \ {h}
    /\ jobs' = {j \in jobs : WorksOn[j.worker] # h}
    /\ outbox' = [outbox EXCEPT ![h] = EmptyBag]
    /\ LetGo({m.id : m \in BagToSet(outbox[h])}, "wiped")
    /\ RunEnds({r \in Runs : RunsOn[r] = h})
    /\ RevivalsEnd({q \in Revivals : RevivesOn[q] = h})
    /\ UNCHANGED <<inQueue, schedule, dead, accepted, lock, processing, minted>>

(* A hub process dies.  The broker puts what its consumer had not          *)
(* acknowledged back in the queue, as it was; what the process had only    *)
(* written to its socket never arrives; its locks are left to their TTL.   *)
Crash(h) ==
    LET lost == {j \in jobs : WorksOn[j.worker] = h}
        requeued == [m \in {j.raw : j \in lost} |->
                         Cardinality({j \in lost : j.raw = m})]
    IN  /\ h \in up
        /\ Mishap("crash")
        /\ up' = up \ {h}
        /\ inQueue' = inQueue (+) requeued
        /\ jobs' = jobs \ lost
        /\ outbox' = [outbox EXCEPT ![h] = EmptyBag]
        /\ LetGo({m.id : m \in BagToSet(outbox[h])}, "wiped")
        /\ RunEnds({r \in Runs : RunsOn[r] = h})
        /\ RevivalsEnd({q \in Revivals : RevivesOn[q] = h})
        /\ UNCHANGED <<schedule, dead, accepted, lock, processing, minted>>

Init == StoreInit /\ LockInit /\ RunInit /\ RevivalInit /\ JobInit

\* The steps of the broker, the clock, the API and the processes' comings and goings.
StoreStep ==
    \/ /\ \/ \E h \in Hubs, id \in Ids : Publish(h, id)
          \/ \E h \in Hubs : Flush(h)
          \/ \E h \in Hubs : Restart(h)
          \/ \E s \in schedule : BecomeDue(s)
          \/ \E s \in schedule : ApiDelete(s)
       /\ UNCHANGED <<lock, runVars, revivalVars, jobVars>>
    \/ \E h \in Hubs : Crash(h)

\* A step of run r that nothing but the run itself and Mongo decide on.
RunProceeds(r) ==
    \/ EnqueueNext(r)
    \/ DeleteSent(r)
    \/ r \in Pollers /\ (ReadDue(r) \/ FinishPoll(r))
    \/ r \in Requests /\ FinishRequest(r)

RunStep ==
    /\ \/ \E p \in Pollers : AcquireLock(p)
       \/ \E q \in Requests : FindOne(q)
       \/ \E r \in Runs : RunProceeds(r) \/ RunFails(r)
       \/ \E p \in Pollers : UnlockFails(p)
       \/ LeaseExpires
    /\ UNCHANGED <<revivalVars, jobVars>>

\* A step of revival q that nothing but the revival itself and Mongo decide on.
RevivalProceeds(q) == ReadPage(q) \/ EnqueueDead(q) \/ DeleteDead(q)

\* The steps of an administrator at the dead letters.
DeadStep ==
    /\ \/ \E q \in Revivals :
             FindDead(q) \/ FindAllDead(q) \/ RevivalProceeds(q) \/ RevivalFails(q)
       \/ (\E m \in dead : ApiDeleteDead(m)) /\ UNCHANGED revivalVars
       \/ ApiDeleteAllDead /\ UNCHANGED revivalVars
    /\ UNCHANGED <<lock, runVars, jobVars>>

\* A step of job j on the answer it waits for.
JobProceeds(j) ==
    \/ Registered(j)
    \/ ReplyProcessed(j) \/ ReplyIgnored(j)
    \/ ReplyRetryAfter(j) \/ ReplyRetryDate(j)
    \/ ReplyFailed(j) \/ ReplyThrown(j)
    \/ Scheduled(j)
    \/ Killed(j) \/ KillDuplicate(j)
    \/ Unregistered(j)
    \/ Acked(j)

JobStep ==
    /\ \/ \E w \in Workers : Receive(w)
       \/ \E j \in jobs : JobProceeds(j) \/ RegisterFails(j) \/ InsertFails(j)
    /\ UNCHANGED <<lock, runVars, revivalVars>>

Next == StoreStep \/ RunStep \/ DeadStep \/ JobStep

Spec == Init /\ [][Next]_vars

(* Fairness: processes that have died are started again, the clock goes    *)
(* on, the brokers work, the service answers every POST, timers fire and   *)
(* pending promises are settled.  Nothing forces a mishap, and no fairness *)
(* says which poller gets the lock.                                        *)
Fairness ==
    /\ \A h \in Hubs : /\ WF_vars(Restart(h) /\ UNCHANGED <<lock, runVars, revivalVars, jobVars>>)
                       /\ WF_vars(Flush(h) /\ UNCHANGED <<lock, runVars, revivalVars, jobVars>>)
    /\ WF_vars(\E s \in schedule : BecomeDue(s) /\ UNCHANGED <<lock, runVars, revivalVars, jobVars>>)
    /\ WF_vars(\E p \in Pollers : AcquireLock(p) /\ UNCHANGED <<revivalVars, jobVars>>)
    /\ \A r \in Runs : WF_vars(RunProceeds(r) /\ UNCHANGED <<revivalVars, jobVars>>)
    /\ \A q \in Revivals : WF_vars(RevivalProceeds(q) /\ UNCHANGED <<lock, runVars, jobVars>>)
    /\ WF_vars(LeaseExpires /\ Quiet /\ UNCHANGED <<revivalVars, jobVars>>)
    /\ \A w \in Workers :
          /\ WF_vars(Receive(w) /\ UNCHANGED <<lock, runVars, revivalVars>>)
          /\ WF_vars(/\ \E j \in jobs : j.worker = w /\ JobProceeds(j)
                     /\ UNCHANGED <<lock, runVars, revivalVars>>)

FairSpec == Spec /\ Fairness

-----------------------------------------------------------------------------

TypeOK == StoreTypeOK /\ LockTypeOK /\ RunTypeOK /\ RevivalTypeOK /\ JobTypeOK

\* Nothing has failed and no administrator has interfered.
NoMishap == \A k \in Kinds \ {"putOff"} : count[k] = 0

(* RETRY BUDGET.  A message that can still be delivered has made fewer     *)
(* than maxAttempts attempts, and a dead one has made exactly that many.   *)
(* Only a first insert that is rejected can push it one further: by the    *)
(* store, or by an older dead letter that is deleted before the second     *)
(* (error_handler.js:19-40, called a second time by delivery.js:80).  A    *)
(* message that is put back among the living starts from zero.             *)
InsertedAtOnce == \A k \in {"store", "reenqueue", "deadDelete"} : count[k] = 0
Retryable(m) == m.attempts < MaxAttempts[m.id]
Exhausted(m) == /\ m.attempts >= MaxAttempts[m.id]
                /\ m.attempts <= MaxAttempts[m.id] + 1
                /\ InsertedAtOnce => m.attempts = MaxAttempts[m.id]

RetryBudget ==
    /\ \A m \in BagToSet(inQueue) : Retryable(m)
    /\ \A h \in Hubs : \A m \in BagToSet(outbox[h]) : Retryable(m)
    /\ \A s \in schedule : Retryable(s.msg)
    /\ \A m \in dead : Exhausted(m)

\* A job that has not yet passed on or finished with its message.
Unsettled(j) == j.pc \notin {"unregistering", "acking"}

\* Where a copy of id may be; what has just been enqueued from the schedule or
\* from the dead letters, and is to be deleted there, does not count.
Queued(id) == \E m \in BagToSet(inQueue) : m.id = id
Buffered(id) == \E h \in Hubs : \E m \in BagToSet(outbox[h]) : m.id = id
Waiting(id) == \E s \in schedule : s.msg.id = id /\ \A t \in Sent : t.item # s.item
Buried(id) == \E m \in dead : m.id = id /\ ~Overtaken(m)
InHand(id) == \E j \in jobs : j.msg.id = id /\ Unsettled(j)

Firm(id) == Queued(id) \/ Buffered(id) \/ Waiting(id) \/ Buried(id) \/ InHand(id)

\* What must have gone wrong, or have been asked for, before the hub may let go
\* of a message for that reason.
Happened(why) ==
    /\ why = "deleted" => count["delete"] > 0 \/ count["deadDelete"] > 0
    /\ why = "wiped" => count["crash"] > 0
    /\ why = "overtaken" => count["reenqueue"] > 0
    /\ why = "undelivered" => count["store"] > 0 /\ ("thrown" \in Replies \/ count["redis"] > 0)
    /\ why = "storeFailed" => /\ count["store"] > 0
                              /\ \/ count["store"] > 1
                                 \/ \E k \in Kinds \ {"store", "putOff"} : count[k] > 0

(* NO UNEXPLAINED LOSS.  Whatever crashes, expires, fails or overtakes     *)
(* whatever: the hub keeps a copy of every message the API has accepted    *)
(* until one of these has happened to it:                                  *)
(*  - the service has answered it without asking for a retry;              *)
(*  - an administrator has deleted it;                                     *)
(*  - a hub process has died with it in its socket buffer;                 *)
(*  - it died once more before the request that revived it had deleted its *)
(*    dead letter (dead_letter.js:45, :55);                                *)
(*  - its request threw, or the HSET before it was rejected, and then the  *)
(*    store rejected ONE insert: the catch block of delivery.js:69-80 is   *)
(*    running already, and nothing catches an exception of its own;        *)
(*  - the store rejected its insert after an answer of the service, or     *)
(*    refused it as a duplicate, which takes an earlier mishap, and then   *)
(*    rejected the insert of the catch block too.                          *)
(* The acknowledgement (rabbit_queue.js:66) never comes before the next    *)
(* copy is safe, and neither scheduleNow (scheduler.js:51-52) nor a        *)
(* revival in time deletes the only copy.                                  *)
NoUnexplainedLoss ==
    \A id \in accepted : Firm(id) \/ \E why \in released[id] : Happened(why)

(* The copies of id: what the broker, a socket, the schedule (unless just  *)
(* enqueued from it), the dead letters and the unsettled jobs hold.  Those *)
(* of a bag are numbered.                                                  *)
InBag(b, id) == UNION {{m} \X (1 .. b[m]) : m \in {n \in BagToSet(b) : n.id = id}}
InSockets(id) == UNION {{h} \X InBag(outbox[h], id) : h \in Hubs}
InSchedule(id) == {s \in schedule : s.msg.id = id /\ \A t \in Sent : t.item # s.item}
InGrave(id) == {m \in dead : m.id = id /\ ~Overtaken(m)}
InJobs(id) == {j \in jobs : j.msg.id = id /\ Unsettled(j)}

Copies(id) == ({"queue"} \X InBag(inQueue, id)) \cup ({"sockets"} \X InSockets(id))
              \cup ({"schedule"} \X InSchedule(id)) \cup ({"dead"} \X InGrave(id))
              \cup ({"jobs"} \X InJobs(id))

(* ONE COPY.  While nothing fails and no administrator interferes, a       *)
(* message has exactly one copy, however many hub processes poll the same  *)
(* schedule: what the lock of scheduler.js:72 is there for.  A message the *)
(* service has processed, or the hub dropped, has none.                    *)
OneCopy ==
    NoMishap => \A id \in Ids :
                    IF id \in accepted /\ released[id] = {}
                    THEN \E c \in Copies(id) : Copies(id) = {c}
                    ELSE Copies(id) = {}

(* Where a message is, for the publisher: anything the hub may still send  *)
(* it from counts, a job until its acknowledgement included, as the broker *)
(* may deliver that message again.                                         *)
Held(id) ==
    \/ Queued(id) \/ Buffered(id)
    \/ \E s \in schedule \cup UNION {todo[r] : r \in Runs} : s.msg.id = id
    \/ \E m \in UNION {found[q] : q \in Revivals} : m.id = id
    \/ \E j \in jobs : j.msg.id = id

Lies(id) == \E m \in dead : m.id = id

Phase(id) == IF Held(id) THEN "held"
             ELSE IF Lies(id) THEN "buried"
             ELSE IF id \in accepted THEN "gone" ELSE "new"

Promise == INSTANCE AtLeastOnce WITH state <- [id \in Ids |-> Phase(id)],
                                     why <- released,
                                     Answers <- {"processed", "ignored"}

(* AT LEAST ONCE.  The message flow implements the promise of AtLeastOnce: *)
(* it holds on to what it has accepted until there is a reason not to, and *)
(* what is gone never comes back, whichever copies of it there have been   *)
(* in queues, sockets, schedules and memories (rabbit_queue.js:54-67,      *)
(* scheduler.js:47-59, dead_letter.js:34-56).                              *)
ImplementsAtLeastOnce == Promise!Spec

(* POLL MUTEX.  A poller at work has the lock, unless its own lock has run *)
(* out in this very run.  So whatever has failed, died or run out before,  *)
(* two pollers work on the schedule at the same time only while one of     *)
(* them has outlived its TTL: a poller that returns late does not open the *)
(* schedule to a third one by giving back its successor's lock, and no     *)
(* lock left behind lets two in (scheduler.js:71-82).                      *)
PollMutex ==
    \A p \in Pollers : runPc[p] # "idle" => (lock = p <=> p \notin lapsed)

(* NO LEFTOVERS.  Unless a process dies or Redis rejects a command, every  *)
(* field of the processing hash, which the inspector shows, belongs to a   *)
(* delivery still in progress, on every way out of Delivery.handle and     *)
(* with copies of one message in several processes (delivery.js:81-84).    *)
(* The converse does not hold: a retry that overtakes the unregister of    *)
(* the delivery before it loses its field to it.                           *)
NoLeftovers ==
    (count["crash"] = 0 /\ count["redis"] = 0) =>
        \A id \in processing :
            \E j \in jobs : j.msg.id = id /\ j.registered /\ j.pc # "acking"

(* SETTLEMENT.  Every accepted message ends: it is released or dead, if    *)
(* the service does not put it off for ever with Retry-After (the bound on *)
(* "putOff" says it does not), or it lies in the schedule without a time,  *)
(* which a Retry-After that is a date makes of it (delivery.js:32) and     *)
(* only an administrator can end.                                          *)
Shelved(id) == \E s \in schedule : s.msg.id = id /\ s.due = "never"

Settlement ==
    \A id \in Ids : id \in accepted ~> (released[id] # {} \/ Buried(id) \/ Shelved(id))

(* DUE ITEMS LEAVE.  Every item scheduled for a time leaves the schedule,  *)
(* even if a poller has failed or died with the lock (its TTL sees to      *)
(* that).                                                                  *)
ItemsLeave ==
    \A i \in Items : (\E s \in schedule : s.item = i /\ s.due # "never")
                        ~> ~(\E s \in schedule : s.item = i /\ s.due # "never")

-----------------------------------------------------------------------------
(* What makes the invariants above inductive; the proofs use these.        *)

\* A Mongo _id stands for one message, in the schedule and in every copy.
ItemsAgree ==
    \A s, t \in Referenced : s.item = t.item => s.msg = t.msg

\* What the broker would redeliver is the message the job is working on.
RawKeepsId == \A j \in jobs : j.raw.id = j.msg.id

\* Where in its life a job is tells how many attempts its message has made.
JobBudget(j) ==
    /\ Retryable(j.raw)
    /\ j.pc \in {"registering", "posting", "scheduling", "shelving"} => Retryable(j.msg)
    /\ j.pc = "killing" =>
          /\ j.msg.attempts >= MaxAttempts[j.msg.id]
          /\ j.msg.attempts <= MaxAttempts[j.msg.id] + 1
          /\ j.caught = "nothing" => j.msg.attempts = MaxAttempts[j.msg.id]
          /\ InsertedAtOnce => j.msg.attempts = MaxAttempts[j.msg.id] \/ KeyTaken(j.msg)

RunBudget(r) == \A s \in todo[r] : Retryable(s.msg)

\* A revival that reads, or none, has no dead letters in hand.
RevivalsClear ==
    \A q \in Revivals : revivalPc[q] \in {"idle", "reading"} => found[q] = {} /\ revived[q] = {}

\* Only a poller at work can have outlived its lock, and that is counted.
MutexInv ==
    /\ PollMutex
    /\ \A p \in lapsed : runPc[p] # "idle"
    /\ count["expiry"] = 0 => lapsed = {}

\* There is a copy of every accepted message, or the hub has let go of it.
Kept == \A id \in accepted : released[id] # {} \/ Firm(id)

LossInv == Kept /\ ItemsAgree /\ RawKeepsId /\ RevivalsClear

\* A revival at work is counted.
RevivalsCounted ==
    \A q \in Revivals : revivalPc[q] # "idle" \/ found[q] # {} \/ revived[q] # {} => count["reenqueue"] > 0

BudgetInv == /\ RetryBudget
             /\ RevivalsCounted
             /\ \A j \in jobs : JobBudget(j)
             /\ \A r \in Runs : RunBudget(r)

\* The _ids of the schedule are unique.
ItemsUnique == \A s, t \in schedule : s.item = t.item => s = t

\* A run that has read nothing has nothing in hand.
RunsClear == \A r \in Runs : runPc[r] # "sending" => todo[r] = {} /\ sent[r] = {}

\* What a poller is still to enqueue is in the schedule as the poller read it,
\* and it is not what the poller has just enqueued.
StillDue == \A p \in Pollers : \A s \in todo[p] :
                /\ s \in schedule /\ s.due = "due"
                /\ \A t \in sent[p] : t.item # s.item

\* The schedule and the runs: no request is at work, so the lock's holder works alone.
Orderly == ItemsUnique /\ RunsClear /\ StillDue /\ \A q \in Requests : runPc[q] = "idle"

\* What must have gone wrong before a job can be handling its exception.
CaughtAfter(j) ==
    /\ j.caught = "insert" => ~NoMishap
    /\ (j.caught = "delivery" => "thrown" \in Replies \/ count["redis"] > 0)

\* Whatever the hub has let go of, each reason it has for that has come true.
ReasonsInv ==
    /\ \A id \in Ids : \A why \in released[id] : Happened(why)
    /\ \A j \in jobs : CaughtAfter(j)

CopyInv ==
    /\ OneCopy
    /\ NoMishap => Orderly /\ \A id \in Ids \ accepted : released[id] = {}

=============================================================================
