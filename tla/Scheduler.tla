------------------------------ MODULE Scheduler ------------------------------
(***************************************************************************)
(* Moving scheduled messages back to the queue (lib/middlewares/           *)
(* scheduler.js), by the pollers of the hub processes under the lock and   *)
(* by an administrator's request without it.                               *)
(*                                                                         *)
(* A run is one execution of doHandleScheduledMessages or of the API's     *)
(* scheduleNow.  It holds COPIES of the documents it has read, and the     *)
(* steps between two of its awaits interleave with everything else.        *)
(*                                                                         *)
(* Simplifications.                                                        *)
(*  - dueTime is the flag "due"; a batch is any BatchLimit of the due      *)
(*    items and is worked through in any order, where the code sorts by    *)
(*    dueTime.                                                             *)
(*  - The clocks of the hub processes agree.                               *)
(***************************************************************************)
EXTENDS HubStore, LockManager

CONSTANTS
    Requests,    \* slots for concurrent scheduleNow requests of the API
    RunsOn,      \* [Pollers \cup Requests -> Hubs]
    BatchLimit   \* MAX_ITEMS of getDueMessages

Runs == Pollers \cup Requests

ASSUME RunsAssumption == /\ Pollers \cap Requests = {}
                         /\ RunsOn \in [Runs -> Hubs]
ASSUME BatchAssumption == BatchLimit \in Nat \ {0}

VARIABLES
    runPc,  \* where a run waits: not running, for the find, for a deleteOne or its turn
    todo,   \* the documents a run has read and not yet enqueued
    sent,   \* the document a run has enqueued and not yet deleted
    lapsed  \* history: the pollers under whose present run their lock has run out

runVars == <<runPc, todo, sent, lapsed>>

RunTypeOK ==
    /\ runPc \in [Runs -> {"idle", "reading", "sending"}]
    /\ todo \in [Runs -> SUBSET ScheduledItem]
    /\ sent \in [Runs -> SUBSET ScheduledItem]
    /\ lapsed \subseteq Pollers

RunInit ==
    /\ runPc = [r \in Runs |-> "idle"]
    /\ todo = [r \in Runs |-> {}]
    /\ sent = [r \in Runs |-> {}]
    /\ lapsed = {}

Due == {s \in schedule : s.due = "due"}

\* The items some run has enqueued: what is left of them is to be deleted.
Sent == UNION {sent[r] : r \in Runs}

\* The items of the schedule and those of which a run still holds a copy.
Referenced == schedule \cup Sent \cup UNION {todo[r] : r \in Runs}

\* Mongo gives an inserted document an _id no other document has or had.
Fresh(i) == \A s \in Referenced : s.item # i

\* Scheduler.schedule: the message waits for its dueTime.
InsertItem(i, m, when) ==
    /\ Fresh(i)
    /\ schedule' = schedule \cup {[item |-> i, msg |-> m, due |-> when]}

RunEnds(rs) ==
    /\ runPc' = [r \in Runs |-> IF r \in rs THEN "idle" ELSE runPc[r]]
    /\ todo' = [r \in Runs |-> IF r \in rs THEN {} ELSE todo[r]]
    /\ sent' = [r \in Runs |-> IF r \in rs THEN {} ELSE sent[r]]
    /\ lapsed' = lapsed \ rs

-----------------------------------------------------------------------------

\* Mutant: the run goes on although it has not got the lock.
AcquireLockUnchecked(p) ==
    /\ RunsOn[p] \in up
    /\ runPc[p] = "idle"
    /\ IF lock = Free THEN lock' = p ELSE UNCHANGED lock
    /\ runPc' = [runPc EXCEPT ![p] = "reading"]
    /\ UNCHANGED <<storeVars, todo, sent, lapsed>>

\* doHandleScheduledMessages takes the lock, or returns if it cannot.
AcquireLock(p) ==
    /\ RunsOn[p] \in up
    /\ runPc[p] = "idle"
    /\ TryAcquire(p)
    /\ runPc' = [runPc EXCEPT ![p] = "reading"]
    /\ UNCHANGED <<storeVars, todo, sent, lapsed>>

\* The answer to getDueMessages: at most BatchLimit of the due items.
ReadDue(p) ==
    /\ runPc[p] = "reading"
    /\ \E batch \in SUBSET Due :
        /\ \/ batch = Due /\ Cardinality(Due) <= BatchLimit
           \/ Cardinality(batch) = BatchLimit
        /\ todo' = [todo EXCEPT ![p] = batch]
    /\ runPc' = [runPc EXCEPT ![p] = "sending"]
    /\ UNCHANGED <<storeVars, lock, sent, lapsed>>

\* Mutant: the item is taken out of the schedule by the find (findOneAndDelete).
FindAndDelete(q) ==
    /\ RunsOn[q] \in up
    /\ runPc[q] = "idle"
    /\ Mishap("scheduleNow")
    /\ \E s \in schedule : /\ todo' = [todo EXCEPT ![q] = {s}]
                            /\ schedule' = schedule \ {s}
    /\ runPc' = [runPc EXCEPT ![q] = "sending"]
    /\ UNCHANGED <<up, outbox, inQueue, dead, accepted, released, lock, sent, lapsed>>

(* The API's scheduleNow has found its item; no lock is taken.  A request  *)
(* for an item that is gone fails with a TypeError and changes nothing.    *)
FindOne(q) ==
    /\ RunsOn[q] \in up
    /\ runPc[q] = "idle"
    /\ Mishap("scheduleNow")
    /\ \E s \in schedule : todo' = [todo EXCEPT ![q] = {s}]
    /\ runPc' = [runPc EXCEPT ![q] = "sending"]
    /\ UNCHANGED <<up, outbox, inQueue, schedule, dead, accepted, released, lock, sent, lapsed>>

\* scheduleNow up to its deleteOne: the copy read before goes to the queue.
EnqueueNext(r) ==
    /\ sent[r] = {}
    /\ \E s \in todo[r] :
        /\ Enqueue(RunsOn[r], s.msg)
        /\ todo' = [todo EXCEPT ![r] = @ \ {s}]
        /\ sent' = [sent EXCEPT ![r] = {s}]
    /\ UNCHANGED <<up, inQueue, schedule, dead, accepted, released, count, lock, runPc, lapsed>>

\* The item with that _id is deleted, whether or not it still exists.
DeleteSent(r) ==
    /\ sent[r] # {}
    /\ schedule' = {s \in schedule : \A t \in sent[r] : t.item # s.item}
    /\ sent' = [sent EXCEPT ![r] = {}]
    /\ UNCHANGED <<up, outbox, inQueue, dead, accepted, released, count, lock, runPc, todo, lapsed>>

\* The batch is done: the poller gives the lock back and waits for its timer.
FinishPoll(p) ==
    /\ runPc[p] = "sending" /\ todo[p] = {} /\ sent[p] = {}
    /\ ReleaseLock(p)
    /\ RunEnds({p})
    /\ UNCHANGED storeVars

(* Redis rejects the unlock, which it may have applied all the same: the   *)
(* run ends with the exception, and the lock is left to its TTL.           *)
UnlockFails(p) ==
    /\ runPc[p] = "sending" /\ todo[p] = {} /\ sent[p] = {}
    /\ Mishap("redis")
    /\ UNCHANGED lock \/ ReleaseLock(p)
    /\ RunEnds({p})
    /\ UNCHANGED <<up, outbox, inQueue, schedule, dead, accepted, released>>

\* The request is answered 204.
FinishRequest(q) ==
    /\ runPc[q] = "sending" /\ todo[q] = {} /\ sent[q] = {}
    /\ RunEnds({q})
    /\ UNCHANGED <<storeVars, lock>>

(* Mongo rejects the find or the deleteOne (which it may have applied all  *)
(* the same): the generator is left by the exception, without releasing    *)
(* the lock, and the rest of its batch stays scheduled.                    *)
RunFails(r) ==
    /\ runPc[r] = "reading" \/ sent[r] # {}
    /\ Mishap("store")
    /\ \/ UNCHANGED schedule
       \/ sent[r] # {} /\ schedule' = {s \in schedule : \A t \in sent[r] : t.item # s.item}
    /\ RunEnds({r})
    /\ UNCHANGED <<up, outbox, inQueue, dead, accepted, released, lock>>

\* The lock's TTL: harmless for a lock left behind, a mishap for one in use.
LeaseExpires ==
    /\ LeaseEnds
    /\ IF runPc[lock] = "idle"
       THEN Quiet /\ UNCHANGED lapsed
       ELSE Mishap("expiry") /\ lapsed' = lapsed \cup {lock}
    /\ UNCHANGED <<up, outbox, inQueue, schedule, dead, accepted, released, runPc, todo, sent>>

=============================================================================
