-------------------------- MODULE AtLeastOnceProofs --------------------------
(***************************************************************************)
(* The message flow implements the promise of AtLeastOnce, for every value *)
(* of the constants.  The argument: no step makes a copy of a message out  *)
(* of nothing (FlowStep), so what is gone stays gone, and every accepted   *)
(* message has a copy or a reason to have none (Kept), so     *)
(* what is held is never dropped in silence.                               *)
(***************************************************************************)
EXTENDS MessageFlowProofs

(* What a step may do to one message, whatever the other messages do:      *)
(* copies come from copies, from an accepted request or, if they are to be *)
(* delivered again, from a dead letter; and only a copy in a step's hands  *)
(* gives it a reason for letting go of the message.                        *)
Flows(id) ==
    /\ Held(id)' => \/ Held(id)
                    \/ id \in accepted' \ accepted
                    \/ Lies(id) /\ released'[id] = released[id]
    /\ Lies(id)' => Lies(id) \/ Held(id)
    /\ id \in accepted => id \in accepted'
    /\ id \in accepted' \ accepted => Held(id)' /\ released'[id] = released[id]
    /\ \/ released'[id] = released[id]
       \/ Held(id)
       \/ Lies(id) /\ released'[id] = released[id] \cup {"deleted"}

\* Where the parts of Held are when a step leaves the rest alone.
LEMMA HeldWhere ==
    ASSUME NEW id
    PROVE  Held(id) <=> \/ Queued(id)
                        \/ Buffered(id)
                        \/ \E s \in schedule : s.msg.id = id
                        \/ \E r \in Runs : \E s \in todo[r] : s.msg.id = id
                        \/ \E q \in Revivals : \E m \in found[q] : m.id = id
                        \/ \E j \in jobs : j.msg.id = id
  BY DEF Held

\* Enqueueing m brings no message but its own into a channel.
LEMMA EnqueueOnly ==
    ASSUME TypeOK, NEW h \in Hubs, NEW m \in Message, Enqueue(h, m), NEW id, Buffered(id)'
    PROVE  Buffered(id) \/ id = m.id
<1>1. BagToSet(outbox'[h]) = BagToSet(outbox[h]) \cup {Json(m)}
  BY BagAddElements DEF Enqueue, TypeOK, StoreTypeOK
<1>2. \A g \in Hubs : g # h => outbox'[g] = outbox[g]
  BY DEF Enqueue, TypeOK, StoreTypeOK
<1> QED
  BY <1>1, <1>2, JsonKeeps DEF Buffered

\* A reason given to some messages changes nothing for the others.
LEMMA LetGoOnly ==
    ASSUME NEW ids, NEW why, LetGo(ids, why), NEW id \in Ids
    PROVE  released'[id] = IF id \in ids THEN released[id] \cup {why} ELSE released[id]
  BY DEF LetGo

LEMMA FlowStoreStep ==
    ASSUME TypeOK, LossInv, StoreStep, NEW id \in Ids
    PROVE  Flows(id)
<1>1. ASSUME NEW h \in Hubs, NEW i \in Ids, Publish(h, i), UNCHANGED <<lock, runVars, revivalVars, jobVars>>
      PROVE  Flows(id)
  <2>1. NewMessage(i) \in Message /\ NewMessage(i).id = i
    BY DEF NewMessage, Message
  <2>2. Buffered(id)' => Buffered(id) \/ id = i
    BY <1>1, <2>1, EnqueueOnly DEF Publish
  <2>3. id = i => Buffered(id)'
    BY <1>1, <2>1, EnqueueBuffers DEF Publish
  <2>4. /\ UNCHANGED <<inQueue, schedule, todo, found, jobs, dead, released>>
        /\ accepted' = accepted \cup {i}
    BY <1>1 DEF Publish, runVars, revivalVars, jobVars
  <2>5. (Held(id)' => Held(id) \/ id = i) /\ (id = i => Held(id)')
    BY <2>2, <2>3, <2>4 DEF Held, Queued
  <2>6. i \notin accepted
    BY <1>1 DEF Publish
  <2> QED
    BY <2>4, <2>5, <2>6 DEF Flows, Lies
<1>2. ASSUME NEW h \in Hubs, Flush(h), UNCHANGED <<lock, runVars, revivalVars, jobVars>>
      PROVE  Flows(id)
  <2>1. PICK m \in BagToSet(outbox[h]) :
            /\ outbox' = [outbox EXCEPT ![h] = @ (-) SetToBag({m})]
            /\ inQueue' = inQueue (+) SetToBag({m})
    BY <1>2 DEF Flush
  <2>2. BagToSet(inQueue') = BagToSet(inQueue) \cup {m}
    BY <2>1, BagAddElements
  <2>3. \A g \in Hubs : BagToSet(outbox'[g]) \subseteq BagToSet(outbox[g])
    BY <2>1, BagRemoveElements DEF TypeOK, StoreTypeOK
  <2>4. Queued(id)' \/ Buffered(id)' => Queued(id) \/ Buffered(id)
    BY <2>2, <2>3 DEF Queued, Buffered
  <2>5. UNCHANGED <<schedule, todo, found, jobs, dead, accepted, released>>
    BY <1>2 DEF Flush, runVars, revivalVars, jobVars
  <2> QED
    BY <2>4, <2>5 DEF Flows, Held, Lies
<1>3. ASSUME NEW h \in Hubs, Restart(h), UNCHANGED <<lock, runVars, revivalVars, jobVars>>
      PROVE  Flows(id)
  <2>1. UNCHANGED <<inQueue, outbox, schedule, todo, found, jobs, dead, accepted, released>>
    BY <1>3 DEF Restart, runVars, revivalVars, jobVars
  <2> QED
    BY <2>1 DEF Flows, Held, Queued, Buffered, Lies
<1>4. ASSUME NEW s \in schedule, BecomeDue(s), UNCHANGED <<lock, runVars, revivalVars, jobVars>>
      PROVE  Flows(id)
  <2>1. PICK t : t = [s EXCEPT !.due = "due"]
    OBVIOUS
  <2>2. t.msg = s.msg /\ schedule' = (schedule \ {s}) \cup {t}
    BY <1>4, <2>1 DEF BecomeDue, TypeOK, StoreTypeOK, ScheduledItem
  <2>3. (\E u \in schedule' : u.msg.id = id) => (\E u \in schedule : u.msg.id = id)
    BY <2>2
  <2>4. UNCHANGED <<inQueue, outbox, todo, found, jobs, dead, accepted, released>>
    BY <1>4 DEF BecomeDue, runVars, revivalVars, jobVars
  <2> QED
    BY <2>3, <2>4 DEF Flows, Held, Queued, Buffered, Lies
<1>5. ASSUME NEW s \in schedule, ApiDelete(s), UNCHANGED <<lock, runVars, revivalVars, jobVars>>
      PROVE  Flows(id)
  <2>1. schedule' \subseteq schedule /\ UNCHANGED <<inQueue, outbox, todo, found, jobs, dead, accepted>>
    BY <1>5 DEF ApiDelete, runVars, revivalVars, jobVars
  <2>2. released'[id] = released[id] \/ id = s.msg.id
    BY <1>5, LetGoOnly DEF ApiDelete
  <2> QED
    BY <2>1, <2>2 DEF Flows, Held, Queued, Buffered, Lies
<1>6. ASSUME NEW h \in Hubs, Crash(h)
      PROVE  Flows(id)
  <2> DEFINE lost == {j \in jobs : WorksOn[j.worker] = h}
             requeued == [m \in {j.raw : j \in lost} |-> Cardinality({j \in lost : j.raw = m})]
  <2>1. /\ lost \in SUBSET Job /\ IsFiniteSet(lost) /\ lost \subseteq jobs
        /\ \A j \in lost : j.raw.id = j.msg.id
    BY FS_Subset DEF TypeOK, JobTypeOK, LossInv, RawKeepsId
  <2>2. BagToSet(inQueue (+) requeued) = BagToSet(inQueue) \cup {j.raw : j \in lost}
    <3> HIDE DEF lost
    <3>1. BagToSet(requeued) = {j.raw : j \in lost}
      BY <2>1, RequeuedType
    <3> HIDE DEF requeued
    <3> QED BY <3>1, BagCupElements
  <2>3. inQueue' = inQueue (+) requeued /\ jobs' \subseteq jobs
    BY <1>6 DEF Crash
  <2> HIDE DEF requeued, lost
  <2>4. Queued(id)' => Queued(id) \/ \E j \in jobs : j.msg.id = id
    BY <2>1, <2>2, <2>3 DEF Queued
  <2>5. \A g \in Hubs : BagToSet(outbox'[g]) \subseteq BagToSet(outbox[g])
    BY <1>6, EmptyBagType DEF Crash, TypeOK, StoreTypeOK
  <2>6. \A r \in Runs : todo'[r] \subseteq todo[r]
    BY <1>6 DEF Crash, RunEnds
  <2>7. \A q \in Revivals : found'[q] \subseteq found[q]
    BY <1>6 DEF Crash, RevivalsEnd
  <2>8. UNCHANGED <<schedule, dead, accepted>>
    BY <1>6 DEF Crash
  <2>9. released'[id] = released[id] \/ Buffered(id)
    <3>1. LetGo({m.id : m \in BagToSet(outbox[h])}, "wiped")
      BY <1>6 DEF Crash
    <3>2. released'[id] = released[id] \/ id \in {m.id : m \in BagToSet(outbox[h])}
      BY <3>1, LetGoOnly
    <3> QED
      BY <3>2 DEF Buffered
  <2>10. Buffered(id)' => Buffered(id)
    BY <2>5 DEF Buffered
  <2>11. Held(id)' => Held(id)
    BY <2>3, <2>4, <2>6, <2>7, <2>8, <2>10, HeldWhere DEF Held
  <2>12. Buffered(id) => Held(id)
    BY DEF Held
  <2> QED
    BY <2>8, <2>9, <2>11, <2>12 DEF Flows, Lies
<1> QED
  BY <1>1, <1>2, <1>3, <1>4, <1>5, <1>6 DEF StoreStep

LEMMA FlowRunStep ==
    ASSUME TypeOK, RunStep, NEW id \in Ids
    PROVE  Flows(id)
<1>a. UNCHANGED <<inQueue, dead, accepted, released, found, jobs>>
  BY DEF RunStep, RunProceeds, AcquireLock, ReadDue, FindOne, EnqueueNext, DeleteSent, FinishPoll,
         UnlockFails, FinishRequest, RunFails, LeaseExpires, storeVars, revivalVars, jobVars
<1>b. ASSUME Held(id)' => Held(id)
      PROVE  Flows(id)
  BY <1>a, <1>b DEF Flows, Lies
<1>c. ASSUME outbox' = outbox, schedule' \subseteq schedule,
             \A r \in Runs : \A s \in todo'[r] : s \in todo[r] \/ s \in schedule
      PROVE  Flows(id)
  <2>1. Held(id)' => Held(id)
    BY <1>a, <1>c DEF Held, Queued, Buffered
  <2> QED
    BY <2>1, <1>b
<1>d. DOMAIN todo = Runs
  BY DEF TypeOK, RunTypeOK
<1>1. ASSUME NEW r \in Runs, ReadDue(r)
      PROVE  Flows(id)
  BY <1>1, <1>c, <1>d DEF ReadDue, Due, storeVars
<1>2. ASSUME NEW r \in Runs, FindOne(r)
      PROVE  Flows(id)
  <2>1. PICK s \in schedule : todo' = [todo EXCEPT ![r] = {s}]
    BY <1>2 DEF FindOne
  <2> QED
    BY <1>2, <2>1, <1>c, <1>d DEF FindOne
<1>3. ASSUME NEW r \in Runs, EnqueueNext(r)
      PROVE  Flows(id)
  <2>1. PICK s \in todo[r] : /\ Enqueue(RunsOn[r], s.msg)
                              /\ todo' = [todo EXCEPT ![r] = @ \ {s}]
    BY <1>3 DEF EnqueueNext
  <2>2. s.msg \in Message
    BY DEF TypeOK, RunTypeOK, ScheduledItem
  <2>3. Buffered(id)' => Buffered(id) \/ id = s.msg.id
    BY <2>1, <2>2, EnqueueOnly, RunsOnHubs
  <2>4. schedule' = schedule /\ \A t \in Runs : todo'[t] \subseteq todo[t]
    BY <1>3, <1>d, <2>1 DEF EnqueueNext
  <2>5. Held(id)' => Held(id)
    BY <1>a, <2>3, <2>4, HeldWhere DEF Held, Queued
  <2> QED
    BY <2>5, <1>b
<1>4. ASSUME NEW r \in Runs, DeleteSent(r) \/ FinishPoll(r) \/ UnlockFails(r) \/ FinishRequest(r) \/ RunFails(r)
      PROVE  Flows(id)
  BY <1>4, <1>c DEF DeleteSent, FinishPoll, FinishRequest, RunFails, UnlockFails, RunEnds, storeVars
<1>5. ASSUME UNCHANGED <<outbox, schedule, todo>>
      PROVE  Flows(id)
  BY <1>c, <1>5
<1> QED
  BY <1>1, <1>2, <1>3, <1>4, <1>5
     DEF RunStep, RunProceeds, AcquireLock, LeaseExpires, storeVars, runVars, Runs

LEMMA FlowDeadStep ==
    ASSUME TypeOK, DeadStep, NEW id \in Ids
    PROVE  Flows(id)
<1>a. UNCHANGED <<inQueue, schedule, accepted, todo, jobs>>
  BY DEF DeadStep, RevivalProceeds, FindDead, FindAllDead, ReadPage, EnqueueDead, DeleteDead,
         RevivalFails, ApiDeleteDead, ApiDeleteAllDead, storeVars, runVars, jobVars
<1>b. DOMAIN found = Revivals
  BY DEF TypeOK, RevivalTypeOK
<1>c. ASSUME outbox' = outbox, dead' \subseteq dead,
             \A q \in Revivals : \A m \in found'[q] : m \in found[q] \/ m \in dead,
             released' = released
      PROVE  Flows(id)
  <2>1. Held(id)' => Held(id) \/ Lies(id)
    BY <1>a, <1>c DEF Held, Queued, Buffered, Lies
  <2> QED
    BY <1>a, <1>c, <2>1 DEF Flows, Lies
<1>1. ASSUME NEW q \in Revivals, FindDead(q)
      PROVE  Flows(id)
  <2>1. PICK m \in dead : found' = [found EXCEPT ![q] = {m}]
    BY <1>1 DEF FindDead
  <2> QED
    BY <1>1, <2>1, <1>b, <1>c DEF FindDead
<1>2. ASSUME NEW q \in Revivals, FindAllDead(q)
      PROVE  Flows(id)
  BY <1>2, <1>c DEF FindAllDead
<1>3. ASSUME NEW q \in Revivals, ReadPage(q)
      PROVE  Flows(id)
  BY <1>3, <1>b, <1>c DEF ReadPage, storeVars
<1>4. ASSUME NEW q \in Revivals, EnqueueDead(q)
      PROVE  Flows(id)
  <2>1. PICK m \in found[q] : /\ Enqueue(RevivesOn[q], [m EXCEPT !.attempts = 0])
                              /\ found' = [found EXCEPT ![q] = @ \ {m}]
    BY <1>4 DEF EnqueueDead
  <2>2. /\ [m EXCEPT !.attempts = 0] \in Message /\ RevivesOn[q] \in Hubs
        /\ [m EXCEPT !.attempts = 0].id = m.id
    BY RevivalsAssumption DEF TypeOK, RevivalTypeOK, Message
  <2>3. Buffered(id)' => Buffered(id) \/ id = m.id
    BY <2>1, <2>2, EnqueueOnly
  <2>4. (\A p \in Revivals : found'[p] \subseteq found[p]) /\ UNCHANGED <<dead, released>>
    BY <1>4, <1>b, <2>1 DEF EnqueueDead
  <2>5. Held(id)' => Held(id)
    BY <1>a, <2>3, <2>4, HeldWhere DEF Held, Queued
  <2> QED
    BY <1>a, <2>4, <2>5 DEF Flows, Lies
<1>5. ASSUME NEW q \in Revivals, DeleteDead(q)
      PROVE  Flows(id)
  BY <1>5, <1>c, DeleteRevivedShrinks DEF DeleteDead
<1>6. ASSUME NEW q \in Revivals, RevivalFails(q)
      PROVE  Flows(id)
  <2>1. dead' \subseteq dead
    BY <1>6, DeleteRevivedShrinks DEF RevivalFails
  <2> QED
    BY <1>6, <2>1, <1>c DEF RevivalFails, RevivalsEnd
<1>7. ASSUME (\E m \in dead : ApiDeleteDead(m)) \/ ApiDeleteAllDead, UNCHANGED revivalVars
      PROVE  Flows(id)
  <2>1. released'[id] = released[id] \/ (Lies(id) /\ released'[id] = released[id] \cup {"deleted"})
    <3>1. CASE \E m \in dead : ApiDeleteDead(m)
      <4>1. PICK m \in dead : LetGo({m.id}, "deleted")
        BY <3>1 DEF ApiDeleteDead
      <4>2. released'[id] = released[id]
              \/ (id = m.id /\ released'[id] = released[id] \cup {"deleted"})
        BY <4>1, LetGoOnly
      <4> QED
        BY <4>2 DEF Lies
    <3>2. CASE ApiDeleteAllDead
      <4>1. LetGo({m.id : m \in dead}, "deleted")
        BY <3>2 DEF ApiDeleteAllDead
      <4>2. released'[id] = released[id]
              \/ (id \in {m.id : m \in dead} /\ released'[id] = released[id] \cup {"deleted"})
        BY <4>1, LetGoOnly
      <4> QED
        BY <4>2 DEF Lies
    <3> QED
      BY <1>7, <3>1, <3>2
  <2>2. dead' \subseteq dead /\ UNCHANGED <<outbox, found>>
    BY <1>7 DEF ApiDeleteDead, ApiDeleteAllDead, revivalVars
  <2>3. Held(id)' => Held(id)
    BY <1>a, <2>2 DEF Held, Queued, Buffered
  <2> QED
    BY <1>a, <2>1, <2>2, <2>3 DEF Flows, Lies
<1> QED
  BY <1>1, <1>2, <1>3, <1>4, <1>5, <1>6, <1>7 DEF DeadStep, RevivalProceeds

LEMMA FlowJobStep ==
    ASSUME TypeOK, JobStep, NEW id \in Ids
    PROVE  Flows(id)
<1>a. UNCHANGED <<outbox, accepted, todo, found>>
  BY JobStepFrame DEF JobStep, runVars, revivalVars
\* What a step of job j may do with the message of j.
<1>b. ASSUME NEW j \in jobs, inQueue' = inQueue,
             \A k \in jobs' : \E i \in jobs : i.msg.id = k.msg.id,
             \A s \in schedule' : s \in schedule \/ s.msg.id = j.msg.id,
             \A m \in dead' : m \in dead \/ m.id = j.msg.id,
             released'[id] = released[id] \/ id = j.msg.id
      PROVE  Flows(id)
  <2>1. id = j.msg.id => Held(id)
    BY DEF Held
  <2>2. Held(id)' => Held(id)
    <3>1. (\E k \in jobs' : k.msg.id = id) => Held(id)
      BY <1>b DEF Held
    <3>2. (\E s \in schedule' : s.msg.id = id) => Held(id)
      BY <1>b, <2>1, HeldWhere
    <3>3. (Queued(id)' <=> Queued(id)) /\ (Buffered(id)' <=> Buffered(id))
      BY <1>a, <1>b DEF Queued, Buffered
    <3> QED
      BY <1>a, <3>1, <3>2, <3>3, HeldWhere DEF Held
  <2>3. Lies(id)' => Lies(id) \/ Held(id)
    BY <1>b, <2>1 DEF Lies
  <2> QED
    BY <1>a, <1>b, <2>1, <2>2, <2>3 DEF Flows
\* Whatever j becomes, it keeps its message.
<1>c. ASSUME NEW j \in jobs, NEW k, Replace(j, k), k.msg.id = j.msg.id
      PROVE  \A l \in jobs' : \E i \in jobs : i.msg.id = l.msg.id
  BY <1>c DEF Replace
<1>d. ASSUME NEW j \in jobs, MovesOn(j) \/ Settle(j) \/ \E c \in Exceptions : HandleError(j, c)
      PROVE  \A l \in jobs' : \E i \in jobs : i.msg.id = l.msg.id
  <2>1. CASE MovesOn(j)
    BY <2>1, <1>c, MovesOnEffect
  <2>2. CASE Settle(j)
    BY <2>2, <1>c, SettleEffect
  <2>3. ASSUME NEW c \in Exceptions, HandleError(j, c)
        PROVE  \A l \in jobs' : \E i \in jobs : i.msg.id = l.msg.id
    BY <2>3, <1>c, HandleErrorEffect
  <2> QED
    BY <1>d, <2>1, <2>2, <2>3
<1>e. ASSUME NEW j \in jobs, InsertMessageOf(j)
      PROVE  \A s \in schedule' : s \in schedule \/ s.msg.id = j.msg.id
  <2>1. PICK i \in Items, when \in {"later", "never"} : InsertItem(i, j.msg, when)
    BY <1>e DEF InsertMessageOf
  <2> QED
    BY <2>1 DEF InsertItem
<1>f. ASSUME NEW j \in jobs, NEW why, LetGo({j.msg.id}, why)
      PROVE  released'[id] = released[id] \/ id = j.msg.id
  BY <1>f, LetGoOnly
<1>1. ASSUME NEW w \in Workers, Receive(w)
      PROVE  Flows(id)
  <2>1. PICK m \in BagToSet(inQueue) :
            /\ inQueue' = inQueue (-) SetToBag({m})
            /\ jobs' = jobs \cup {[worker |-> w, pc |-> "registering", raw |-> m,
                                   msg |-> Archived(m), caught |-> "nothing", registered |-> FALSE]}
    BY <1>1 DEF Receive
  <2>2. PICK k : k = [worker |-> w, pc |-> "registering", raw |-> m, msg |-> Archived(m),
                      caught |-> "nothing", registered |-> FALSE]
    OBVIOUS
  <2>3. jobs' = jobs \cup {k} /\ k.msg = Archived(m)
    BY <2>1, <2>2
  <2>4. m \in Message /\ Archived(m).id = m.id /\ MessageBag(inQueue)
    BY ArchivedType DEF TypeOK, StoreTypeOK, JobTypeOK, MessageBag, BagToSet
  <2>5. BagToSet(inQueue') \subseteq BagToSet(inQueue)
    BY <2>1, <2>4, BagRemoveElements
  <2>6. (Queued(id)' => Queued(id)) /\ (m.id = id => Queued(id))
    BY <2>5 DEF Queued
  <2>7. UNCHANGED <<schedule, dead, released>>
    BY <1>1 DEF Receive
  <2>8. (\E l \in jobs' : l.msg.id = id) => Queued(id) \/ \E l \in jobs : l.msg.id = id
    BY <2>3, <2>4, <2>6
  <2>9. Held(id)' => Held(id)
    BY <1>a, <2>6, <2>7, <2>8 DEF Held, Buffered
  <2> QED
    BY <1>a, <2>7, <2>9 DEF Flows, Lies
<1>2. ASSUME NEW j \in jobs, MovesOn(j)
      PROVE  Flows(id)
  <2>1. UNCHANGED <<inQueue, schedule, dead, released>>
    BY <1>2 DEF MovesOn, Registered, ReplyRetryAfter, ReplyRetryDate, Unregistered, storeVars
  <2> QED
    BY <1>2, <1>b, <1>d, <2>1
<1>3. ASSUME NEW j \in jobs, RegisterFails(j) \/ ReplyFailed(j) \/ ReplyThrown(j)
      PROVE  Flows(id)
  <2>1. UNCHANGED <<inQueue, schedule, dead, released>> /\ \E c \in Exceptions : HandleError(j, c)
    BY <1>3 DEF RegisterFails, ReplyFailed, ReplyThrown, Exceptions, storeVars
  <2> QED
    BY <1>b, <1>d, <2>1
<1>4. ASSUME NEW j \in jobs, ReplyProcessed(j) \/ ReplyIgnored(j)
      PROVE  Flows(id)
  <2>1. UNCHANGED <<inQueue, schedule, dead>> /\ Settle(j) /\ \E why : LetGo({j.msg.id}, why)
    BY <1>4 DEF ReplyProcessed, ReplyIgnored
  <2> QED
    BY <1>b, <1>d, <1>f, <2>1
<1>5. ASSUME NEW j \in jobs, Scheduled(j)
      PROVE  Flows(id)
  <2>1. UNCHANGED <<inQueue, dead, released>> /\ Settle(j) /\ InsertMessageOf(j)
    BY <1>5 DEF Scheduled
  <2> QED
    BY <1>b, <1>d, <1>e, <2>1
<1>6. ASSUME NEW j \in jobs, DiesAgain(j)
      PROVE  released'[id] = released[id] \/ id = j.msg.id
  BY <1>6, <1>f DEF DiesAgain
<1>7. ASSUME NEW j \in jobs, Killed(j)
      PROVE  Flows(id)
  <2>1. /\ UNCHANGED <<inQueue, schedule>> /\ Settle(j) /\ DiesAgain(j)
        /\ dead' = dead \cup {j.msg}
    BY <1>7 DEF Killed
  <2> QED
    BY <1>b, <1>d, <1>6, <2>1
<1>8. ASSUME NEW j \in jobs, KillDuplicate(j)
      PROVE  Flows(id)
  <2>1. UNCHANGED <<inQueue, schedule, dead>>
    BY <1>8 DEF KillDuplicate
  <2>2. CASE j.caught # "nothing"
    <3>1. Settle(j) /\ DiesAgain(j)
      BY <1>8, <2>2 DEF KillDuplicate
    <3> QED
      BY <1>b, <1>d, <1>6, <2>1, <3>1
  <2>3. CASE j.caught = "nothing"
    <3>1. HandleError(j, "insert") /\ UNCHANGED released
      BY <1>8, <2>3 DEF KillDuplicate
    <3> QED
      BY <1>b, <1>d, <2>1, <3>1 DEF Exceptions
  <2> QED
    BY <2>2, <2>3
<1>9. ASSUME NEW j \in jobs, InsertFails(j)
      PROVE  Flows(id)
  <2>1. inQueue' = inQueue /\ StoreRejects(j)
    BY <1>9 DEF InsertFails
  <2>2. /\ \A s \in schedule' : s \in schedule \/ s.msg.id = j.msg.id
        /\ \A m \in dead' : m \in dead \/ m.id = j.msg.id
    BY <1>9, <1>e DEF InsertFails
  <2>3. CASE j.caught # "nothing"
    <3>1. Settle(j) /\ \E why \in {"undelivered", "storeFailed"} : LetGo({j.msg.id}, why)
      BY <2>1, <2>3 DEF StoreRejects
    <3> QED
      BY <1>b, <1>d, <1>f, <2>1, <2>2, <3>1
  <2>4. CASE j.caught = "nothing"
    <3>1. HandleError(j, "insert") /\ UNCHANGED released
      BY <2>1, <2>4 DEF StoreRejects
    <3> QED
      BY <1>b, <1>d, <2>1, <2>2, <3>1 DEF Exceptions
  <2> QED
    BY <2>3, <2>4
<1>10. ASSUME NEW j \in jobs, Acked(j)
       PROVE  Flows(id)
  <2>1. UNCHANGED <<inQueue, schedule, dead, released>> /\ jobs' \subseteq jobs
    BY <1>10 DEF Acked, storeVars
  <2> QED
    BY <1>b, <2>1
<1> QED
  BY <1>1, <1>2, <1>3, <1>4, <1>5, <1>7, <1>8, <1>9, <1>10 DEF JobStep, JobProceeds, MovesOn

LEMMA FlowStep ==
    ASSUME TypeOK, LossInv, [Next]_vars, NEW id \in Ids
    PROVE  Flows(id)
<1>1. CASE UNCHANGED vars
  <2>1. UNCHANGED <<inQueue, outbox, schedule, dead, accepted, released, todo, found, jobs>>
    BY <1>1 DEF vars, storeVars, runVars, revivalVars, jobVars
  <2> QED
    BY <2>1 DEF Flows, Held, Queued, Buffered, Lies
<1> QED
  BY <1>1, FlowStoreStep, FlowRunStep, FlowDeadStep, FlowJobStep DEF Next

-----------------------------------------------------------------------------
(* The refinement.                                                         *)

\* Every copy is of a message that has been accepted.
Known == \A id \in Ids : Held(id) \/ Lies(id) => id \in accepted

LEMMA KnownInit == Init => Known
<1> SUFFICES ASSUME Init, NEW id \in Ids
             PROVE  ~Held(id) /\ ~Lies(id)
  BY DEF Known
<1>1. ~Queued(id) /\ ~Buffered(id)
  BY EmptyBagType DEF Init, StoreInit, Queued, Buffered
<1> QED
  BY <1>1, HeldWhere DEF Init, StoreInit, RunInit, RevivalInit, JobInit, Lies

LEMMA KnownStep ==
    ASSUME TypeOK, LossInv, Known, [Next]_vars
    PROVE  Known'
  BY FlowStep DEF Known, Flows

LEMMA PhaseIs ==
    ASSUME NEW id
    PROVE  /\ Held(id) <=> Phase(id) = "held"
           /\ ~Held(id) /\ Lies(id) <=> Phase(id) = "buried"
           /\ ~Held(id) /\ ~Lies(id) /\ id \in accepted <=> Phase(id) = "gone"
           /\ ~Held(id) /\ ~Lies(id) /\ id \notin accepted <=> Phase(id) = "new"
           /\ Phase(id) \in {"held", "buried", "gone", "new"}
  BY DEF Phase

\* The reasons of an administrator are no answers of the service.
LEMMA DeletedIsNoAnswer ==
    ASSUME NEW A, NEW B, B = A \/ B = A \cup {"deleted"}
    PROVE  B \cap {"processed", "ignored"} = A \cap {"processed", "ignored"}
  OBVIOUS

\* What the promise allows to happen to a message, by where it was and where it is.
LEMMA PromiseMoves ==
    ASSUME NEW id \in Ids,
           \/ Phase(id) = "new" /\ Phase(id)' \in {"new", "held"} /\ released'[id] = released[id]
           \/ Phase(id) = "gone" /\ Phase(id)' = "gone" /\ released'[id] = released[id]
           \/ /\ Phase(id) = "held" /\ Phase(id)' \in {"held", "buried"}
              /\ released[id] \subseteq released'[id]
           \/ Phase(id) = "buried" /\ Phase(id)' = "held" /\ released'[id] = released[id]
           \/ /\ Phase(id) = "buried" /\ Phase(id)' = "buried"
              /\ released[id] \subseteq released'[id]
              /\ released'[id] \cap {"processed", "ignored"} = released[id] \cap {"processed", "ignored"}
           \/ /\ Phase(id) \in {"held", "buried"} /\ Phase(id)' = "gone"
              /\ released[id] \subseteq released'[id] /\ released'[id] # {}
    PROVE  \/ Promise!Accept(id) \/ Promise!Hold(id) \/ Promise!Bury(id) \/ Promise!Revive(id)
           \/ Promise!Rest(id) \/ Promise!LetGo(id) \/ Promise!Ignore(id)
  BY DEF Promise!Accept, Promise!Hold, Promise!Bury, Promise!Revive, Promise!Rest, Promise!LetGo,
         Promise!Ignore, Promise!Moves

LEMMA PromiseStep ==
    ASSUME TypeOK, LossInv, Kept', Known, Known', [Next]_vars
    PROVE  Promise!Next
<1> SUFFICES ASSUME NEW id \in Ids
             PROVE  \/ Promise!Accept(id) \/ Promise!Hold(id) \/ Promise!Bury(id)
                    \/ Promise!Revive(id) \/ Promise!Rest(id) \/ Promise!LetGo(id)
                    \/ Promise!Ignore(id)
  BY DEF Promise!Next
<1>1. Flows(id) /\ released[id] \subseteq released'[id]
  BY FlowStep, ReasonsGrow
<1>2. /\ Held(id) \/ Lies(id) => id \in accepted
      /\ Held(id)' \/ Lies(id)' => id \in accepted'
  BY DEF Known
<1>3. id \in accepted' => released'[id] # {} \/ Held(id)' \/ Lies(id)'
  <2>1. Firm(id)' => Held(id)' \/ Lies(id)'
    BY DEF Firm, Waiting, Buried, InHand, Held, Lies
  <2> QED
    BY <2>1 DEF Kept
<1>4. /\ Held(id)' <=> Phase(id)' = "held"
      /\ ~Held(id)' /\ Lies(id)' <=> Phase(id)' = "buried"
      /\ ~Held(id)' /\ ~Lies(id)' /\ id \in accepted' <=> Phase(id)' = "gone"
      /\ ~Held(id)' /\ ~Lies(id)' /\ id \notin accepted' <=> Phase(id)' = "new"
  BY DEF Phase
<1>5. CASE Phase(id) = "new"
  <2>1. ~Held(id) /\ ~Lies(id) /\ id \notin accepted
    BY <1>5, PhaseIs
  <2>2. released'[id] = released[id] /\ Phase(id)' \in {"new", "held"}
    BY <1>1, <1>2, <1>4, <2>1 DEF Flows
  <2> QED
    BY <1>5, <2>2, PromiseMoves
<1>6. CASE Phase(id) = "gone"
  <2>1. ~Held(id) /\ ~Lies(id) /\ id \in accepted
    BY <1>6, PhaseIs
  <2>2. released'[id] = released[id] /\ Phase(id)' = "gone"
    BY <1>1, <1>4, <2>1 DEF Flows
  <2> QED
    BY <1>6, <2>2, PromiseMoves
<1>7. CASE Phase(id) = "held"
  <2>1. id \in accepted'
    BY <1>1, <1>2, <1>7, PhaseIs DEF Flows
  <2>2. CASE Held(id)' \/ Lies(id)'
    BY <1>1, <1>4, <1>7, <2>2, PromiseMoves
  <2>3. CASE ~Held(id)' /\ ~Lies(id)'
    BY <1>1, <1>3, <1>4, <1>7, <2>1, <2>3, PromiseMoves
  <2> QED
    BY <2>2, <2>3
<1>8. CASE Phase(id) = "buried"
  <2>1. ~Held(id) /\ Lies(id) /\ id \in accepted /\ id \in accepted'
    BY <1>1, <1>2, <1>8, PhaseIs DEF Flows
  <2>2. CASE Held(id)'
    <3>1. released'[id] = released[id]
      BY <1>1, <2>1, <2>2 DEF Flows
    <3> QED
      BY <1>4, <1>8, <2>2, <3>1, PromiseMoves
  <2>3. CASE ~Held(id)' /\ Lies(id)'
    <3>1. released'[id] \cap {"processed", "ignored"} = released[id] \cap {"processed", "ignored"}
      BY <1>1, <2>1, DeletedIsNoAnswer DEF Flows
    <3> QED
      BY <1>1, <1>4, <1>8, <2>3, <3>1, PromiseMoves
  <2>4. CASE ~Held(id)' /\ ~Lies(id)'
    BY <1>1, <1>3, <1>4, <1>8, <2>1, <2>4, PromiseMoves
  <2> QED
    BY <2>2, <2>3, <2>4
<1> QED
  BY <1>5, <1>6, <1>7, <1>8, PhaseIs

(* The hub holds on to every message it has accepted until it has a reason *)
(* not to, never brings back what it has let go of, and lets the service   *)
(* answer a dead letter only after it has been revived, whatever crashes,  *)
(* expires, fails or overtakes whatever (rabbit_queue.js:54-67,            *)
(* scheduler.js:47-59, dead_letter.js:34-56).                              *)
THEOREM AtLeastOnceHolds == Spec => ImplementsAtLeastOnce
<1>1. Init => Promise!Init
  <2> SUFFICES ASSUME Init
               PROVE  Promise!Init
    OBVIOUS
  <2>1. \A id \in Ids : ~Held(id) /\ ~Lies(id) /\ id \notin accepted
    <3>1. \A id \in Ids : ~Queued(id) /\ ~Buffered(id)
      BY EmptyBagType DEF Init, StoreInit, Queued, Buffered
    <3> QED
      BY <3>1, HeldWhere DEF Init, StoreInit, RunInit, RevivalInit, JobInit, Lies
  <2>2. \A id \in Ids : Phase(id) = "new"
    BY <2>1 DEF Phase
  <2> QED
    BY <2>2 DEF Promise!Init, Init, StoreInit
<1>2. TypeOK /\ LossInv /\ Known /\ [Next]_vars => Known'
  BY KnownStep
<1>3. TypeOK /\ LossInv /\ Kept' /\ Known /\ Known' /\ [Next]_vars
        => [Promise!Next]_(Promise!pvars)
  BY PromiseStep
<1>4. Spec => []TypeOK
  BY TypeCorrect
<1>5. Spec => []LossInv
  BY LossInvHolds
<1>6. Init => Known
  BY KnownInit
<1>7. LossInv => Kept
  BY DEF LossInv
<1> QED
  BY <1>1, <1>2, <1>3, <1>4, <1>5, <1>6, <1>7, PTL DEF Spec, ImplementsAtLeastOnce, Promise!Spec

=============================================================================
