-------------------------- MODULE MessageFlowProofs --------------------------
(***************************************************************************)
(* The safety properties of MessageFlow for every number of hub processes, *)
(* workers, pollers, requests, messages and mishaps.                       *)
(***************************************************************************)
EXTENDS MessageFlow, FiniteSetTheorems, TLAPS

\* What joining bags, and adding or removing one element, does to their elements.
LEMMA BagCupElements ==
    ASSUME NEW a, NEW b
    PROVE  BagToSet(a (+) b) = BagToSet(a) \cup BagToSet(b)
  BY DEF BagToSet, (+)

LEMMA BagCupType ==
    ASSUME NEW a, MessageBag(a), NEW b, MessageBag(b)
    PROVE  MessageBag(a (+) b)
  BY DEF MessageBag, IsABag, (+)

LEMMA SingletonBag ==
    ASSUME NEW m
    PROVE  /\ BagToSet(SetToBag({m})) = {m}
           /\ m \in Message => MessageBag(SetToBag({m}))
  BY DEF MessageBag, IsABag, SetToBag, BagToSet

LEMMA BagAddElements ==
    ASSUME NEW b, NEW m
    PROVE  BagToSet(b (+) SetToBag({m})) = BagToSet(b) \cup {m}
  BY BagCupElements, SingletonBag

LEMMA BagAddType ==
    ASSUME NEW b, MessageBag(b), NEW m \in Message
    PROVE  MessageBag(b (+) SetToBag({m}))
  BY BagCupType, SingletonBag

LEMMA BagRemoveElements ==
    ASSUME NEW b, MessageBag(b), NEW m
    PROVE  /\ BagToSet(b (-) SetToBag({m})) \subseteq BagToSet(b)
           /\ BagToSet(b) \subseteq BagToSet(b (-) SetToBag({m})) \cup {m}
  BY DEF MessageBag, IsABag, BagToSet, SetToBag, (-)

LEMMA BagRemoveType ==
    ASSUME NEW b, MessageBag(b), NEW m
    PROVE  MessageBag(b (-) SetToBag({m}))
  BY DEF MessageBag, IsABag, SetToBag, (-)

LEMMA EmptyBagType == MessageBag(EmptyBag) /\ BagToSet(EmptyBag) = {}
  BY DEF MessageBag, IsABag, EmptyBag, SetToBag, BagToSet

\* JSON changes neither the id nor the attempts of a message.
LEMMA JsonKeeps ==
    ASSUME NEW m \in Message
    PROVE  Json(m) \in Message /\ Json(m).id = m.id /\ Json(m).attempts = m.attempts
  BY DEF Json, Message

\* The unacknowledged messages of a set of jobs, as the broker requeues them.
LEMMA RequeuedType ==
    ASSUME NEW lost \in SUBSET Job, IsFiniteSet(lost)
    PROVE  LET requeued == [m \in {j.raw : j \in lost} |-> Cardinality({j \in lost : j.raw = m})]
           IN  MessageBag(requeued) /\ BagToSet(requeued) = {j.raw : j \in lost}
<1> DEFINE from(m) == {j \in lost : j.raw = m}
           requeued == [m \in {j.raw : j \in lost} |-> Cardinality(from(m))]
<1>1. ASSUME NEW m \in {j.raw : j \in lost}
      PROVE  Cardinality(from(m)) \in {n \in Nat : n > 0}
  <2>1. from(m) # {} /\ from(m) \subseteq lost
    OBVIOUS
  <2>2. IsFiniteSet(from(m))
    BY <2>1, FS_Subset
  <2> HIDE DEF from
  <2>3. Cardinality(from(m)) \in Nat
    BY <2>2, FS_CardinalityType
  <2>4. Cardinality(from(m)) # 0
    BY <2>1, <2>2, FS_EmptySet
  <2> QED
    BY <2>3, <2>4
<1>2. {j.raw : j \in lost} \subseteq Message
  BY DEF Job
<1> HIDE DEF from
<1>3. requeued \in [{j.raw : j \in lost} -> {n \in Nat : n > 0}]
  BY <1>1
<1>4. DOMAIN requeued = {j.raw : j \in lost}
  OBVIOUS
<1>5. MessageBag(requeued) /\ BagToSet(requeued) = {j.raw : j \in lost}
  <2> HIDE DEF requeued
  <2> QED BY <1>2, <1>3, <1>4 DEF MessageBag, IsABag, BagToSet
<1> QED
  BY <1>5 DEF from

-----------------------------------------------------------------------------
(* Type correctness: the operators the actions share first, then one step  *)
(* per action.                                                             *)

OutboxOK == DOMAIN outbox = Hubs /\ \A h \in Hubs : MessageBag(outbox[h])

LEMMA EnqueueType ==
    ASSUME OutboxOK, NEW h \in Hubs, NEW m \in Message, Enqueue(h, m)
    PROVE  OutboxOK'
<1>1. MessageBag(outbox[h] (+) SetToBag({Json(m)}))
  BY JsonKeeps, BagAddType DEF OutboxOK
<1> QED
  BY <1>1 DEF OutboxOK, Enqueue

LEMMA MishapType ==
    ASSUME count \in [Kinds -> Nat], NEW k \in Kinds, Mishap(k)
    PROVE  /\ count' \in [Kinds -> Nat]
           /\ count'[k] = count[k] + 1
           /\ \A n \in Kinds : n # k => count'[n] = count[n]
  BY DEF Mishap

LEMMA LetGoType ==
    ASSUME released \in [Ids -> SUBSET Reasons], NEW ids, NEW why \in Reasons, LetGo(ids, why)
    PROVE  /\ released' \in [Ids -> SUBSET Reasons]
           /\ \A id \in Ids : released[id] \subseteq released'[id]
           /\ \A id \in Ids : id \in ids => released'[id] # {}
  BY DEF LetGo

LEMMA ReplaceType ==
    ASSUME JobTypeOK, NEW j, NEW k \in Job, Replace(j, k)
    PROVE  jobs' \subseteq Job /\ IsFiniteSet(jobs')
<1>1. IsFiniteSet(jobs \ {j})
  BY FS_RemoveElement DEF JobTypeOK
<1>2. IsFiniteSet((jobs \ {j}) \cup {k})
  BY <1>1, FS_AddElement
<1> QED
  BY <1>2 DEF Replace, JobTypeOK

LEMMA SettleType ==
    ASSUME JobTypeOK, NEW j \in jobs, Settle(j)
    PROVE  jobs' \subseteq Job /\ IsFiniteSet(jobs')
<1>1. [j EXCEPT !.pc = IF j.registered THEN "unregistering" ELSE "acking"] \in Job
  BY DEF JobTypeOK, Job, Steps
<1> QED
  BY <1>1, ReplaceType DEF Settle

LEMMA HandleErrorType ==
    ASSUME JobTypeOK, NEW j \in jobs, NEW c \in Exceptions, HandleError(j, c)
    PROVE  jobs' \subseteq Job /\ IsFiniteSet(jobs')
<1> DEFINE failed == [j.msg EXCEPT !.attempts = @ + 1]
           pc == IF failed.attempts >= MaxAttempts[failed.id] THEN "killing" ELSE "scheduling"
           k == [j EXCEPT !.msg = failed, !.caught = c, !.pc = pc]
<1>1. j \in Job /\ failed \in Message /\ pc \in Steps
  BY DEF JobTypeOK, Job, Message, Steps
<1>2. k \in Job
  <2> HIDE DEF failed, pc
  <2> QED BY <1>1 DEF Job
<1>3. Replace(j, k)
  BY DEF HandleError
<1> HIDE DEF k
<1> QED
  BY <1>2, <1>3, ReplaceType

LEMMA InsertItemType ==
    ASSUME schedule \subseteq ScheduledItem, NEW i \in Items, NEW m \in Message,
           NEW when \in {"later", "due", "never"}, InsertItem(i, m, when)
    PROVE  schedule' \subseteq ScheduledItem
<1>1. [item |-> i, msg |-> m, due |-> when] \in ScheduledItem
  BY DEF ScheduledItem
<1> QED
  BY <1>1 DEF InsertItem

LEMMA RunEndsType ==
    ASSUME RunTypeOK, NEW rs, RunEnds(rs)
    PROVE  RunTypeOK'
  BY DEF RunTypeOK, RunEnds

\* What a job inserts into the schedule is a scheduled item, new or not there yet.
LEMMA InsertMessageType ==
    ASSUME TypeOK, NEW j \in jobs, InsertMessageOf(j)
    PROVE  schedule' \subseteq ScheduledItem
<1>1. PICK i \in Items : InsertItem(i, j.msg, IF j.pc = "shelving" THEN "never" ELSE "later")
  BY DEF InsertMessageOf
<1>2. j.msg \in Message /\ schedule \subseteq ScheduledItem
  BY DEF TypeOK, StoreTypeOK, JobTypeOK, Job
<1> QED
  BY <1>1, <1>2, InsertItemType

LEMMA RevivalsEndType ==
    ASSUME RevivalTypeOK, NEW qs, RevivalsEnd(qs)
    PROVE  RevivalTypeOK'
  BY DEF RevivalTypeOK, RevivalsEnd

LEMMA ArchivedType ==
    ASSUME NEW m \in Message, minted \in [Ids -> Nat]
    PROVE  Archived(m) \in Message /\ Archived(m).id = m.id /\ Archived(m).attempts = m.attempts
  BY DEF Archived, Message

LEMMA RunsOnHubs == \A r \in Runs : RunsOn[r] \in Hubs
  BY RunsAssumption

LEMMA TypeInit == Init => TypeOK
<1> SUFFICES ASSUME Init PROVE TypeOK
  OBVIOUS
<1> USE DEF Init, StoreInit, LockInit, RunInit, RevivalInit, JobInit
<1>1. StoreTypeOK
  BY EmptyBagType DEF StoreTypeOK, Kinds, Reasons
<1>2. LockTypeOK /\ RunTypeOK /\ RevivalTypeOK
  BY DEF LockTypeOK, RunTypeOK, RevivalTypeOK
<1>3. JobTypeOK
  BY FS_EmptySet DEF JobTypeOK
<1> QED
  BY <1>1, <1>2, <1>3 DEF TypeOK

LEMMA TypeStoreStep == ASSUME TypeOK, StoreStep PROVE TypeOK'
<1> USE DEF TypeOK
<1>1. ASSUME NEW h \in Hubs, NEW id \in Ids, Publish(h, id), UNCHANGED <<lock, runVars, revivalVars, jobVars>>
      PROVE  TypeOK'
  <2>1. NewMessage(id) \in Message
    BY DEF NewMessage, Message
  <2>2. OutboxOK'
    BY <1>1, <2>1, EnqueueType DEF Publish, OutboxOK, StoreTypeOK
  <2> QED
    BY <1>1, <2>2 DEF Publish, OutboxOK, StoreTypeOK, LockTypeOK, RunTypeOK, RevivalTypeOK, JobTypeOK,
                      runVars, revivalVars, jobVars
<1>2. ASSUME NEW h \in Hubs, Flush(h), UNCHANGED <<lock, runVars, revivalVars, jobVars>>
      PROVE  TypeOK'
  <2>1. PICK m \in BagToSet(outbox[h]) :
            /\ outbox' = [outbox EXCEPT ![h] = @ (-) SetToBag({m})]
            /\ inQueue' = inQueue (+) SetToBag({m})
    BY <1>2 DEF Flush
  <2>2. m \in Message /\ MessageBag(outbox[h]) /\ MessageBag(inQueue)
    BY DEF StoreTypeOK, MessageBag, BagToSet
  <2>3. MessageBag(outbox[h] (-) SetToBag({m})) /\ MessageBag(inQueue (+) SetToBag({m}))
    BY <2>2, BagAddType, BagRemoveType
  <2>4. (DOMAIN outbox = Hubs /\ \A g \in Hubs : MessageBag(outbox[g]))' /\ MessageBag(inQueue')
    BY <2>1, <2>3 DEF StoreTypeOK
  <2> QED
    BY <1>2, <2>4 DEF Flush, StoreTypeOK, LockTypeOK, RunTypeOK, RevivalTypeOK, JobTypeOK,
                      runVars, revivalVars, jobVars
<1>3. ASSUME NEW h \in Hubs, Restart(h), UNCHANGED <<lock, runVars, revivalVars, jobVars>>
      PROVE  TypeOK'
  BY <1>3 DEF Restart, StoreTypeOK, LockTypeOK, RunTypeOK, RevivalTypeOK, JobTypeOK,
                      runVars, revivalVars, jobVars
<1>4. ASSUME NEW s \in schedule, BecomeDue(s), UNCHANGED <<lock, runVars, revivalVars, jobVars>>
      PROVE  TypeOK'
  <2>1. [s EXCEPT !.due = "due"] \in ScheduledItem
    BY DEF StoreTypeOK, ScheduledItem
  <2> QED
    BY <1>4, <2>1 DEF BecomeDue, StoreTypeOK, LockTypeOK, RunTypeOK, RevivalTypeOK, JobTypeOK,
                      runVars, revivalVars, jobVars
<1>5. ASSUME NEW s \in schedule, ApiDelete(s), UNCHANGED <<lock, runVars, revivalVars, jobVars>>
      PROVE  TypeOK'
  <2>1. count' \in [Kinds -> Nat] /\ released' \in [Ids -> SUBSET Reasons]
    BY <1>5, MishapType, LetGoType DEF ApiDelete, StoreTypeOK, Kinds, Reasons
  <2> QED
    BY <1>5, <2>1 DEF ApiDelete, StoreTypeOK, LockTypeOK, RunTypeOK, RevivalTypeOK, JobTypeOK,
                      runVars, revivalVars, jobVars
<1>6. ASSUME NEW h \in Hubs, Crash(h)
      PROVE  TypeOK'
  <2> DEFINE lost == {j \in jobs : WorksOn[j.worker] = h}
             requeued == [m \in {j.raw : j \in lost} |-> Cardinality({j \in lost : j.raw = m})]
  <2>1. lost \in SUBSET Job /\ IsFiniteSet(lost) /\ IsFiniteSet(jobs \ lost)
    BY FS_Subset DEF JobTypeOK
  <2>2. MessageBag(inQueue (+) requeued)
    <3> HIDE DEF lost
    <3>1. MessageBag(requeued)
      BY <2>1, RequeuedType
    <3> HIDE DEF requeued
    <3> QED BY <3>1, BagCupType DEF StoreTypeOK
  <2>3. inQueue' = inQueue (+) requeued /\ jobs' = jobs \ lost
    BY <1>6 DEF Crash
  <2>4. count' \in [Kinds -> Nat] /\ released' \in [Ids -> SUBSET Reasons]
    BY <1>6, MishapType, LetGoType DEF Crash, StoreTypeOK, Kinds, Reasons
  <2>5. (DOMAIN outbox = Hubs /\ \A g \in Hubs : MessageBag(outbox[g]))'
    BY <1>6, EmptyBagType DEF Crash, StoreTypeOK
  <2>6. StoreTypeOK'
    <3> HIDE DEF requeued
    <3> QED BY <1>6, <2>2, <2>3, <2>4, <2>5 DEF Crash, StoreTypeOK
  <2>7. LockTypeOK' /\ RunTypeOK' /\ RevivalTypeOK'
    BY <1>6, RunEndsType, RevivalsEndType DEF Crash, LockTypeOK
  <2>8. JobTypeOK'
    BY <1>6, <2>1, <2>3 DEF Crash, JobTypeOK
  <2> QED
    BY <2>6, <2>7, <2>8
<1> QED
  BY <1>1, <1>2, <1>3, <1>4, <1>5, <1>6 DEF StoreStep

LEMMA TypeRunStep == ASSUME TypeOK, RunStep PROVE TypeOK'
<1> USE DEF TypeOK
<1>a. JobTypeOK' /\ RevivalTypeOK'
  BY DEF RunStep, JobTypeOK, jobVars, RevivalTypeOK, revivalVars
<1>1. ASSUME NEW p \in Pollers, AcquireLock(p)
      PROVE  TypeOK'
  BY <1>1, <1>a DEF AcquireLock, TryAcquire, StoreTypeOK, storeVars, LockTypeOK, RunTypeOK
<1>2. ASSUME NEW p \in Pollers, ReadDue(p)
      PROVE  TypeOK'
  BY <1>2, <1>a DEF ReadDue, Due, StoreTypeOK, storeVars, LockTypeOK, RunTypeOK
<1>3. ASSUME NEW q \in Requests, FindOne(q)
      PROVE  TypeOK'
  <2>1. count' \in [Kinds -> Nat]
    BY <1>3, MishapType DEF FindOne, StoreTypeOK, Kinds
  <2>2. PICK s \in schedule : todo' = [todo EXCEPT ![q] = {s}]
    BY <1>3 DEF FindOne
  <2>3. {s} \in SUBSET ScheduledItem
    BY DEF StoreTypeOK
  <2>4. RunTypeOK'
    BY <1>3, <2>2, <2>3 DEF FindOne, RunTypeOK
  <2> QED
    BY <1>3, <1>a, <2>1, <2>4 DEF FindOne, StoreTypeOK, LockTypeOK
<1>4. ASSUME NEW r \in Runs, EnqueueNext(r)
      PROVE  TypeOK'
  <2>1. PICK s \in todo[r] : /\ Enqueue(RunsOn[r], s.msg)
                              /\ todo' = [todo EXCEPT ![r] = @ \ {s}]
                              /\ sent' = [sent EXCEPT ![r] = {s}]
    BY <1>4 DEF EnqueueNext
  <2>2. s \in ScheduledItem /\ s.msg \in Message
    BY DEF RunTypeOK, ScheduledItem
  <2>3. OutboxOK'
    BY <2>1, <2>2, EnqueueType, RunsOnHubs DEF OutboxOK, StoreTypeOK
  <2>4. StoreTypeOK'
    BY <1>4, <2>3 DEF EnqueueNext, StoreTypeOK, OutboxOK
  <2>5. RunTypeOK' /\ LockTypeOK'
    BY <1>4, <2>1, <2>2 DEF EnqueueNext, RunTypeOK, LockTypeOK
  <2> QED
    BY <1>a, <2>4, <2>5
<1>5. ASSUME NEW r \in Runs, DeleteSent(r)
      PROVE  TypeOK'
  BY <1>5, <1>a DEF DeleteSent, StoreTypeOK, LockTypeOK, RunTypeOK
<1>6. ASSUME NEW p \in Pollers, FinishPoll(p)
      PROVE  TypeOK'
  <2>1. RunTypeOK'
    BY <1>6, RunEndsType DEF FinishPoll
  <2> QED
    BY <1>6, <1>a, <2>1 DEF FinishPoll, ReleaseLock, StoreTypeOK, storeVars, LockTypeOK
<1>10. ASSUME NEW p \in Pollers, UnlockFails(p)
       PROVE  TypeOK'
  <2>1. RunTypeOK'
    BY <1>10, RunEndsType DEF UnlockFails
  <2>2. count' \in [Kinds -> Nat]
    BY <1>10, MishapType DEF UnlockFails, StoreTypeOK, Kinds
  <2> QED
    BY <1>10, <1>a, <2>1, <2>2 DEF UnlockFails, ReleaseLock, StoreTypeOK, LockTypeOK
<1>7. ASSUME NEW q \in Requests, FinishRequest(q)
      PROVE  TypeOK'
  <2>1. RunTypeOK'
    BY <1>7, RunEndsType DEF FinishRequest
  <2> QED
    BY <1>7, <1>a, <2>1 DEF FinishRequest, StoreTypeOK, storeVars, LockTypeOK
<1>8. ASSUME NEW r \in Runs, RunFails(r)
      PROVE  TypeOK'
  <2>1. RunTypeOK' /\ LockTypeOK'
    BY <1>8, RunEndsType DEF RunFails, LockTypeOK
  <2>2. count' \in [Kinds -> Nat]
    BY <1>8, MishapType DEF RunFails, StoreTypeOK, Kinds
  <2>3. schedule' \subseteq schedule
    BY <1>8 DEF RunFails
  <2> QED
    BY <1>8, <1>a, <2>1, <2>2, <2>3 DEF RunFails, StoreTypeOK
<1>9. ASSUME LeaseExpires
      PROVE  TypeOK'
  <2>1. count' \in [Kinds -> Nat]
    BY <1>9, MishapType DEF LeaseExpires, StoreTypeOK, Kinds, Quiet
  <2> QED
    BY <1>9, <1>a, <2>1 DEF LeaseExpires, LeaseEnds, StoreTypeOK, LockTypeOK, RunTypeOK, runVars
<1> QED
  BY <1>1, <1>2, <1>3, <1>4, <1>5, <1>6, <1>7, <1>8, <1>9, <1>10 DEF RunStep, RunProceeds

\* What a revival deletes is a part of the dead letters.
LEMMA DeleteRevivedShrinks ==
    ASSUME NEW q, NEW ms, DeleteRevived(q, ms)
    PROVE  dead' \subseteq dead
  BY DEF DeleteRevived

LEMMA TypeDeadStep == ASSUME TypeOK, DeadStep PROVE TypeOK'
<1> USE DEF TypeOK
<1>a. LockTypeOK' /\ RunTypeOK' /\ JobTypeOK'
  BY DEF DeadStep, LockTypeOK, RunTypeOK, runVars, JobTypeOK, jobVars
<1>1. ASSUME NEW q \in Revivals, FindDead(q) \/ FindAllDead(q)
      PROVE  TypeOK'
  <2>1. count' \in [Kinds -> Nat]
    BY <1>1, MishapType DEF FindDead, FindAllDead, StoreTypeOK, Kinds
  <2>2. RevivalTypeOK'
    BY <1>1 DEF FindDead, FindAllDead, RevivalTypeOK, StoreTypeOK
  <2> QED
    BY <1>1, <1>a, <2>1, <2>2 DEF FindDead, FindAllDead, StoreTypeOK
<1>2. ASSUME NEW q \in Revivals, ReadPage(q)
      PROVE  TypeOK'
  BY <1>2, <1>a DEF ReadPage, storeVars, StoreTypeOK, RevivalTypeOK
<1>3. ASSUME NEW q \in Revivals, EnqueueDead(q)
      PROVE  TypeOK'
  <2>1. PICK m \in found[q] : /\ Enqueue(RevivesOn[q], [m EXCEPT !.attempts = 0])
                              /\ found' = [found EXCEPT ![q] = @ \ {m}]
                              /\ revived' = [revived EXCEPT ![q] = @ \cup {m}]
    BY <1>3 DEF EnqueueDead
  <2>2. m \in Message /\ [m EXCEPT !.attempts = 0] \in Message /\ RevivesOn[q] \in Hubs
    BY RevivalsAssumption DEF RevivalTypeOK, Message
  <2>3. OutboxOK'
    BY <2>1, <2>2, EnqueueType DEF OutboxOK, StoreTypeOK
  <2>4. StoreTypeOK'
    BY <1>3, <2>3 DEF EnqueueDead, StoreTypeOK, OutboxOK
  <2>5. RevivalTypeOK'
    BY <1>3, <2>1, <2>2 DEF EnqueueDead, RevivalTypeOK
  <2> QED
    BY <1>a, <2>4, <2>5
<1>4. ASSUME NEW q \in Revivals, DeleteDead(q)
      PROVE  TypeOK'
  <2>1. dead' \subseteq dead
    BY <1>4, DeleteRevivedShrinks DEF DeleteDead
  <2> QED
    BY <1>4, <1>a, <2>1 DEF DeleteDead, StoreTypeOK, RevivalTypeOK
<1>5. ASSUME NEW q \in Revivals, RevivalFails(q)
      PROVE  TypeOK'
  <2>1. dead' \subseteq dead
    BY <1>5, DeleteRevivedShrinks DEF RevivalFails
  <2>2. count' \in [Kinds -> Nat] /\ RevivalTypeOK'
    BY <1>5, MishapType, RevivalsEndType DEF RevivalFails, StoreTypeOK, Kinds
  <2> QED
    BY <1>5, <1>a, <2>1, <2>2 DEF RevivalFails, StoreTypeOK
<1>6. ASSUME (\E m \in dead : ApiDeleteDead(m)) \/ ApiDeleteAllDead, UNCHANGED revivalVars
      PROVE  TypeOK'
  <2>1. count' \in [Kinds -> Nat] /\ released' \in [Ids -> SUBSET Reasons]
    BY <1>6, MishapType, LetGoType DEF ApiDeleteDead, ApiDeleteAllDead, StoreTypeOK, Kinds, Reasons
  <2> QED
    BY <1>6, <1>a, <2>1 DEF ApiDeleteDead, ApiDeleteAllDead, StoreTypeOK, RevivalTypeOK, revivalVars
<1> QED
  BY <1>1, <1>2, <1>3, <1>4, <1>5, <1>6 DEF DeadStep, RevivalProceeds

LEMMA TypeJobStep == ASSUME TypeOK, JobStep PROVE TypeOK'
<1> USE DEF TypeOK
<1>a. LockTypeOK' /\ RunTypeOK' /\ RevivalTypeOK'
  BY DEF JobStep, LockTypeOK, RunTypeOK, runVars, RevivalTypeOK, revivalVars
<1>b. \A j \in jobs : j \in Job /\ j.msg \in Message /\ j.msg.id \in Ids
  BY DEF JobTypeOK, Job, Message
<1>1. ASSUME NEW w \in Workers, Receive(w)
      PROVE  TypeOK'
  <2>1. PICK m \in BagToSet(inQueue) :
            /\ inQueue' = inQueue (-) SetToBag({m})
            /\ jobs' = jobs \cup {[worker |-> w, pc |-> "registering", raw |-> m,
                                   msg |-> Archived(m), caught |-> "nothing",
                                   registered |-> FALSE]}
            /\ minted' = [minted EXCEPT ![m.id] = IF Archived(m) = m THEN @ ELSE @ + 1]
    BY <1>1 DEF Receive
  <2>2. m \in Message /\ MessageBag(inQueue')
    BY <2>1, BagRemoveType DEF StoreTypeOK, MessageBag, BagToSet
  <2>3. Archived(m) \in Message
    BY <2>2, ArchivedType DEF JobTypeOK
  <2> DEFINE k == [worker |-> w, pc |-> "registering", raw |-> m, msg |-> Archived(m),
                   caught |-> "nothing", registered |-> FALSE]
  <2>4. k \in Job
    BY <2>2, <2>3 DEF Job, Steps, Exceptions
  <2>5. jobs' \subseteq Job /\ IsFiniteSet(jobs')
    <3> HIDE DEF k
    <3>1. IsFiniteSet(jobs \cup {k})
      BY FS_AddElement DEF JobTypeOK
    <3>2. jobs' = jobs \cup {k}
      BY <2>1 DEF k
    <3> QED
      BY <2>4, <3>1, <3>2 DEF JobTypeOK
  <2>6. minted' \in [Ids -> Nat]
    BY <2>1, <2>2 DEF JobTypeOK, Message
  <2> QED
    BY <1>1, <1>a, <2>2, <2>5, <2>6 DEF Receive, StoreTypeOK, JobTypeOK
<1>2. ASSUME NEW j \in jobs, Registered(j)
      PROVE  TypeOK'
  <2>1. [j EXCEPT !.pc = "posting", !.registered = TRUE] \in Job
    BY <1>b DEF Job, Steps
  <2>2. jobs' \subseteq Job /\ IsFiniteSet(jobs')
    BY <1>2, <2>1, ReplaceType DEF Registered
  <2> QED
    BY <1>2, <1>a, <1>b, <2>2 DEF Registered, StoreTypeOK, storeVars, JobTypeOK
<1>3. ASSUME NEW j \in jobs, RegisterFails(j)
      PROVE  TypeOK'
  <2>1. jobs' \subseteq Job /\ IsFiniteSet(jobs')
    BY <1>3, HandleErrorType DEF Exceptions, RegisterFails
  <2>2. count' \in [Kinds -> Nat]
    BY <1>3, MishapType DEF RegisterFails, StoreTypeOK, Kinds
  <2> QED
    BY <1>3, <1>a, <1>b, <2>1, <2>2 DEF RegisterFails, StoreTypeOK, JobTypeOK
<1>4. ASSUME NEW j \in jobs, ReplyProcessed(j) \/ ReplyIgnored(j)
      PROVE  TypeOK'
  <2>1. jobs' \subseteq Job /\ IsFiniteSet(jobs')
    BY <1>4, SettleType DEF ReplyProcessed, ReplyIgnored
  <2>2. released' \in [Ids -> SUBSET Reasons]
    BY <1>4, LetGoType DEF ReplyProcessed, ReplyIgnored, StoreTypeOK, Reasons
  <2> QED
    BY <1>4, <1>a, <2>1, <2>2 DEF ReplyProcessed, ReplyIgnored, StoreTypeOK, JobTypeOK
<1>5. ASSUME NEW j \in jobs, ReplyRetryAfter(j) \/ ReplyRetryDate(j)
      PROVE  TypeOK'
  <2>1. [j EXCEPT !.pc = "scheduling"] \in Job /\ [j EXCEPT !.pc = "shelving"] \in Job
    BY <1>b DEF Job, Steps
  <2>2. jobs' \subseteq Job /\ IsFiniteSet(jobs')
    BY <1>5, <2>1, ReplaceType DEF ReplyRetryAfter, ReplyRetryDate
  <2>3. count' \in [Kinds -> Nat]
    BY <1>5, MishapType DEF ReplyRetryAfter, ReplyRetryDate, StoreTypeOK, Kinds
  <2> QED
    BY <1>5, <1>a, <2>2, <2>3 DEF ReplyRetryAfter, ReplyRetryDate, StoreTypeOK, JobTypeOK
<1>6. ASSUME NEW j \in jobs, ReplyFailed(j) \/ ReplyThrown(j)
      PROVE  TypeOK'
  <2>1. jobs' \subseteq Job /\ IsFiniteSet(jobs')
    BY <1>6, HandleErrorType DEF Exceptions, ReplyFailed, ReplyThrown
  <2> QED
    BY <1>6, <1>a, <2>1 DEF ReplyFailed, ReplyThrown, StoreTypeOK, storeVars, JobTypeOK
<1>7. ASSUME NEW j \in jobs, Scheduled(j)
      PROVE  TypeOK'
  <2>1. jobs' \subseteq Job /\ IsFiniteSet(jobs')
    BY <1>7, SettleType DEF Scheduled
  <2>2. schedule' \subseteq ScheduledItem
    BY <1>7, InsertMessageType DEF Scheduled
  <2> QED
    BY <1>7, <1>a, <2>1, <2>2 DEF Scheduled, StoreTypeOK, JobTypeOK
<1>8. ASSUME NEW j \in jobs, Killed(j)
      PROVE  TypeOK'
  <2>1. jobs' \subseteq Job /\ IsFiniteSet(jobs')
    BY <1>8, SettleType DEF Killed
  <2>2. released' \in [Ids -> SUBSET Reasons]
    BY <1>8, LetGoType DEF Killed, DiesAgain, StoreTypeOK, Reasons
  <2> QED
    BY <1>8, <1>a, <1>b, <2>1, <2>2 DEF Killed, StoreTypeOK, JobTypeOK
<1>9. ASSUME NEW j \in jobs, KillDuplicate(j)
      PROVE  TypeOK'
  <2>1. jobs' \subseteq Job /\ IsFiniteSet(jobs')
    BY <1>9, SettleType, HandleErrorType DEF Exceptions, KillDuplicate
  <2>2. released' \in [Ids -> SUBSET Reasons]
    BY <1>9, LetGoType DEF KillDuplicate, DiesAgain, StoreTypeOK, Reasons
  <2> QED
    BY <1>9, <1>a, <2>1, <2>2 DEF KillDuplicate, StoreTypeOK, JobTypeOK
<1>10. ASSUME NEW j \in jobs, InsertFails(j)
       PROVE  TypeOK'
  <2>1. jobs' \subseteq Job /\ IsFiniteSet(jobs')
    BY <1>10, SettleType, HandleErrorType DEF Exceptions, InsertFails, StoreRejects
  <2>2. released' \in [Ids -> SUBSET Reasons]
    BY <1>10, LetGoType DEF InsertFails, StoreRejects, StoreTypeOK, Reasons
  <2>3. count' \in [Kinds -> Nat]
    BY <1>10, MishapType DEF InsertFails, StoreTypeOK, Kinds
  <2>4. schedule' \subseteq ScheduledItem /\ dead' \subseteq Message
    BY <1>10, <1>b, InsertMessageType DEF InsertFails, StoreTypeOK
  <2> QED
    BY <1>10, <1>a, <2>1, <2>2, <2>3, <2>4 DEF InsertFails, StoreTypeOK, JobTypeOK
<1>11. ASSUME NEW j \in jobs, Unregistered(j)
       PROVE  TypeOK'
  <2>1. [j EXCEPT !.pc = "acking"] \in Job
    BY <1>b DEF Job, Steps
  <2>2. jobs' \subseteq Job /\ IsFiniteSet(jobs')
    BY <1>11, <2>1, ReplaceType DEF Unregistered
  <2>3. count' \in [Kinds -> Nat]
    BY <1>11, MishapType DEF Unregistered, StoreTypeOK, Kinds
  <2> QED
    BY <1>11, <1>a, <2>2, <2>3 DEF Unregistered, StoreTypeOK, JobTypeOK
<1>12. ASSUME NEW j \in jobs, Acked(j)
       PROVE  TypeOK'
  <2>1. jobs' \subseteq Job /\ IsFiniteSet(jobs')
    BY <1>12, FS_RemoveElement DEF Acked, JobTypeOK
  <2> QED
    BY <1>12, <1>a, <2>1 DEF Acked, StoreTypeOK, storeVars, JobTypeOK
<1> QED
  BY <1>1, <1>2, <1>3, <1>4, <1>5, <1>6, <1>7, <1>8, <1>9, <1>10, <1>11, <1>12
     DEF JobStep, JobProceeds

LEMMA TypeStep == ASSUME TypeOK, [Next]_vars PROVE TypeOK'
<1>1. CASE UNCHANGED vars
  BY <1>1 DEF TypeOK, vars, storeVars, runVars, revivalVars, jobVars,
              StoreTypeOK, LockTypeOK, RunTypeOK, RevivalTypeOK, JobTypeOK
<1> QED
  BY <1>1, TypeStoreStep, TypeRunStep, TypeDeadStep, TypeJobStep DEF Next

(* Every variable keeps its type in every reachable state, however many    *)
(* hub processes, messages and mishaps there are.                          *)
THEOREM TypeCorrect == Spec => []TypeOK
  BY TypeInit, TypeStep, PTL DEF Spec

-----------------------------------------------------------------------------
(* Mutual exclusion of the pollers.                                        *)

\* No step makes a mishap unhappen.
LEMMA MishapsGrow ==
    ASSUME TypeOK, [Next]_vars
    PROVE  \A k \in Kinds : count'[k] >= count[k]
<1>1. UNCHANGED count \/ \E k \in Kinds : Mishap(k)
  <2>1. CASE StoreStep
    BY <2>1 DEF StoreStep, Publish, Flush, Restart, BecomeDue, ApiDelete, Crash, Kinds
  <2>2. CASE RunStep
    BY <2>2 DEF RunStep, RunProceeds, AcquireLock, ReadDue, FindOne, EnqueueNext, DeleteSent,
                FinishPoll, UnlockFails, FinishRequest, RunFails, LeaseExpires, Quiet, storeVars, Kinds
  <2>3. CASE JobStep
    <3>1. ASSUME NEW w \in Workers, Receive(w)
          PROVE  UNCHANGED count
      BY <3>1 DEF Receive
    <3>2. ASSUME NEW j \in jobs, JobProceeds(j)
          PROVE  UNCHANGED count \/ \E k \in Kinds : Mishap(k)
      BY <3>2 DEF JobProceeds, Registered, ReplyProcessed, ReplyIgnored, ReplyRetryAfter,
                  ReplyRetryDate, ReplyFailed, ReplyThrown, Scheduled, Killed, KillDuplicate,
                  Unregistered, Acked, storeVars, Kinds
    <3>3. ASSUME NEW j \in jobs, RegisterFails(j) \/ InsertFails(j)
          PROVE  \E k \in Kinds : Mishap(k)
      BY <3>3 DEF RegisterFails, InsertFails, Kinds
    <3> QED
      BY <2>3, <3>1, <3>2, <3>3 DEF JobStep
  <2>4. CASE DeadStep
    BY <2>4 DEF DeadStep, RevivalProceeds, FindDead, FindAllDead, ReadPage, EnqueueDead, DeleteDead,
                RevivalFails, ApiDeleteDead, ApiDeleteAllDead, storeVars, Kinds
  <2>5. CASE UNCHANGED vars
    BY <2>5 DEF vars, storeVars
  <2> QED
    BY <2>1, <2>2, <2>3, <2>4, <2>5 DEF Next
<1>2. count \in [Kinds -> Nat]
  BY DEF TypeOK, StoreTypeOK
<1>3. ASSUME NEW k \in Kinds, Mishap(k), NEW n \in Kinds
      PROVE  count'[n] >= count[n]
  BY <1>2, <1>3, MishapType
<1> QED
  BY <1>1, <1>2, <1>3

LEMMA MutexStep ==
    ASSUME TypeOK, MutexInv, [Next]_vars
    PROVE  MutexInv'
<1> USE DEF PollMutex
<1>a. /\ \A p \in Pollers : runPc[p] # "idle" => (lock = p <=> p \notin lapsed)
      /\ \A p \in lapsed : runPc[p] # "idle"
      /\ count["expiry"] = 0 => lapsed = {}
  BY DEF MutexInv
<1>b. /\ lapsed \subseteq Pollers /\ Pollers \subseteq Runs /\ DOMAIN runPc = Runs
      /\ Free \notin Pollers /\ Pollers \cap Requests = {}
  BY FreeAssumption, RunsAssumption DEF Runs, TypeOK, RunTypeOK
<1>c. count'["expiry"] = 0 => count["expiry"] = 0
  <2>1. "expiry" \in Kinds /\ count \in [Kinds -> Nat] /\ count' \in [Kinds -> Nat]
    BY TypeStep DEF Kinds, TypeOK, StoreTypeOK
  <2> QED
    BY <2>1, MishapsGrow
<1>d. ASSUME UNCHANGED <<lock, lapsed>>, \A p \in Pollers : runPc'[p] = "idle" <=> runPc[p] = "idle"
      PROVE  MutexInv'
  BY <1>a, <1>b, <1>c, <1>d DEF MutexInv
\* The runs rs end; the lock stays where it is, or is given back by one of them.
<1>e. ASSUME NEW rs, RunEnds(rs), lock' = lock \/ (lock \in rs /\ lock' = Free)
      PROVE  MutexInv'
  BY <1>a, <1>b, <1>c, <1>e DEF MutexInv, RunEnds
<1>1. CASE StoreStep
  <2>1. ASSUME NEW h \in Hubs, Crash(h)
        PROVE  MutexInv'
    BY <2>1, <1>e DEF Crash
  <2> QED
    BY <1>1, <1>d, <2>1 DEF StoreStep, runVars
<1>2. CASE RunStep
  <2>1. ASSUME NEW p \in Pollers, AcquireLock(p)
        PROVE  MutexInv'
    BY <2>1, <1>a, <1>b, <1>c DEF AcquireLock, TryAcquire, MutexInv
  <2>2. ASSUME NEW q \in Requests, FindOne(q)
        PROVE  MutexInv'
    BY <2>2, <1>b, <1>d DEF FindOne
  <2>3. ASSUME NEW r \in Runs, EnqueueNext(r) \/ DeleteSent(r) \/ ReadDue(r)
        PROVE  MutexInv'
    BY <2>3, <1>b, <1>d DEF EnqueueNext, DeleteSent, ReadDue
  <2>4. ASSUME NEW r \in Runs, FinishPoll(r) \/ UnlockFails(r) \/ FinishRequest(r) \/ RunFails(r)
        PROVE  MutexInv'
    BY <2>4, <1>e DEF FinishPoll, UnlockFails, FinishRequest, RunFails, ReleaseLock
  <2>5. ASSUME LeaseExpires
        PROVE  MutexInv'
    <3>1. lock \in Pollers /\ lock' = Free /\ UNCHANGED runPc
      BY <2>5 DEF LeaseExpires, LeaseEnds, TypeOK, LockTypeOK
    <3>2. CASE runPc[lock] = "idle"
      BY <2>5, <3>1, <3>2, <1>a, <1>b, <1>c DEF LeaseExpires, MutexInv
    <3>3. CASE runPc[lock] # "idle"
      <4>1. lapsed' = lapsed \cup {lock} /\ count'["expiry"] # 0
        BY <2>5, <3>3, MishapType DEF LeaseExpires, TypeOK, StoreTypeOK, Kinds
      <4> QED
        BY <3>1, <3>3, <4>1, <1>a, <1>b DEF MutexInv
    <3> QED
      BY <3>2, <3>3
  <2> QED
    BY <1>2, <1>b, <2>1, <2>2, <2>3, <2>4, <2>5 DEF RunStep, RunProceeds
<1>3. CASE JobStep \/ DeadStep \/ UNCHANGED vars
  BY <1>3, <1>d DEF JobStep, DeadStep, vars, runVars
<1> QED
  BY <1>1, <1>2, <1>3 DEF Next

\* The inductive invariant behind the next theorem.
LEMMA MutexInvHolds == Spec => []MutexInv
<1>1. Init => MutexInv
  BY DEF Init, RunInit, PollMutex, MutexInv, Runs
<1> QED
  BY <1>1, MutexStep, TypeCorrect, PTL DEF Spec

(* However many hub processes poll one schedule, and however often they    *)
(* fail, die or outlive their locks: a poller at work without the lock is  *)
(* one under whose present run the lock has run out (scheduler.js:71-82).  *)
THEOREM PollMutexHolds == Spec => []PollMutex
<1>1. MutexInv => PollMutex
  BY DEF MutexInv
<1> QED
  BY <1>1, MutexInvHolds, PTL

-----------------------------------------------------------------------------
(* The processing hash.                                                    *)

\* A job that settles keeps its message and is to unregister if it has registered.
LEMMA SettleEffect ==
    ASSUME TypeOK, NEW j \in jobs, Settle(j)
    PROVE  \E k \in Job : /\ Replace(j, k)
                          /\ k.pc \in {"unregistering", "acking"}
                          /\ k.pc = "acking" => ~j.registered
                          /\ k.msg = j.msg /\ k.raw = j.raw /\ k.registered = j.registered
<1> DEFINE k == [j EXCEPT !.pc = IF j.registered THEN "unregistering" ELSE "acking"]
<1>1. j \in Job
  BY DEF TypeOK, JobTypeOK
<1>2. k \in Job /\ k.msg = j.msg /\ k.raw = j.raw /\ k.registered = j.registered
  BY <1>1 DEF Job, Steps
<1>3. k.pc \in {"unregistering", "acking"} /\ (k.pc = "acking" => ~j.registered)
  BY <1>1 DEF Job
<1>4. Replace(j, k)
  BY DEF Settle
<1> HIDE DEF k
<1> QED
  BY <1>2, <1>3, <1>4

\* A failed delivery counts one attempt and goes on to the schedule or the dead letters.
LEMMA HandleErrorEffect ==
    ASSUME TypeOK, NEW j \in jobs, NEW c \in Exceptions, HandleError(j, c)
    PROVE  \E k \in Job : /\ Replace(j, k)
                          /\ k.pc = IF k.msg.attempts >= MaxAttempts[k.msg.id]
                                    THEN "killing" ELSE "scheduling"
                          /\ k.caught = c /\ k.raw = j.raw /\ k.registered = j.registered
                          /\ k.msg.id = j.msg.id /\ k.msg.key = j.msg.key /\ k.msg.hex = j.msg.hex
                          /\ k.msg.attempts = j.msg.attempts + 1
<1> DEFINE failed == [j.msg EXCEPT !.attempts = @ + 1]
           pc == IF failed.attempts >= MaxAttempts[failed.id] THEN "killing" ELSE "scheduling"
           k == [j EXCEPT !.msg = failed, !.caught = c, !.pc = pc]
<1>1. j \in Job /\ failed \in Message /\ pc \in Steps
  BY DEF TypeOK, JobTypeOK, Job, Message, Steps
<1>2. /\ failed.id = j.msg.id /\ failed.key = j.msg.key /\ failed.hex = j.msg.hex
      /\ failed.attempts = j.msg.attempts + 1
  BY DEF TypeOK, JobTypeOK, Job, Message
<1>3. Replace(j, k)
  BY DEF HandleError
<1>4. /\ k \in Job /\ k.msg = failed /\ k.pc = pc /\ k.caught = c
      /\ k.raw = j.raw /\ k.registered = j.registered
  <2> HIDE DEF failed, pc
  <2> QED BY <1>1 DEF Job
<1>5. k.pc = IF k.msg.attempts >= MaxAttempts[k.msg.id] THEN "killing" ELSE "scheduling"
  BY <1>4
<1> HIDE DEF k, failed, pc
<1> QED
  BY <1>2, <1>3, <1>4, <1>5

\* What NoLeftovers says of one field of the hash.
Listed(id) == \E j \in jobs : j.msg.id = id /\ j.registered /\ j.pc # "acking"

LEMMA ReplaceListed ==
    ASSUME NEW j \in jobs, NEW k, Replace(j, k), k.msg.id = j.msg.id,
           k.registered = j.registered, k.pc = "acking" => ~j.registered,
           NEW id, Listed(id)
    PROVE  Listed(id)'
<1>1. PICK i \in jobs : i.msg.id = id /\ i.registered /\ i.pc # "acking"
  BY DEF Listed
<1>2. CASE i = j
  BY <1>1, <1>2 DEF Listed, Replace
<1>3. CASE i # j
  BY <1>1, <1>3 DEF Listed, Replace
<1> QED
  BY <1>2, <1>3

LEMMA LeftoversStep ==
    ASSUME TypeOK, NoLeftovers, [Next]_vars
    PROVE  NoLeftovers'
<1> SUFFICES ASSUME count'["crash"] = 0, count'["redis"] = 0, NEW id \in processing'
             PROVE  Listed(id)'
  BY DEF NoLeftovers, Listed
<1>a. /\ count \in [Kinds -> Nat] /\ count["crash"] = 0 /\ count["redis"] = 0
      /\ ~Mishap("crash") /\ ~Mishap("redis")
  <2>1. {"crash", "redis"} \subseteq Kinds /\ count \in [Kinds -> Nat] /\ count' \in [Kinds -> Nat]
    BY TypeStep DEF Kinds, TypeOK, StoreTypeOK
  <2> QED
    BY <2>1, MishapsGrow, MishapType
<1>b. \A i \in processing : Listed(i)
  BY <1>a DEF NoLeftovers, Listed
<1>c. \A j \in jobs : j \in Job
  BY DEF TypeOK, JobTypeOK
<1>1. CASE StoreStep \/ RunStep \/ DeadStep \/ UNCHANGED vars
  BY <1>1, <1>a, <1>b DEF StoreStep, RunStep, DeadStep, Crash, vars, jobVars, Listed
<1>2. ASSUME NEW w \in Workers, Receive(w)
      PROVE  Listed(id)'
  BY <1>2, <1>b DEF Receive, Listed
<1>3. ASSUME NEW j \in jobs, Registered(j)
      PROVE  Listed(id)'
  <2> DEFINE k == [j EXCEPT !.pc = "posting", !.registered = TRUE]
  <2>1. k.msg = j.msg /\ k.registered /\ k.pc = "posting"
    BY <1>c DEF Job
  <2>2. Replace(j, k) /\ processing' = processing \cup {j.msg.id} /\ j.pc = "registering"
    BY <1>3 DEF Registered
  <2> HIDE DEF k
  <2>3. CASE id = j.msg.id
    BY <2>1, <2>2, <2>3 DEF Listed, Replace
  <2>4. CASE id # j.msg.id
    BY <2>2, <2>4, <1>b DEF Listed, Replace
  <2> QED
    BY <2>3, <2>4
<1>4. ASSUME NEW j \in jobs, RegisterFails(j)
      PROVE  Listed(id)'
  BY <1>4, <1>a DEF RegisterFails
<1>5. ASSUME NEW j \in jobs, Settle(j), processing' = processing
      PROVE  Listed(id)'
  <2>1. PICK k \in Job : /\ Replace(j, k)
                         /\ k.pc = "acking" => ~j.registered
                         /\ k.msg = j.msg /\ k.registered = j.registered
    BY <1>5, SettleEffect
  <2> QED
    BY <2>1, <1>5, <1>b, ReplaceListed
<1>6. ASSUME NEW j \in jobs, NEW c \in Exceptions, HandleError(j, c), processing' = processing
      PROVE  Listed(id)'
  <2>1. PICK k \in Job : /\ Replace(j, k) /\ k.pc # "acking"
                         /\ k.msg.id = j.msg.id /\ k.registered = j.registered
    BY <1>6, HandleErrorEffect
  <2> QED
    BY <2>1, <1>6, <1>b, ReplaceListed
<1>7. ASSUME NEW j \in jobs, ReplyRetryAfter(j) \/ ReplyRetryDate(j)
      PROVE  Listed(id)'
  <2>1. ASSUME NEW pc \in {"scheduling", "shelving"}, Replace(j, [j EXCEPT !.pc = pc]),
               processing' = processing
        PROVE  Listed(id)'
    <3> DEFINE k == [j EXCEPT !.pc = pc]
    <3>1. k.msg = j.msg /\ k.registered = j.registered /\ k.pc # "acking"
      BY <1>c DEF Job
    <3>2. Replace(j, k)
      BY <2>1
    <3> HIDE DEF k
    <3> QED
      BY <2>1, <3>1, <3>2, <1>b, ReplaceListed
  <2> QED
    BY <1>7, <2>1 DEF ReplyRetryAfter, ReplyRetryDate
<1>8. ASSUME NEW j \in jobs, Unregistered(j)
      PROVE  Listed(id)'
  <2>1. processing' = processing \ {j.msg.id} /\ jobs \ {j} \subseteq jobs'
    BY <1>8, <1>a DEF Unregistered, Replace
  <2> QED
    BY <2>1, <1>b DEF Listed
<1>9. ASSUME NEW j \in jobs, Acked(j)
      PROVE  Listed(id)'
  BY <1>9, <1>b DEF Acked, Listed
<1>10. CASE JobStep
  <2>1. ASSUME NEW j \in jobs, ReplyProcessed(j) \/ ReplyIgnored(j) \/ Scheduled(j) \/ Killed(j)
        PROVE  Listed(id)'
    BY <2>1, <1>5 DEF ReplyProcessed, ReplyIgnored, Scheduled, Killed
  <2>2. ASSUME NEW j \in jobs, ReplyFailed(j) \/ ReplyThrown(j)
        PROVE  Listed(id)'
    BY <2>2, <1>6 DEF ReplyFailed, ReplyThrown, Exceptions
  <2>3. ASSUME NEW j \in jobs, KillDuplicate(j) \/ InsertFails(j)
        PROVE  Listed(id)'
    BY <2>3, <1>5, <1>6 DEF KillDuplicate, InsertFails, StoreRejects, Exceptions
  <2> QED
    BY <1>10, <1>2, <1>3, <1>4, <1>7, <1>8, <1>9, <2>1, <2>2, <2>3 DEF JobStep, JobProceeds
<1> QED
  BY <1>1, <1>10 DEF Next

(* Without a crash or a rejected Redis command, no field of the processing *)
(* hash outlives the deliveries of its message (delivery.js:81-84).        *)
THEOREM NoLeftoversHolds == Spec => []NoLeftovers
<1>1. Init => NoLeftovers
  BY DEF Init, JobInit, NoLeftovers
<1>2. TypeOK /\ NoLeftovers /\ [Next]_vars => NoLeftovers'
  BY LeftoversStep
<1> QED
  BY <1>1, <1>2, TypeCorrect, PTL DEF Spec

-----------------------------------------------------------------------------
(* The retry budget.                                                       *)

\* What has once come between an insert and the next has come between them for good.
LEMMA InsertedAtOnceBefore ==
    ASSUME TypeOK, [Next]_vars, InsertedAtOnce'
    PROVE  InsertedAtOnce
<1>1. count \in [Kinds -> Nat] /\ count' \in [Kinds -> Nat]
  BY TypeStep DEF TypeOK, StoreTypeOK
<1>2. \A k \in {"store", "reenqueue", "deadDelete"} : k \in Kinds
  BY DEF Kinds
<1> QED
  BY <1>1, <1>2, MishapsGrow DEF InsertedAtOnce

\* While every insert is the first, dead letters stay, and so does what is true of a job.
LEMMA BudgetsStay ==
    ASSUME TypeOK, [Next]_vars, InsertedAtOnce' => dead \subseteq dead'
    PROVE  /\ \A j \in jobs : JobBudget(j) => JobBudget(j)'
           /\ \A m \in dead : Exhausted(m) => Exhausted(m)'
<1>1. InsertedAtOnce' => InsertedAtOnce
  BY InsertedAtOnceBefore
<1>2. \A j \in jobs : InsertedAtOnce' /\ KeyTaken(j.msg) => KeyTaken(j.msg)'
  BY DEF KeyTaken
<1> QED
  BY <1>1, <1>2 DEF JobBudget, Exhausted, Retryable

\* A revival at work has been counted when it began.
LEMMA RevivalsCountedStep ==
    ASSUME TypeOK, RevivalsCounted, [Next]_vars
    PROVE  RevivalsCounted'
<1>a. "reenqueue" \in Kinds /\ count \in [Kinds -> Nat] /\ count' \in [Kinds -> Nat]
      /\ count'["reenqueue"] >= count["reenqueue"]
  BY TypeStep, MishapsGrow DEF TypeOK, StoreTypeOK, Kinds
<1>b. /\ DOMAIN revivalPc = Revivals /\ DOMAIN found = Revivals /\ DOMAIN revived = Revivals
  BY DEF TypeOK, RevivalTypeOK
<1>c. ASSUME count["reenqueue"] > 0
      PROVE  RevivalsCounted'
  BY <1>a, <1>c DEF RevivalsCounted
<1>d. ASSUME UNCHANGED revivalVars
      PROVE  RevivalsCounted'
  BY <1>a, <1>d DEF RevivalsCounted, revivalVars
<1>1. CASE StoreStep
  <2>1. ASSUME NEW h \in Hubs, Crash(h)
        PROVE  RevivalsCounted'
    BY <1>a, <2>1 DEF Crash, RevivalsEnd, RevivalsCounted
  <2> QED
    BY <1>1, <1>d, <2>1 DEF StoreStep
<1>2. CASE RunStep \/ JobStep \/ UNCHANGED vars
  BY <1>2, <1>d DEF RunStep, JobStep, vars
<1>3. CASE DeadStep
  <2>1. ASSUME NEW q \in Revivals, FindDead(q) \/ FindAllDead(q)
        PROVE  RevivalsCounted'
    <3>1. count'["reenqueue"] = count["reenqueue"] + 1
      BY <2>1, <1>a, MishapType DEF FindDead, FindAllDead
    <3> QED
      BY <1>a, <3>1 DEF RevivalsCounted
  <2>2. ASSUME NEW q \in Revivals, RevivalProceeds(q) \/ RevivalFails(q)
        PROVE  count["reenqueue"] > 0
    BY <2>2 DEF RevivalProceeds, ReadPage, EnqueueDead, DeleteDead, RevivalFails, RevivalsCounted
  <2> QED
    BY <1>3, <1>c, <1>d, <2>1, <2>2 DEF DeadStep
<1> QED
  BY <1>1, <1>2, <1>3 DEF Next

LEMMA ReplaceBudget ==
    ASSUME NEW j, NEW k, Replace(j, k), \A i \in jobs : JobBudget(i)', JobBudget(k)'
    PROVE  (\A i \in jobs : JobBudget(i))'
  BY DEF Replace

LEMMA SettleBudget ==
    ASSUME TypeOK, NEW j \in jobs, Settle(j), \A i \in jobs : JobBudget(i)'
    PROVE  (\A i \in jobs : JobBudget(i))'
<1>1. PICK k \in Job : /\ Replace(j, k) /\ k.pc \in {"unregistering", "acking"}
                       /\ k.raw = j.raw
  BY SettleEffect
<1>2. JobBudget(k)'
  BY <1>1 DEF JobBudget, Retryable
<1> QED
  BY <1>1, <1>2, ReplaceBudget

(* A job may fail once before its message is to be killed; once more only  *)
(* out of the try block, when the dead letters have refused the message.   *)
LEMMA HandleErrorBudget ==
    ASSUME TypeOK, [Next]_vars, InsertedAtOnce' => dead \subseteq dead',
           NEW j \in jobs, NEW c \in Exceptions, HandleError(j, c),
           \A i \in jobs : JobBudget(i)',
           \/ j.pc \in {"registering", "posting", "scheduling", "shelving"}
           \/ /\ j.pc = "killing" /\ j.caught = "nothing" /\ c # "nothing"
              /\ ~InsertedAtOnce' \/ KeyTaken(j.msg)
    PROVE  (\A i \in jobs : JobBudget(i))'
<1>1. PICK k \in Job : /\ Replace(j, k)
                       /\ k.pc = IF k.msg.attempts >= MaxAttempts[k.msg.id]
                                 THEN "killing" ELSE "scheduling"
                       /\ k.caught = c /\ k.raw = j.raw
                       /\ k.msg.id = j.msg.id /\ k.msg.key = j.msg.key /\ k.msg.hex = j.msg.hex
                       /\ k.msg.attempts = j.msg.attempts + 1
  BY HandleErrorEffect
<1>2. /\ j.msg.attempts \in Nat /\ MaxAttempts[j.msg.id] \in Nat
      /\ j.pc \in Steps
  BY MaxAttemptsAssumption DEF TypeOK, JobTypeOK, Job, Message
<1>3. InsertedAtOnce' /\ KeyTaken(j.msg) => KeyTaken(k.msg)'
  BY <1>1 DEF KeyTaken, SameKey
<1>4. JobBudget(k)'
  <2>1. CASE j.pc \in {"registering", "posting", "scheduling", "shelving"}
    BY <1>1, <1>2, <2>1 DEF JobBudget, Retryable
  <2>2. CASE j.pc = "killing"
    BY <1>1, <1>2, <1>3, <2>2 DEF JobBudget, Retryable
  <2> QED
    BY <2>1, <2>2
<1> QED
  BY <1>1, <1>4, ReplaceBudget

\* An enqueued message that may be retried keeps the channels within the budget.
LEMMA EnqueueBudget ==
    ASSUME TypeOK, NEW h \in Hubs, NEW m \in Message, Retryable(m), Enqueue(h, m),
           \A g \in Hubs : \A n \in BagToSet(outbox[g]) : Retryable(n)
    PROVE  \A g \in Hubs : \A n \in BagToSet(outbox'[g]) : Retryable(n)
<1>1. Retryable(Json(m))
  BY JsonKeeps DEF Retryable
<1>2. BagToSet(outbox'[h]) = BagToSet(outbox[h]) \cup {Json(m)}
  BY BagAddElements DEF Enqueue, TypeOK, StoreTypeOK
<1>3. \A g \in Hubs : g # h => outbox'[g] = outbox[g]
  BY DEF Enqueue, TypeOK, StoreTypeOK
<1> QED
  BY <1>1, <1>2, <1>3

LEMMA BudgetStoreStep ==
    ASSUME TypeOK, BudgetInv, StoreStep
    PROVE  BudgetInv'
<1> USE DEF BudgetInv, RetryBudget
<1>n. [Next]_vars
  BY DEF Next
<1>r. RevivalsCounted'
  BY <1>n, RevivalsCountedStep
<1>a. dead' = dead
  BY DEF StoreStep, Publish, Flush, Restart, BecomeDue, ApiDelete, Crash
<1>b. (\A j \in jobs : JobBudget(j)') /\ (\A m \in dead' : Exhausted(m)')
  BY <1>n, <1>a, BudgetsStay
<1>1. ASSUME UNCHANGED <<lock, runVars, revivalVars, jobVars>>,
             \/ \E h \in Hubs, id \in Ids : Publish(h, id)
             \/ \E h \in Hubs : Flush(h)
             \/ \E h \in Hubs : Restart(h)
             \/ \E s \in schedule : BecomeDue(s)
             \/ \E s \in schedule : ApiDelete(s)
      PROVE  BudgetInv'
  <2>1. (\A j \in jobs : JobBudget(j))' /\ (\A r \in Runs : RunBudget(r))'
    BY <1>1, <1>b DEF runVars, jobVars, RunBudget
  <2>2. ASSUME NEW h \in Hubs, NEW id \in Ids, Publish(h, id)
        PROVE  BudgetInv'
    <3>1. NewMessage(id) \in Message /\ Retryable(NewMessage(id))
      BY MaxAttemptsAssumption DEF NewMessage, Message, Retryable
    <3>2. \A g \in Hubs : \A n \in BagToSet(outbox'[g]) : Retryable(n)
      BY <2>2, <3>1, EnqueueBudget DEF Publish
    <3> QED
      BY <1>b, <1>r, <2>1, <2>2, <3>2 DEF Publish, Retryable
  <2>3. ASSUME NEW h \in Hubs, Flush(h)
        PROVE  BudgetInv'
    <3>1. PICK m \in BagToSet(outbox[h]) :
              /\ outbox' = [outbox EXCEPT ![h] = @ (-) SetToBag({m})]
              /\ inQueue' = inQueue (+) SetToBag({m})
      BY <2>3 DEF Flush
    <3>2. BagToSet(inQueue') = BagToSet(inQueue) \cup {m}
      BY <3>1, BagAddElements
    <3>3. \A g \in Hubs : BagToSet(outbox'[g]) \subseteq BagToSet(outbox[g])
      BY <3>1, BagRemoveElements DEF TypeOK, StoreTypeOK
    <3> QED
      BY <1>b, <1>r, <2>1, <2>3, <3>2, <3>3 DEF Flush, Retryable
  <2>4. ASSUME NEW s \in schedule, BecomeDue(s)
        PROVE  BudgetInv'
    <3>1. [s EXCEPT !.due = "due"].msg = s.msg
      BY DEF TypeOK, StoreTypeOK, ScheduledItem
    <3> QED
      BY <1>b, <1>r, <2>1, <2>4, <3>1 DEF BecomeDue, Retryable
  <2>5. ASSUME NEW s \in schedule, ApiDelete(s)
        PROVE  BudgetInv'
    BY <1>b, <1>r, <2>1, <2>5 DEF ApiDelete, Retryable
  <2>6. ASSUME NEW h \in Hubs, Restart(h)
        PROVE  BudgetInv'
    BY <1>b, <1>r, <2>1, <2>6 DEF Restart, Retryable
  <2> QED
    BY <1>1, <2>2, <2>3, <2>4, <2>5, <2>6
<1>2. ASSUME NEW h \in Hubs, Crash(h)
      PROVE  BudgetInv'
  <2> DEFINE lost == {j \in jobs : WorksOn[j.worker] = h}
             requeued == [m \in {j.raw : j \in lost} |-> Cardinality({j \in lost : j.raw = m})]
  <2>1. lost \in SUBSET Job /\ IsFiniteSet(lost)
    BY FS_Subset DEF TypeOK, JobTypeOK
  <2>2. BagToSet(inQueue (+) requeued) = BagToSet(inQueue) \cup {j.raw : j \in lost}
    <3> HIDE DEF lost
    <3>1. BagToSet(requeued) = {j.raw : j \in lost}
      BY <2>1, RequeuedType
    <3> HIDE DEF requeued
    <3> QED BY <3>1, BagCupElements
  <2>3. inQueue' = inQueue (+) requeued /\ jobs' \subseteq jobs /\ lost \subseteq jobs
    BY <1>2 DEF Crash
  <2> HIDE DEF requeued, lost
  <2>4. \A m \in BagToSet(inQueue') : Retryable(m)
    BY <2>2, <2>3 DEF JobBudget
  <2>5. \A g \in Hubs : BagToSet(outbox'[g]) \subseteq BagToSet(outbox[g])
    BY <1>2, EmptyBagType DEF Crash, TypeOK, StoreTypeOK
  <2>6. (\A r \in Runs : RunBudget(r))'
    BY <1>2 DEF Crash, RunEnds, RunBudget
  <2> QED
    BY <1>2, <1>b, <1>r, <2>3, <2>4, <2>5, <2>6 DEF Crash, Retryable
<1> QED
  BY <1>1, <1>2 DEF StoreStep

LEMMA BudgetRunStep ==
    ASSUME TypeOK, BudgetInv, RunStep
    PROVE  BudgetInv'
<1> USE DEF BudgetInv, RetryBudget
<1>n. [Next]_vars
  BY DEF Next
<1>r. RevivalsCounted'
  BY <1>n, RevivalsCountedStep
<1>a. dead' = dead /\ inQueue' = inQueue /\ jobs' = jobs
  BY DEF RunStep, RunProceeds, AcquireLock, ReadDue, FindOne, EnqueueNext, DeleteSent, FinishPoll,
         UnlockFails, FinishRequest, RunFails, LeaseExpires, storeVars, jobVars
<1>b. (\A j \in jobs' : JobBudget(j)') /\ (\A m \in dead' : Exhausted(m)')
  BY <1>n, <1>a, BudgetsStay
<1>c. schedule' \subseteq schedule
  BY DEF RunStep, RunProceeds, AcquireLock, ReadDue, FindOne, EnqueueNext, DeleteSent, FinishPoll,
         UnlockFails, FinishRequest, RunFails, LeaseExpires, storeVars
<1>d. ASSUME outbox' = outbox, (\A r \in Runs : RunBudget(r))'
      PROVE  BudgetInv'
  BY <1>a, <1>b, <1>c, <1>d, <1>r DEF Retryable
<1>1. ASSUME NEW p \in Pollers, AcquireLock(p)
      PROVE  BudgetInv'
  BY <1>1, <1>d DEF AcquireLock, storeVars, RunBudget
<1>2. ASSUME NEW p \in Pollers, ReadDue(p)
      PROVE  BudgetInv'
  <2>1. \A r \in Runs : \A s \in todo'[r] : s \in todo[r] \/ s \in schedule
    BY <1>2 DEF ReadDue, Due, TypeOK, RunTypeOK
  <2> QED
    BY <1>2, <1>d, <2>1 DEF ReadDue, storeVars, RunBudget, Retryable
<1>3. ASSUME NEW q \in Requests, FindOne(q)
      PROVE  BudgetInv'
  <2>1. \A r \in Runs : \A s \in todo'[r] : s \in todo[r] \/ s \in schedule
    BY <1>3 DEF FindOne, TypeOK, RunTypeOK
  <2> QED
    BY <1>3, <1>d, <2>1 DEF FindOne, RunBudget, Retryable
<1>4. ASSUME NEW r \in Runs, EnqueueNext(r)
      PROVE  BudgetInv'
  <2>1. PICK s \in todo[r] : /\ Enqueue(RunsOn[r], s.msg)
                              /\ todo' = [todo EXCEPT ![r] = @ \ {s}]
    BY <1>4 DEF EnqueueNext
  <2>2. s.msg \in Message /\ Retryable(s.msg)
    BY DEF TypeOK, RunTypeOK, ScheduledItem, RunBudget
  <2>3. \A g \in Hubs : \A n \in BagToSet(outbox'[g]) : Retryable(n)
    BY <2>1, <2>2, EnqueueBudget, RunsOnHubs
  <2>4. (\A t \in Runs : RunBudget(t))'
    BY <2>1 DEF RunBudget, TypeOK, RunTypeOK
  <2> QED
    BY <1>a, <1>b, <1>c, <1>r, <2>3, <2>4 DEF Retryable
<1>5. ASSUME NEW r \in Runs, DeleteSent(r)
      PROVE  BudgetInv'
  BY <1>5, <1>d DEF DeleteSent, RunBudget
<1>6. ASSUME NEW r \in Runs, FinishPoll(r) \/ UnlockFails(r) \/ FinishRequest(r) \/ RunFails(r)
      PROVE  BudgetInv'
  BY <1>6, <1>d DEF FinishPoll, UnlockFails, FinishRequest, RunFails, RunEnds, storeVars, RunBudget
<1>7. ASSUME LeaseExpires
      PROVE  BudgetInv'
  BY <1>7, <1>d DEF LeaseExpires, runVars, RunBudget
<1>8. Pollers \subseteq Runs /\ Requests \subseteq Runs
  BY DEF Runs
<1> QED
  BY <1>1, <1>2, <1>3, <1>4, <1>5, <1>6, <1>7, <1>8 DEF RunStep, RunProceeds

LEMMA BudgetDeadStep ==
    ASSUME TypeOK, BudgetInv, DeadStep
    PROVE  BudgetInv'
<1> USE DEF BudgetInv, RetryBudget
<1>n. [Next]_vars
  BY DEF Next
<1>r. RevivalsCounted'
  BY <1>n, RevivalsCountedStep
<1>k. /\ count \in [Kinds -> Nat] /\ count' \in [Kinds -> Nat]
      /\ {"store", "reenqueue", "deadDelete"} \subseteq Kinds
  BY <1>n, TypeStep DEF TypeOK, StoreTypeOK, Kinds
\* Nothing but a counted mishap deletes a dead letter.
<1>a. dead' \subseteq dead /\ (InsertedAtOnce' => dead' = dead)
  <2>1. ASSUME NEW q \in Revivals, FindDead(q) \/ FindAllDead(q) \/ ReadPage(q) \/ EnqueueDead(q)
        PROVE  dead' = dead
    BY <2>1 DEF FindDead, FindAllDead, ReadPage, EnqueueDead, storeVars
  <2>2. ASSUME NEW q \in Revivals, DeleteDead(q)
        PROVE  dead' \subseteq dead /\ ~InsertedAtOnce'
    <3>1. count'["reenqueue"] > 0
      BY <2>2, <1>k DEF DeleteDead, RevivalsCounted
    <3> QED
      BY <2>2, <3>1, <1>k, DeleteRevivedShrinks DEF DeleteDead, InsertedAtOnce
  <2>3. ASSUME NEW q \in Revivals, RevivalFails(q)
        PROVE  dead' \subseteq dead /\ ~InsertedAtOnce'
    <3>1. count'["store"] = count["store"] + 1
      BY <2>3, <1>k, MishapType DEF RevivalFails
    <3> QED
      BY <2>3, <3>1, <1>k, DeleteRevivedShrinks DEF RevivalFails, InsertedAtOnce
  <2>4. ASSUME (\E m \in dead : ApiDeleteDead(m)) \/ ApiDeleteAllDead
        PROVE  dead' \subseteq dead /\ ~InsertedAtOnce'
    <3>1. count'["deadDelete"] = count["deadDelete"] + 1
      BY <2>4, <1>k, MishapType DEF ApiDeleteDead, ApiDeleteAllDead
    <3>2. dead' \subseteq dead
      BY <2>4 DEF ApiDeleteDead, ApiDeleteAllDead
    <3> QED
      BY <3>1, <3>2, <1>k DEF InsertedAtOnce
  <2> QED
    BY <2>1, <2>2, <2>3, <2>4 DEF DeadStep, RevivalProceeds
<1>b. (\A j \in jobs : JobBudget(j)') /\ (\A m \in dead' : Exhausted(m)')
  BY <1>n, <1>a, BudgetsStay
<1>c. UNCHANGED <<inQueue, schedule>>
  BY DEF DeadStep, RevivalProceeds, FindDead, FindAllDead, ReadPage, EnqueueDead, DeleteDead,
         RevivalFails, ApiDeleteDead, ApiDeleteAllDead, storeVars
<1>d. (\A j \in jobs : JobBudget(j))' /\ (\A r \in Runs : RunBudget(r))'
  BY <1>b DEF DeadStep, runVars, jobVars, RunBudget
<1>e. \A g \in Hubs : \A n \in BagToSet(outbox'[g]) : Retryable(n)
  <2>1. ASSUME NEW q \in Revivals, EnqueueDead(q)
        PROVE  \A g \in Hubs : \A n \in BagToSet(outbox'[g]) : Retryable(n)
    <3>1. PICK m \in found[q] : Enqueue(RevivesOn[q], [m EXCEPT !.attempts = 0])
      BY <2>1 DEF EnqueueDead
    <3>2. /\ m \in Message /\ [m EXCEPT !.attempts = 0] \in Message /\ RevivesOn[q] \in Hubs
          /\ [m EXCEPT !.attempts = 0].attempts = 0 /\ [m EXCEPT !.attempts = 0].id = m.id
      BY RevivalsAssumption DEF TypeOK, RevivalTypeOK, Message
    <3>3. Retryable([m EXCEPT !.attempts = 0])
      BY <3>2, MaxAttemptsAssumption DEF Retryable, Message
    <3> QED
      BY <3>1, <3>2, <3>3, EnqueueBudget
  <2>2. ASSUME outbox' = outbox
        PROVE  \A g \in Hubs : \A n \in BagToSet(outbox'[g]) : Retryable(n)
    BY <2>2
  <2> QED
    BY <2>1, <2>2 DEF DeadStep, RevivalProceeds, FindDead, FindAllDead, ReadPage, DeleteDead,
                      RevivalFails, ApiDeleteDead, ApiDeleteAllDead, storeVars
<1> QED
  BY <1>b, <1>c, <1>d, <1>e, <1>r DEF Retryable

\* No delivery touches the channels, the accepted messages, or a dead letter already there.
LEMMA JobStepFrame ==
    ASSUME JobStep
    PROVE  UNCHANGED <<outbox, accepted>> /\ dead \subseteq dead'
<1>1. ASSUME NEW w \in Workers, Receive(w)
      PROVE  UNCHANGED <<outbox, accepted, dead>>
  BY <1>1 DEF Receive
<1>2. ASSUME NEW j \in jobs, JobProceeds(j)
      PROVE  UNCHANGED <<outbox, accepted>> /\ dead \subseteq dead'
  BY <1>2 DEF JobProceeds, Registered, ReplyProcessed, ReplyIgnored, ReplyRetryAfter,
              ReplyRetryDate, ReplyFailed, ReplyThrown, Scheduled, Killed, KillDuplicate,
              Unregistered, Acked, storeVars
<1>3. ASSUME NEW j \in jobs, RegisterFails(j) \/ InsertFails(j)
      PROVE  UNCHANGED <<outbox, accepted>> /\ dead \subseteq dead'
  BY <1>3 DEF RegisterFails, InsertFails
<1> QED
  BY <1>1, <1>2, <1>3 DEF JobStep

LEMMA BudgetJobStep ==
    ASSUME TypeOK, BudgetInv, JobStep
    PROVE  BudgetInv'
<1> USE DEF BudgetInv, RetryBudget
<1>n. [Next]_vars
  BY DEF Next
<1>r. RevivalsCounted'
  BY <1>n, RevivalsCountedStep
<1>a. dead \subseteq dead' /\ outbox' = outbox
  BY JobStepFrame
<1>b. (\A j \in jobs : JobBudget(j)') /\ (\A m \in dead : Exhausted(m)')
  BY <1>n, <1>a, BudgetsStay
<1>c. (\A r \in Runs : RunBudget(r))'
  BY DEF JobStep, runVars, RunBudget
<1>d. \A j \in jobs : j \in Job /\ j.msg \in Message
  BY DEF TypeOK, JobTypeOK, Job
<1>e. ASSUME inQueue' = inQueue, schedule' = schedule, dead' = dead,
             (\A j \in jobs : JobBudget(j))'
      PROVE  BudgetInv'
  BY <1>a, <1>b, <1>c, <1>e, <1>r DEF Retryable
<1>1. ASSUME NEW w \in Workers, Receive(w)
      PROVE  BudgetInv'
  <2>a. PICK m \in BagToSet(inQueue) :
            /\ inQueue' = inQueue (-) SetToBag({m})
            /\ jobs' = jobs \cup {[worker |-> w, pc |-> "registering", raw |-> m,
                                   msg |-> Archived(m), caught |-> "nothing",
                                   registered |-> FALSE]}
    BY <1>1 DEF Receive
  <2>b. PICK k : k = [worker |-> w, pc |-> "registering", raw |-> m, msg |-> Archived(m),
                      caught |-> "nothing", registered |-> FALSE]
    OBVIOUS
  <2>1. /\ inQueue' = inQueue (-) SetToBag({m}) /\ jobs' = jobs \cup {k}
        /\ k.raw = m /\ k.msg = Archived(m) /\ k.pc = "registering"
    BY <2>a, <2>b
  <2>2. m \in Message /\ Retryable(m) /\ BagToSet(inQueue') \subseteq BagToSet(inQueue)
    BY <2>1, BagRemoveElements DEF TypeOK, StoreTypeOK, MessageBag, BagToSet
  <2>3. Retryable(k.msg) /\ Retryable(k.raw)
    BY <2>1, <2>2, ArchivedType DEF TypeOK, JobTypeOK, Retryable
  <2>4. JobBudget(k)'
    BY <2>1, <2>3 DEF JobBudget, Retryable
  <2>5. (\A j \in jobs : JobBudget(j))'
    BY <2>1, <2>4, <1>b
  <2> QED
    BY <1>1, <1>a, <1>b, <1>c, <1>r, <2>2, <2>5 DEF Receive, Retryable
<1>2. ASSUME NEW j \in jobs, NEW k, Replace(j, k), k.raw = j.raw, k.msg = j.msg,
             k.pc = "acking" \/ (Retryable(j.msg) /\ k.pc # "killing"),
             inQueue' = inQueue, schedule' = schedule, dead' = dead
      PROVE  BudgetInv'
  <2>1. JobBudget(k)'
    BY <1>2 DEF JobBudget, Retryable
  <2>2. (\A i \in jobs : JobBudget(i))'
    BY <1>2, <1>b, <2>1, ReplaceBudget
  <2> QED
    BY <1>2, <1>e, <2>2
<1>3. ASSUME NEW j \in jobs, Registered(j)
      PROVE  BudgetInv'
  <2> DEFINE k == [j EXCEPT !.pc = "posting", !.registered = TRUE]
  <2>1. k.msg = j.msg /\ k.raw = j.raw /\ k.pc = "posting"
    BY <1>d DEF Job
  <2>2. Replace(j, k) /\ j.pc = "registering" /\ UNCHANGED storeVars
    BY <1>3 DEF Registered
  <2>3. Retryable(j.msg)
    BY <2>2 DEF JobBudget
  <2> HIDE DEF k
  <2> QED
    BY <1>2, <2>1, <2>2, <2>3 DEF storeVars
<1>4. ASSUME NEW j \in jobs, ReplyRetryAfter(j) \/ ReplyRetryDate(j)
      PROVE  BudgetInv'
  <2>1. PICK pc \in {"scheduling", "shelving"} : Replace(j, [j EXCEPT !.pc = pc])
    BY <1>4 DEF ReplyRetryAfter, ReplyRetryDate
  <2> DEFINE k == [j EXCEPT !.pc = pc]
  <2>2. k.msg = j.msg /\ k.raw = j.raw /\ k.pc \in {"scheduling", "shelving"}
    BY <1>d DEF Job
  <2>3. Replace(j, k) /\ j.pc = "posting" /\ UNCHANGED <<inQueue, schedule, dead>>
    BY <1>4, <2>1 DEF ReplyRetryAfter, ReplyRetryDate
  <2>4. Retryable(j.msg)
    BY <2>3 DEF JobBudget
  <2> HIDE DEF k
  <2> QED
    BY <1>2, <2>2, <2>3, <2>4
<1>5. ASSUME NEW j \in jobs, Unregistered(j)
      PROVE  BudgetInv'
  <2> DEFINE k == [j EXCEPT !.pc = "acking"]
  <2>1. k.msg = j.msg /\ k.raw = j.raw /\ k.pc = "acking"
    BY <1>d DEF Job
  <2>2. Replace(j, k) /\ inQueue' = inQueue /\ schedule' = schedule /\ dead' = dead
    BY <1>5 DEF Unregistered
  <2> HIDE DEF k
  <2> QED
    BY <1>2, <2>1, <2>2
<1>6. ASSUME NEW j \in jobs, Acked(j)
      PROVE  BudgetInv'
  BY <1>6, <1>b, <1>e DEF Acked, storeVars
<1>7. ASSUME NEW j \in jobs, RegisterFails(j) \/ ReplyFailed(j) \/ ReplyThrown(j)
      PROVE  BudgetInv'
  <2>1. (\A i \in jobs : JobBudget(i))'
    BY <1>7, <1>n, <1>a, <1>b, HandleErrorBudget DEF Exceptions, RegisterFails, ReplyFailed, ReplyThrown
  <2> QED
    BY <1>7, <1>e, <2>1 DEF RegisterFails, ReplyFailed, ReplyThrown, storeVars
<1>8. ASSUME NEW j \in jobs, ReplyProcessed(j) \/ ReplyIgnored(j)
      PROVE  BudgetInv'
  <2>1. (\A i \in jobs : JobBudget(i))'
    BY <1>8, <1>b, SettleBudget DEF ReplyProcessed, ReplyIgnored
  <2> QED
    BY <1>8, <1>e, <2>1 DEF ReplyProcessed, ReplyIgnored
\* An insert adds a message that may be retried, or one whose attempts are used up.
<1>9. ASSUME NEW j \in jobs, InsertMessageOf(j)
      PROVE  \A s \in schedule' : Retryable(s.msg)
  <2>1. PICK i \in Items, when \in {"later", "never"} : InsertItem(i, j.msg, when)
    BY <1>9 DEF InsertMessageOf
  <2>2. Retryable(j.msg)
    BY <1>9 DEF InsertMessageOf, JobBudget
  <2> QED
    BY <2>1, <2>2 DEF InsertItem
<1>10. ASSUME NEW j \in jobs, j.pc = "killing", ~KeyTaken(j.msg), dead' = dead \cup {j.msg}
       PROVE  \A m \in dead' : Exhausted(m)'
  <2>1. InsertedAtOnce' => InsertedAtOnce
    BY <1>n, InsertedAtOnceBefore
  <2>2. Exhausted(j.msg)'
    BY <1>10, <2>1 DEF JobBudget, Exhausted
  <2> QED
    BY <1>10, <1>b, <2>2
<1>11. ASSUME NEW j \in jobs, Scheduled(j)
       PROVE  BudgetInv'
  <2>1. (\A i \in jobs : JobBudget(i))'
    BY <1>11, <1>b, SettleBudget DEF Scheduled
  <2>2. \A s \in schedule' : Retryable(s.msg)
    BY <1>9, <1>11 DEF Scheduled
  <2> QED
    BY <1>11, <1>a, <1>b, <1>c, <1>r, <2>1, <2>2 DEF Scheduled, Retryable
<1>12. ASSUME NEW j \in jobs, Killed(j)
       PROVE  BudgetInv'
  <2>1. (\A i \in jobs : JobBudget(i))'
    BY <1>12, <1>b, SettleBudget DEF Killed
  <2>2. \A m \in dead' : Exhausted(m)'
    BY <1>10, <1>12 DEF Killed
  <2> QED
    BY <1>12, <1>a, <1>c, <1>r, <2>1, <2>2 DEF Killed, Retryable
<1>13. ASSUME NEW j \in jobs, KillDuplicate(j)
       PROVE  BudgetInv'
  <2>1. j.caught \in Exceptions
    BY <1>d DEF Job
  <2>2. (\A i \in jobs : JobBudget(i))'
    BY <1>13, <1>n, <1>a, <1>b, <2>1, SettleBudget, HandleErrorBudget DEF Exceptions, KillDuplicate
  <2> QED
    BY <1>13, <1>e, <2>2 DEF KillDuplicate, storeVars
<1>14. ASSUME NEW j \in jobs, InsertFails(j)
       PROVE  BudgetInv'
  <2>1. ~InsertedAtOnce'
    BY <1>14, MishapType DEF InsertFails, InsertedAtOnce, TypeOK, StoreTypeOK, Kinds
  <2>2. j.pc \in {"scheduling", "shelving", "killing"}
    BY <1>14 DEF InsertFails, InsertMessageOf
  <2>3. (\A i \in jobs : JobBudget(i))'
    <3>1. CASE j.caught # "nothing"
      BY <1>14, <1>b, <3>1, SettleBudget DEF InsertFails, StoreRejects
    <3>2. CASE j.caught = "nothing"
      BY <1>14, <1>n, <1>a, <1>b, <2>1, <2>2, <3>2, HandleErrorBudget DEF Exceptions, InsertFails, StoreRejects
    <3> QED
      BY <3>1, <3>2
  <2>4. \A s \in schedule' : Retryable(s.msg)
    BY <1>9, <1>14 DEF InsertFails
  <2>5. \A m \in dead' : Exhausted(m)'
    BY <1>10, <1>14, <1>b DEF InsertFails
  <2> QED
    BY <1>14, <1>a, <1>c, <1>r, <2>3, <2>4, <2>5 DEF InsertFails, Retryable
<1> QED
  BY <1>1, <1>3, <1>4, <1>5, <1>6, <1>7, <1>8, <1>11, <1>12, <1>13, <1>14
     DEF JobStep, JobProceeds

(* However often processes die, stores fail and locks run out: a message   *)
(* that can still be delivered has attempts left, and a dead one has used  *)
(* its attempts up (error_handler.js:19-40, delivery.js:69-80).            *)
THEOREM RetryBudgetHolds == Spec => []RetryBudget
<1>1. Init => BudgetInv
  BY EmptyBagType DEF Init, StoreInit, RunInit, RevivalInit, JobInit, BudgetInv, RetryBudget,
                      RunBudget, RevivalsCounted
<1>2. TypeOK /\ BudgetInv /\ [Next]_vars => BudgetInv'
  <2>1. CASE UNCHANGED vars
    BY <2>1 DEF vars, storeVars, runVars, revivalVars, jobVars, BudgetInv, RetryBudget, Retryable,
                Exhausted, InsertedAtOnce, JobBudget, RunBudget, KeyTaken, RevivalsCounted
  <2> QED
    BY <2>1, BudgetStoreStep, BudgetRunStep, BudgetDeadStep, BudgetJobStep DEF Next
<1>3. BudgetInv => RetryBudget
  BY DEF BudgetInv
<1> QED
  BY <1>1, <1>2, <1>3, TypeCorrect, PTL DEF Spec

-----------------------------------------------------------------------------
(* No unexplained loss.                                                    *)

LEMMA ReferencedItems ==
    \A s : s \in Referenced <=> \/ s \in schedule
                               \/ \E r \in Runs : s \in todo[r] \/ s \in sent[r]
  BY DEF Referenced, Sent

LEMMA SentItems == \A s : s \in Sent <=> \E r \in Runs : s \in sent[r]
  BY DEF Sent

\* An _id keeps standing for one message, since no insert uses one that is referenced.
LEMMA AgreeStep ==
    ASSUME TypeOK, ItemsAgree, Next
    PROVE  ItemsAgree'
<1>a. ASSUME \A s \in Referenced' : s \in Referenced
      PROVE  ItemsAgree'
  BY <1>a DEF ItemsAgree
<1>b. ASSUME NEW j \in jobs, InsertMessageOf(j), UNCHANGED runVars
      PROVE  ItemsAgree'
  <2>1. PICK i \in Items, when \in {"later", "never"} : InsertItem(i, j.msg, when)
    BY <1>b DEF InsertMessageOf
  <2>2. PICK new : new = [item |-> i, msg |-> j.msg, due |-> when]
    OBVIOUS
  <2>3. \A s \in Referenced' : s \in Referenced \/ s = new
    BY <1>b, <2>1, <2>2 DEF InsertItem, runVars, Referenced, Sent
  <2>4. new.item = i /\ \A s \in Referenced : s.item # i
    BY <2>1, <2>2 DEF InsertItem, Fresh
  <2> QED
    BY <2>3, <2>4 DEF ItemsAgree
<1>1. ASSUME NEW s \in schedule, BecomeDue(s), UNCHANGED runVars
      PROVE  ItemsAgree'
  <2>1. PICK t : t = [s EXCEPT !.due = "due"]
    OBVIOUS
  <2>2. t.item = s.item /\ t.msg = s.msg /\ s \in Referenced
    BY <2>1 DEF TypeOK, StoreTypeOK, ScheduledItem, Referenced
  <2>3. \A u \in Referenced' : u \in Referenced \/ u = t
    BY <1>1, <2>1 DEF BecomeDue, runVars, Referenced, Sent
  <2> QED
    BY <2>2, <2>3 DEF ItemsAgree
<1>2. CASE StoreStep
  <2>1. ASSUME NEW h \in Hubs, Crash(h)
        PROVE  ItemsAgree'
    <3>1. schedule' = schedule /\ \A r \in Runs : todo'[r] \subseteq todo[r] /\ sent'[r] \subseteq sent[r]
      BY <2>1 DEF Crash, RunEnds
    <3> QED
      BY <3>1, <1>a DEF Referenced, Sent
  <2>2. ASSUME schedule' \subseteq schedule, UNCHANGED runVars
        PROVE  ItemsAgree'
    BY <2>2, <1>a DEF runVars, Referenced, Sent
  <2> QED
    BY <1>1, <1>2, <2>1, <2>2 DEF StoreStep, Publish, Flush, Restart, ApiDelete
<1>3. CASE RunStep
  <2>1. ASSUME NEW p \in Pollers, AcquireLock(p)
        PROVE  ItemsAgree'
    BY <2>1, <1>a DEF AcquireLock, storeVars, Referenced, Sent
  <2>2. ASSUME NEW r \in Runs, ReadDue(r) \/ FindOne(r)
        PROVE  ItemsAgree'
    <3>1. /\ schedule' = schedule /\ sent' = sent
          /\ \A q \in Runs : \A s \in todo'[q] : s \in todo[q] \/ s \in schedule
      <4>1. CASE ReadDue(r)
        BY <4>1 DEF ReadDue, Due, storeVars, TypeOK, RunTypeOK
      <4>2. CASE FindOne(r)
        <5>1. PICK s \in schedule : todo' = [todo EXCEPT ![r] = {s}]
          BY <4>2 DEF FindOne
        <5> QED
          BY <4>2, <5>1 DEF FindOne, TypeOK, RunTypeOK
      <4> QED
        BY <2>2, <4>1, <4>2
    <3> QED
      BY <3>1, <1>a DEF Referenced, Sent
  <2>3. ASSUME NEW r \in Runs, EnqueueNext(r)
        PROVE  ItemsAgree'
    <3>1. /\ schedule' = schedule
          /\ \A q \in Runs : todo'[q] \subseteq todo[q] /\ sent'[q] \subseteq sent[q] \cup todo[q]
      BY <2>3 DEF EnqueueNext, TypeOK, RunTypeOK
    <3> QED
      BY <3>1, <1>a DEF Referenced, Sent
  <2>4. ASSUME NEW r \in Runs, DeleteSent(r) \/ FinishPoll(r) \/ UnlockFails(r) \/ FinishRequest(r) \/ RunFails(r)
        PROVE  ItemsAgree'
    <3>1. /\ schedule' \subseteq schedule
          /\ \A q \in Runs : todo'[q] \subseteq todo[q] /\ sent'[q] \subseteq sent[q]
      BY <2>4 DEF DeleteSent, FinishPoll, UnlockFails, FinishRequest, RunFails, RunEnds, storeVars, TypeOK, RunTypeOK
    <3> QED
      BY <3>1, <1>a DEF Referenced, Sent
  <2>5. ASSUME LeaseExpires
        PROVE  ItemsAgree'
    BY <2>5, <1>a DEF LeaseExpires, runVars, Referenced, Sent
  <2> QED
    BY <1>3, <2>1, <2>2, <2>3, <2>4, <2>5 DEF RunStep, RunProceeds, Runs
<1>4. CASE JobStep
  <2>1. ASSUME schedule' = schedule
        PROVE  ItemsAgree'
    BY <1>4, <2>1, <1>a DEF JobStep, runVars, Referenced, Sent
  <2>2. ASSUME NEW j \in jobs, Scheduled(j) \/ InsertFails(j)
        PROVE  ItemsAgree'
    BY <1>4, <1>b, <2>1, <2>2 DEF JobStep, Scheduled, InsertFails
  <2>3. ASSUME NEW w \in Workers, Receive(w)
        PROVE  ItemsAgree'
    BY <2>1, <2>3 DEF Receive
  <2>4. ASSUME NEW j \in jobs, RegisterFails(j)
        PROVE  ItemsAgree'
    BY <2>1, <2>4 DEF RegisterFails
  <2>5. ASSUME NEW j \in jobs, JobProceeds(j)
        PROVE  ItemsAgree'
    BY <2>1, <2>2, <2>5
       DEF JobProceeds, Registered, ReplyProcessed, ReplyIgnored, ReplyRetryAfter, ReplyRetryDate,
           ReplyFailed, ReplyThrown, Killed, KillDuplicate, Unregistered, Acked, storeVars
  <2> QED
    BY <1>4, <2>2, <2>3, <2>4, <2>5 DEF JobStep
<1>5. CASE DeadStep
  <2>1. schedule' = schedule /\ UNCHANGED runVars
    BY <1>5 DEF DeadStep, RevivalProceeds, FindDead, FindAllDead, ReadPage, EnqueueDead, DeleteDead,
                RevivalFails, ApiDeleteDead, ApiDeleteAllDead, storeVars
  <2> QED
    BY <2>1, <1>a DEF runVars, Referenced, Sent
<1> QED
  BY <1>2, <1>3, <1>4, <1>5 DEF Next

\* The steps that only change what a job waits for.
MovesOn(j) == Registered(j) \/ ReplyRetryAfter(j) \/ ReplyRetryDate(j) \/ Unregistered(j)

LEMMA MovesOnEffect ==
    ASSUME TypeOK, NEW j \in jobs, MovesOn(j)
    PROVE  \E k \in Job : /\ Replace(j, k)
                          /\ k.raw = j.raw /\ k.msg = j.msg
                          /\ Unsettled(k) \/ ~Unsettled(j)
<1>1. j \in Job
  BY DEF TypeOK, JobTypeOK
<1>2. CASE Registered(j)
  <2> DEFINE k == [j EXCEPT !.pc = "posting", !.registered = TRUE]
  <2>1. k \in Job /\ k.raw = j.raw /\ k.msg = j.msg /\ Unsettled(k)
    BY <1>1 DEF Job, Steps, Unsettled
  <2>2. Replace(j, k)
    BY <1>2 DEF Registered
  <2> HIDE DEF k
  <2> QED
    BY <2>1, <2>2
<1>3. ASSUME NEW pc \in Steps, Replace(j, [j EXCEPT !.pc = pc]),
             pc \notin {"unregistering", "acking"} \/ ~Unsettled(j)
      PROVE  \E k \in Job : /\ Replace(j, k)
                            /\ k.raw = j.raw /\ k.msg = j.msg
                            /\ Unsettled(k) \/ ~Unsettled(j)
  <2> DEFINE k == [j EXCEPT !.pc = pc]
  <2>1. k \in Job /\ k.raw = j.raw /\ k.msg = j.msg /\ (Unsettled(k) \/ ~Unsettled(j))
    BY <1>1, <1>3 DEF Job, Unsettled
  <2>2. Replace(j, k)
    BY <1>3
  <2> HIDE DEF k
  <2> QED
    BY <2>1, <2>2
<1>4. CASE ReplyRetryAfter(j)
  BY <1>3, <1>4 DEF ReplyRetryAfter, Steps
<1>5. CASE ReplyRetryDate(j)
  BY <1>3, <1>5 DEF ReplyRetryDate, Steps
<1>6. CASE Unregistered(j)
  BY <1>3, <1>6 DEF Unregistered, Steps, Unsettled
<1> QED
  BY <1>2, <1>4, <1>5, <1>6 DEF MovesOn

\* A job's message keeps the id under which the broker would redeliver it.
LEMMA RawStep ==
    ASSUME TypeOK, RawKeepsId, Next
    PROVE  RawKeepsId'
<1>a. \A j \in jobs : j \in Job /\ j.raw.id = j.msg.id
  BY DEF RawKeepsId, TypeOK, JobTypeOK
<1>b. ASSUME NEW j \in jobs, NEW k, Replace(j, k), k.raw = j.raw, k.msg.id = j.msg.id
      PROVE  RawKeepsId'
  BY <1>a, <1>b DEF Replace, RawKeepsId
<1>c. ASSUME jobs' \subseteq jobs
      PROVE  RawKeepsId'
  BY <1>a, <1>c DEF RawKeepsId
<1>1. CASE StoreStep \/ RunStep \/ DeadStep
  BY <1>1, <1>c DEF StoreStep, RunStep, DeadStep, Crash, jobVars
<1>2. ASSUME NEW w \in Workers, Receive(w)
      PROVE  RawKeepsId'
  <2>1. PICK m \in BagToSet(inQueue) :
            jobs' = jobs \cup {[worker |-> w, pc |-> "registering", raw |-> m,
                                msg |-> Archived(m), caught |-> "nothing", registered |-> FALSE]}
    BY <1>2 DEF Receive
  <2>2. PICK k : k = [worker |-> w, pc |-> "registering", raw |-> m, msg |-> Archived(m),
                      caught |-> "nothing", registered |-> FALSE]
    OBVIOUS
  <2>3. jobs' = jobs \cup {k} /\ k.raw = m /\ k.msg = Archived(m)
    BY <2>1, <2>2
  <2>4. m \in Message /\ Archived(m).id = m.id
    BY ArchivedType DEF TypeOK, StoreTypeOK, JobTypeOK, MessageBag, BagToSet
  <2> QED
    BY <1>a, <2>3, <2>4 DEF RawKeepsId
<1>3. ASSUME NEW j \in jobs, MovesOn(j)
      PROVE  RawKeepsId'
  BY <1>3, <1>b, MovesOnEffect
<1>4. ASSUME NEW j \in jobs, Settle(j)
      PROVE  RawKeepsId'
  BY <1>4, <1>b, SettleEffect
<1>5. ASSUME NEW j \in jobs, NEW c \in Exceptions, HandleError(j, c)
      PROVE  RawKeepsId'
  BY <1>5, <1>b, HandleErrorEffect
<1>6. ASSUME NEW j \in jobs, Acked(j)
      PROVE  RawKeepsId'
  BY <1>6, <1>c DEF Acked
<1>7. CASE JobStep
  <2>1. ASSUME NEW j \in jobs, JobProceeds(j) \/ RegisterFails(j) \/ InsertFails(j)
        PROVE  \/ MovesOn(j) \/ Acked(j)
               \/ Settle(j) \/ \E c \in Exceptions : HandleError(j, c)
    BY <2>1 DEF JobProceeds, MovesOn, RegisterFails, ReplyProcessed, ReplyIgnored, ReplyFailed,
                ReplyThrown, Scheduled, Killed, KillDuplicate, InsertFails, StoreRejects, Exceptions
  <2> QED
    BY <1>2, <1>3, <1>4, <1>5, <1>6, <1>7, <2>1 DEF JobStep
<1> QED
  BY <1>1, <1>7 DEF Next

\* No reason for letting a message go is ever withdrawn.
LEMMA ReasonsGrow ==
    ASSUME TypeOK, [Next]_vars
    PROVE  \A id \in Ids : released[id] \subseteq released'[id]
<1>1. UNCHANGED released \/ \E ids : \E why \in Reasons : LetGo(ids, why)
  <2>1. CASE StoreStep
    BY <2>1 DEF StoreStep, Publish, Flush, Restart, BecomeDue, ApiDelete, Crash, Reasons
  <2>2. CASE RunStep
    BY <2>2 DEF RunStep, RunProceeds, AcquireLock, ReadDue, FindOne, EnqueueNext, DeleteSent,
                FinishPoll, UnlockFails, FinishRequest, RunFails, LeaseExpires, storeVars
  <2>3. CASE JobStep
    <3>1. ASSUME NEW w \in Workers, Receive(w)
          PROVE  UNCHANGED released
      BY <3>1 DEF Receive
    <3>2. ASSUME NEW j \in jobs, JobProceeds(j)
          PROVE  UNCHANGED released \/ \E ids : \E why \in Reasons : LetGo(ids, why)
      BY <3>2 DEF JobProceeds, Registered, ReplyProcessed, ReplyIgnored, ReplyRetryAfter,
                  ReplyRetryDate, ReplyFailed, ReplyThrown, Scheduled, Killed, KillDuplicate,
                  DiesAgain, Unregistered, Acked, storeVars, Reasons
    <3>3. ASSUME NEW j \in jobs, RegisterFails(j) \/ InsertFails(j)
          PROVE  UNCHANGED released \/ \E ids : \E why \in Reasons : LetGo(ids, why)
      BY <3>3 DEF RegisterFails, InsertFails, StoreRejects, Reasons
    <3> QED
      BY <2>3, <3>1, <3>2, <3>3 DEF JobStep
  <2>4. CASE DeadStep
    BY <2>4 DEF DeadStep, RevivalProceeds, FindDead, FindAllDead, ReadPage, EnqueueDead, DeleteDead,
                RevivalFails, ApiDeleteDead, ApiDeleteAllDead, storeVars, Reasons
  <2>5. CASE UNCHANGED vars
    BY <2>5 DEF vars, storeVars
  <2> QED
    BY <2>1, <2>2, <2>3, <2>4, <2>5 DEF Next
<1> QED
  BY <1>1, LetGoType DEF TypeOK, StoreTypeOK

\* Enqueueing m leaves a copy of its id in a channel, and loses none.
LEMMA EnqueueBuffers ==
    ASSUME TypeOK, NEW h \in Hubs, NEW m \in Message, Enqueue(h, m), NEW id,
           id = m.id \/ Buffered(id)
    PROVE  Buffered(id)'
<1>1. BagToSet(outbox'[h]) = BagToSet(outbox[h]) \cup {Json(m)}
  BY BagAddElements DEF Enqueue, TypeOK, StoreTypeOK
<1>2. \A g \in Hubs : g # h => outbox'[g] = outbox[g]
  BY DEF Enqueue, TypeOK, StoreTypeOK
<1> QED
  BY <1>1, <1>2, JsonKeeps DEF Buffered

\* A revival that reads, or none, has no dead letters in hand.
LEMMA ClearStep ==
    ASSUME TypeOK, RevivalsClear, Next
    PROVE  RevivalsClear'
<1>a. DOMAIN revivalPc = Revivals /\ DOMAIN found = Revivals /\ DOMAIN revived = Revivals
  BY DEF TypeOK, RevivalTypeOK
<1>1. CASE UNCHANGED revivalVars
  BY <1>1 DEF RevivalsClear, revivalVars
<1>2. ASSUME NEW h \in Hubs, Crash(h)
      PROVE  RevivalsClear'
  BY <1>2 DEF Crash, RevivalsEnd, RevivalsClear
<1>3. ASSUME NEW q \in Revivals, FindDead(q) \/ FindAllDead(q)
      PROVE  RevivalsClear'
  BY <1>a, <1>3 DEF FindDead, FindAllDead, RevivalsClear
<1>4. ASSUME NEW q \in Revivals, ReadPage(q)
      PROVE  RevivalsClear'
  BY <1>a, <1>4 DEF ReadPage, RevivalsClear
<1>5. ASSUME NEW q \in Revivals, EnqueueDead(q)
      PROVE  RevivalsClear'
  BY <1>a, <1>5 DEF EnqueueDead, RevivalsClear
<1>6. ASSUME NEW q \in Revivals, DeleteDead(q)
      PROVE  RevivalsClear'
  BY <1>a, <1>6 DEF DeleteDead, RevivalsClear
<1>7. ASSUME NEW q \in Revivals, RevivalFails(q)
      PROVE  RevivalsClear'
  BY <1>7 DEF RevivalFails, RevivalsEnd, RevivalsClear
<1> QED
  BY <1>1, <1>2, <1>3, <1>4, <1>5, <1>6, <1>7
     DEF Next, StoreStep, RunStep, JobStep, DeadStep, RevivalProceeds

\* A dead letter that stays, and that nothing new is about to delete, keeps its message.
LEMMA BuriedStays ==
    ASSUME NEW id, \A m \in dead : m.id = id /\ ~Overtaken(m) => m \in dead' /\ ~Overtaken(m)'
    PROVE  Buried(id) => Buried(id)'
  BY DEF Buried

\* While the revivals do nothing, no dead letter becomes theirs.
LEMMA OvertakenSame ==
    ASSUME UNCHANGED revivalVars, NEW m, NEW d, SameKey(d, m)
    PROVE  Overtaken(m)' = Overtaken(m) /\ Overtaken(d) = Overtaken(m)
  BY DEF Overtaken, revivalVars, SameKey

LEMMA LossStoreStep ==
    ASSUME TypeOK, LossInv, StoreStep, NEW id \in accepted', released'[id] = {}
    PROVE  Firm(id)'
<1>a. id \in Ids /\ released[id] = {}
  BY TypeStep, ReasonsGrow DEF Next, TypeOK, StoreTypeOK
<1>b. id \in accepted => Firm(id)
  BY <1>a DEF LossInv, Kept
<1>c. Buried(id) => Buried(id)'
  <2>1. dead' = dead
    BY DEF StoreStep, Publish, Flush, Restart, BecomeDue, ApiDelete, Crash
  <2>2. ASSUME NEW h \in Hubs, Crash(h), NEW m, Overtaken(m)'
        PROVE  Overtaken(m)
    BY <2>2 DEF Crash, RevivalsEnd, Overtaken
  <2>3. ASSUME UNCHANGED revivalVars, NEW m, Overtaken(m)'
        PROVE  Overtaken(m)
    BY <2>3 DEF revivalVars, Overtaken
  <2> QED
    BY <2>1, <2>2, <2>3, BuriedStays DEF StoreStep
<1>1. ASSUME NEW h \in Hubs, NEW i \in Ids, Publish(h, i), UNCHANGED <<lock, runVars, revivalVars, jobVars>>
      PROVE  Firm(id)'
  <2>1. NewMessage(i) \in Message /\ NewMessage(i).id = i
    BY DEF NewMessage, Message
  <2>2. id = i \/ Buffered(id) => Buffered(id)'
    BY <1>1, <2>1, EnqueueBuffers DEF Publish
  <2> QED
    BY <1>1, <1>b, <1>c, <2>2
       DEF Publish, Firm, Queued, Waiting, Sent, InHand, runVars, jobVars, Unsettled
<1>2. ASSUME NEW h \in Hubs, Flush(h), UNCHANGED <<lock, runVars, revivalVars, jobVars>>
      PROVE  Firm(id)'
  <2>1. PICK m \in BagToSet(outbox[h]) :
            /\ outbox' = [outbox EXCEPT ![h] = @ (-) SetToBag({m})]
            /\ inQueue' = inQueue (+) SetToBag({m})
    BY <1>2 DEF Flush
  <2>2. BagToSet(inQueue') = BagToSet(inQueue) \cup {m}
    BY <2>1, BagAddElements
  <2>3. \A g \in Hubs : BagToSet(outbox[g]) \subseteq BagToSet(outbox'[g]) \cup {m}
    BY <2>1, BagRemoveElements DEF TypeOK, StoreTypeOK
  <2>4. Queued(id) \/ Buffered(id) => Queued(id)' \/ Buffered(id)'
    BY <2>2, <2>3 DEF Queued, Buffered
  <2> QED
    BY <1>2, <1>b, <1>c, <2>4 DEF Flush, Firm, Waiting, Sent, InHand, runVars, jobVars, Unsettled
<1>3. ASSUME NEW h \in Hubs, Restart(h), UNCHANGED <<lock, runVars, revivalVars, jobVars>>
      PROVE  Firm(id)'
  BY <1>3, <1>b, <1>c DEF Restart, Firm, Queued, Buffered, Waiting, Sent, InHand, runVars, jobVars, Unsettled
<1>4. ASSUME NEW s \in schedule, BecomeDue(s), UNCHANGED <<lock, runVars, revivalVars, jobVars>>
      PROVE  Firm(id)'
  <2>1. PICK t : t = [s EXCEPT !.due = "due"]
    OBVIOUS
  <2>2. t.item = s.item /\ t.msg = s.msg /\ schedule' = (schedule \ {s}) \cup {t} /\ sent' = sent
    BY <1>4, <2>1 DEF BecomeDue, TypeOK, StoreTypeOK, ScheduledItem, runVars
  <2>3. Waiting(id) => Waiting(id)'
    BY <2>2 DEF Waiting, Sent
  <2> QED
    BY <1>4, <1>b, <1>c, <2>3 DEF BecomeDue, Firm, Queued, Buffered, InHand, jobVars, Unsettled
<1>5. ASSUME NEW s \in schedule, ApiDelete(s), UNCHANGED <<lock, runVars, revivalVars, jobVars>>
      PROVE  Firm(id)'
  <2>1. s.msg.id # id
    BY <1>5, <1>a, LetGoType DEF ApiDelete, TypeOK, StoreTypeOK, Reasons
  <2>2. Waiting(id) => Waiting(id)'
    BY <1>5, <2>1 DEF ApiDelete, Waiting, Sent, runVars
  <2> QED
    BY <1>5, <1>b, <1>c, <2>2 DEF ApiDelete, Firm, Queued, Buffered, InHand, jobVars, Unsettled
<1>6. ASSUME NEW h \in Hubs, Crash(h)
      PROVE  Firm(id)'
  <2> DEFINE lost == {j \in jobs : WorksOn[j.worker] = h}
             requeued == [m \in {j.raw : j \in lost} |-> Cardinality({j \in lost : j.raw = m})]
  <2>1. lost \in SUBSET Job /\ IsFiniteSet(lost) /\ \A j \in lost : j.raw.id = j.msg.id
    BY FS_Subset DEF TypeOK, JobTypeOK, LossInv, RawKeepsId
  <2>2. BagToSet(inQueue (+) requeued) = BagToSet(inQueue) \cup {j.raw : j \in lost}
    <3> HIDE DEF lost
    <3>1. BagToSet(requeued) = {j.raw : j \in lost}
      BY <2>1, RequeuedType
    <3> HIDE DEF requeued
    <3> QED BY <3>1, BagCupElements
  <2>3. inQueue' = inQueue (+) requeued /\ jobs' = jobs \ lost
    BY <1>6 DEF Crash
  <2> HIDE DEF requeued, lost
  <2>4. InHand(id) \/ Queued(id) => InHand(id)' \/ Queued(id)'
    BY <2>1, <2>2, <2>3 DEF InHand, Queued, Unsettled
  <2>5. \A m \in BagToSet(outbox[h]) : m.id # id
    <3>1. LetGo({m.id : m \in BagToSet(outbox[h])}, "wiped") /\ "wiped" \in Reasons
      BY <1>6 DEF Crash, Reasons
    <3>2. id \notin {m.id : m \in BagToSet(outbox[h])}
      BY <3>1, <1>a, LetGoType DEF TypeOK, StoreTypeOK
    <3> QED
      BY <3>2
  <2>6. Buffered(id) => Buffered(id)'
    <3>1. outbox' = [outbox EXCEPT ![h] = EmptyBag] /\ DOMAIN outbox = Hubs
      BY <1>6 DEF Crash, TypeOK, StoreTypeOK
    <3> QED
      BY <2>5, <3>1 DEF Buffered
  <2>7. Waiting(id) => Waiting(id)'
    <3>1. schedule' = schedule /\ \A r \in Runs : sent'[r] \subseteq sent[r]
      BY <1>6 DEF Crash, RunEnds
    <3> QED
      BY <3>1 DEF Waiting, Sent
  <2>8. accepted' = accepted
    BY <1>6 DEF Crash
  <2> QED
    BY <1>b, <1>c, <2>4, <2>6, <2>7, <2>8 DEF Firm
<1> QED
  BY <1>1, <1>2, <1>3, <1>4, <1>5, <1>6 DEF StoreStep

LEMMA LossRunStep ==
    ASSUME TypeOK, LossInv, RunStep, NEW id \in accepted', released'[id] = {}
    PROVE  Firm(id)'
<1>a. UNCHANGED <<inQueue, dead, accepted, released, jobs>>
  BY DEF RunStep, RunProceeds, AcquireLock, ReadDue, FindOne, EnqueueNext, DeleteSent, FinishPoll,
         UnlockFails, FinishRequest, RunFails, LeaseExpires, storeVars, jobVars
<1>b. Firm(id)
  BY <1>a DEF LossInv, Kept
<1>d. Buried(id) => Buried(id)'
  BY <1>a, BuriedStays DEF RunStep, revivalVars, Overtaken
<1>c. ASSUME Buffered(id) => Buffered(id)', Waiting(id) => Waiting(id)' \/ Buffered(id)'
      PROVE  Firm(id)'
  BY <1>a, <1>b, <1>c, <1>d DEF Firm, Queued, InHand, Unsettled
<1>1. ASSUME NEW r \in Runs, EnqueueNext(r)
      PROVE  Firm(id)'
  <2>1. PICK s \in todo[r] : /\ Enqueue(RunsOn[r], s.msg)
                              /\ sent' = [sent EXCEPT ![r] = {s}]
    BY <1>1 DEF EnqueueNext
  <2>2. s.msg \in Message
    BY DEF TypeOK, RunTypeOK, ScheduledItem
  <2>3. id = s.msg.id \/ Buffered(id) => Buffered(id)'
    BY <2>1, <2>2, EnqueueBuffers, RunsOnHubs
  <2>4. ASSUME NEW t \in schedule, t.msg.id = id, \A u \in Sent : u.item # t.item, t.item # s.item
        PROVE  Waiting(id)'
    <3>1. \A u \in Sent' : u \in Sent \/ u = s
      BY <2>1 DEF Sent, TypeOK, RunTypeOK
    <3>2. schedule' = schedule
      BY <1>1 DEF EnqueueNext
    <3> QED
      BY <2>4, <3>1, <3>2 DEF Waiting
  <2>5. ASSUME NEW t \in schedule, t.msg.id = id, t.item = s.item
        PROVE  id = s.msg.id
    BY <2>5 DEF LossInv, ItemsAgree, Referenced
  <2> QED
    BY <1>c, <2>3, <2>4, <2>5 DEF Waiting
<1>2. ASSUME NEW r \in Runs, DeleteSent(r) \/ FinishPoll(r) \/ UnlockFails(r) \/ FinishRequest(r) \/ RunFails(r)
      PROVE  Firm(id)'
  <2>1. /\ \A s \in schedule : (\A t \in Sent : t.item # s.item) => s \in schedule'
        /\ \A q \in Runs : sent'[q] \subseteq sent[q]
    BY <1>2 DEF DeleteSent, FinishPoll, UnlockFails, FinishRequest, RunFails, RunEnds, storeVars, TypeOK, RunTypeOK, Sent
  <2>2. Waiting(id) => Waiting(id)'
    BY <2>1 DEF Waiting, Sent
  <2>3. Buffered(id) => Buffered(id)'
    BY <1>2 DEF DeleteSent, FinishPoll, UnlockFails, FinishRequest, RunFails, storeVars, Buffered
  <2> QED
    BY <1>c, <2>2, <2>3
<1>3. ASSUME UNCHANGED <<outbox, schedule, sent>>
      PROVE  Firm(id)'
  BY <1>c, <1>3 DEF Buffered, Waiting, Sent
<1> QED
  BY <1>1, <1>2, <1>3 DEF RunStep, RunProceeds, AcquireLock, ReadDue, FindOne, LeaseExpires,
                          storeVars, runVars, Runs

LEMMA LossDeadStep ==
    ASSUME TypeOK, LossInv, DeadStep, NEW id \in accepted', released'[id] = {}
    PROVE  Firm(id)'
<1>a. UNCHANGED <<inQueue, schedule, accepted, sent, jobs>>
  BY DEF DeadStep, RevivalProceeds, FindDead, FindAllDead, ReadPage, EnqueueDead, DeleteDead,
         RevivalFails, ApiDeleteDead, ApiDeleteAllDead, storeVars, runVars, jobVars
<1>b. id \in Ids /\ Firm(id)
  BY <1>a, ReasonsGrow DEF Next, TypeOK, StoreTypeOK, LossInv, Kept
<1>c. ASSUME Buffered(id) => Buffered(id)', Buried(id) => Buried(id)' \/ Buffered(id)'
      PROVE  Firm(id)'
  BY <1>a, <1>b, <1>c DEF Firm, Queued, Waiting, Sent, InHand, Unsettled
<1>d. DOMAIN revivalPc = Revivals /\ DOMAIN revived = Revivals
  BY DEF TypeOK, RevivalTypeOK
<1>1. ASSUME NEW q \in Revivals, FindDead(q) \/ FindAllDead(q) \/ ReadPage(q)
      PROVE  Firm(id)'
  <2>1. dead' = dead /\ outbox' = outbox /\ revived' = revived
    BY <1>1 DEF FindDead, FindAllDead, ReadPage, storeVars
  <2>2. revived[q] = {} /\ \A p \in Revivals : p # q => revivalPc'[p] = revivalPc[p]
    BY <1>1, <1>d DEF FindDead, FindAllDead, ReadPage, LossInv, RevivalsClear
  <2>3. ASSUME NEW m, Overtaken(m)'
        PROVE  Overtaken(m)
    BY <2>1, <2>2, <2>3 DEF Overtaken
  <2> QED
    BY <1>c, <2>1, <2>3, BuriedStays DEF Buffered
\* What the revival enqueues is in a channel now; no other dead letter becomes its.
<1>2. ASSUME NEW q \in Revivals, EnqueueDead(q)
      PROVE  Firm(id)'
  <2>1. PICK m \in found[q] : /\ Enqueue(RevivesOn[q], [m EXCEPT !.attempts = 0])
                              /\ revived' = [revived EXCEPT ![q] = @ \cup {m}]
    BY <1>2 DEF EnqueueDead
  <2>2. /\ m \in Message /\ [m EXCEPT !.attempts = 0] \in Message /\ RevivesOn[q] \in Hubs
        /\ [m EXCEPT !.attempts = 0].id = m.id
    BY RevivalsAssumption DEF TypeOK, RevivalTypeOK, Message
  <2>3. id = m.id \/ Buffered(id) => Buffered(id)'
    BY <2>1, <2>2, EnqueueBuffers
  <2>4. ASSUME NEW d, d.id = id, id # m.id, Overtaken(d)'
        PROVE  Overtaken(d)
    <3>1. revivalPc' = revivalPc /\ dead' = dead
      BY <1>2 DEF EnqueueDead
    <3>2. PICK p \in Revivals : \E x \in revived'[p] :
             IF revivalPc[p] = "one" THEN x.id = d.id ELSE SameKey(x, d)
      BY <2>4, <3>1 DEF Overtaken
    <3>3. PICK x \in revived'[p] : IF revivalPc[p] = "one" THEN x.id = d.id ELSE SameKey(x, d)
      BY <3>2
    <3>4. x.id = id
      BY <2>4, <3>3 DEF SameKey
    <3>5. x \in revived[p]
      BY <1>d, <2>1, <2>4, <3>4
    <3> QED
      BY <3>3, <3>5 DEF Overtaken
  <2>5. dead' = dead
    BY <1>2 DEF EnqueueDead
  <2>6. CASE id = m.id
    BY <1>c, <2>3, <2>6
  <2>7. CASE id # m.id
    BY <1>c, <2>3, <2>4, <2>5, <2>7, BuriedStays
  <2> QED
    BY <2>6, <2>7
\* What a revival deletes was about to be deleted.
<1>3. ASSUME NEW q \in Revivals, NEW ms \in SUBSET revived[q], DeleteRevived(q, ms),
             NEW m \in dead, ~Overtaken(m)
      PROVE  m \in dead'
  <2>1. \A d \in revived[q] : IF revivalPc[q] = "one" THEN d.id # m.id ELSE ~SameKey(d, m)
    BY <1>3 DEF Overtaken
  <2>2. \A d \in ms : IF revivalPc[q] = "one" THEN d.id # m.id ELSE ~SameKey(m, d)
    BY <2>1 DEF SameKey
  <2>3. CASE revivalPc[q] = "one"
    <3>1. m \notin {d \in dead : \E x \in ms : d.id = x.id}
      BY <2>2, <2>3
    <3> QED
      BY <1>3, <2>3, <3>1 DEF DeleteRevived
  <2>4. CASE revivalPc[q] # "one"
    BY <1>3, <2>2, <2>4 DEF DeleteRevived
  <2> QED
    BY <2>3, <2>4
<1>4. ASSUME NEW q \in Revivals, DeleteDead(q)
      PROVE  Firm(id)'
  <2>1. \A m \in dead : ~Overtaken(m) => m \in dead'
    BY <1>3, <1>4 DEF DeleteDead
  <2>2. ASSUME NEW m, Overtaken(m)'
        PROVE  Overtaken(m)
    BY <1>4, <1>d, <2>2 DEF DeleteDead, Overtaken
  <2>3. outbox' = outbox
    BY <1>4 DEF DeleteDead
  <2> QED
    BY <1>c, <2>1, <2>2, <2>3, BuriedStays DEF Buffered
<1>5. ASSUME NEW q \in Revivals, RevivalFails(q)
      PROVE  Firm(id)'
  <2>1. \A m \in dead : ~Overtaken(m) => m \in dead'
    BY <1>3, <1>5 DEF RevivalFails
  <2>2. ASSUME NEW m, Overtaken(m)'
        PROVE  Overtaken(m)
    BY <1>5, <2>2 DEF RevivalFails, RevivalsEnd, Overtaken
  <2>3. outbox' = outbox
    BY <1>5 DEF RevivalFails
  <2> QED
    BY <1>c, <2>1, <2>2, <2>3, BuriedStays DEF Buffered
<1>6. ASSUME (\E m \in dead : ApiDeleteDead(m)) \/ ApiDeleteAllDead, UNCHANGED revivalVars
      PROVE  Firm(id)'
  <2>0. "deleted" \in Reasons /\ released \in [Ids -> SUBSET Reasons]
    BY DEF TypeOK, StoreTypeOK, Reasons
  <2>1. \A m \in dead : m.id = id => m \in dead'
    <3>1. CASE \E m \in dead : ApiDeleteDead(m)
      <4>1. PICK m \in dead : dead' = dead \ {m} /\ LetGo({m.id}, "deleted")
        BY <3>1 DEF ApiDeleteDead
      <4>2. id # m.id
        BY <4>1, <1>b, <2>0, LetGoType
      <4> QED
        BY <4>1, <4>2
    <3>2. CASE ApiDeleteAllDead
      <4>1. LetGo({m.id : m \in dead}, "deleted")
        BY <3>2 DEF ApiDeleteAllDead
      <4>2. id \notin {m.id : m \in dead}
        BY <4>1, <1>b, <2>0, LetGoType
      <4> QED
        BY <4>2
    <3> QED
      BY <1>6, <3>1, <3>2
  <2>2. \A m : Overtaken(m)' => Overtaken(m)
    BY <1>6 DEF Overtaken, revivalVars
  <2>3. outbox' = outbox
    BY <1>6 DEF ApiDeleteDead, ApiDeleteAllDead
  <2> QED
    BY <1>c, <2>1, <2>2, <2>3, BuriedStays DEF Buffered
<1> QED
  BY <1>1, <1>2, <1>4, <1>5, <1>6 DEF DeadStep, RevivalProceeds

LEMMA LossJobStep ==
    ASSUME TypeOK, LossInv, JobStep, NEW id \in accepted', released'[id] = {}
    PROVE  Firm(id)'
<1>a. UNCHANGED <<outbox, accepted, sent>> /\ dead \subseteq dead'
  BY JobStepFrame DEF JobStep, runVars
<1>b. id \in Ids /\ Firm(id)
  BY <1>a, ReasonsGrow DEF Next, TypeOK, StoreTypeOK, LossInv, Kept
<1>c. \A j \in jobs : j \in Job
  BY DEF TypeOK, JobTypeOK
<1>i. UNCHANGED revivalVars /\ (Buried(id) => Buried(id)')
  <2>1. UNCHANGED revivalVars
    BY DEF JobStep
  <2> QED
    BY <1>a, <2>1, BuriedStays DEF revivalVars, Overtaken
<1>d. ASSUME schedule \subseteq schedule', inQueue' = inQueue,
             InHand(id) => InHand(id)' \/ Buried(id)' \/ Waiting(id)'
      PROVE  Firm(id)'
  BY <1>a, <1>b, <1>d, <1>i DEF Firm, Queued, Buffered, Waiting, Sent
\* A job that is replaced by one with the same id still at work holds the message on.
<1>e. ASSUME NEW j \in jobs, NEW k, Replace(j, k), k.msg.id = j.msg.id, Unsettled(k) \/ ~Unsettled(j)
      PROVE  InHand(id) => InHand(id)'
  BY <1>e DEF Replace, InHand, Unsettled
\* A job may settle once its message is in the schedule or the dead letters, or not accounted for.
<1>f. ASSUME NEW j \in jobs, Settle(j), j.msg.id = id => Buried(id)' \/ Waiting(id)'
      PROVE  InHand(id) => InHand(id)' \/ Buried(id)' \/ Waiting(id)'
  <2>1. PICK k \in Job : Replace(j, k) /\ k.msg = j.msg
    BY <1>f, SettleEffect
  <2> QED
    BY <1>f, <2>1 DEF Replace, InHand, Unsettled
<1>g. ASSUME NEW j \in jobs, NEW c \in Exceptions, HandleError(j, c)
      PROVE  InHand(id) => InHand(id)'
  <2>1. PICK k \in Job : Replace(j, k) /\ k.pc \in {"killing", "scheduling"} /\ k.msg.id = j.msg.id
    BY <1>g, HandleErrorEffect
  <2> QED
    BY <1>e, <2>1 DEF Unsettled
\* A freshly inserted item is firm: no run has enqueued it.
<1>h. ASSUME NEW j \in jobs, InsertMessageOf(j)
      PROVE  schedule \subseteq schedule' /\ (j.msg.id = id => Waiting(id)')
  <2>1. PICK i \in Items, when \in {"later", "never"} : InsertItem(i, j.msg, when)
    BY <1>h DEF InsertMessageOf
  <2>2. PICK s : s = [item |-> i, msg |-> j.msg, due |-> when]
    OBVIOUS
  <2>3. /\ schedule' = schedule \cup {s} /\ s.item = i /\ s.msg = j.msg
        /\ \A t \in Sent : t.item # i
    BY <2>1, <2>2 DEF InsertItem, Fresh, Referenced
  <2> QED
    BY <1>a, <2>3 DEF Waiting, Sent
<1>1. ASSUME NEW w \in Workers, Receive(w)
      PROVE  Firm(id)'
  <2>1. PICK m \in BagToSet(inQueue) :
            /\ inQueue' = inQueue (-) SetToBag({m})
            /\ jobs' = jobs \cup {[worker |-> w, pc |-> "registering", raw |-> m,
                                   msg |-> Archived(m), caught |-> "nothing", registered |-> FALSE]}
    BY <1>1 DEF Receive
  <2>2. PICK k : k = [worker |-> w, pc |-> "registering", raw |-> m, msg |-> Archived(m),
                      caught |-> "nothing", registered |-> FALSE]
    OBVIOUS
  <2>3. jobs' = jobs \cup {k} /\ k.msg = Archived(m) /\ k.pc = "registering"
    BY <2>1, <2>2
  <2>4. m \in Message /\ Archived(m).id = m.id /\ MessageBag(inQueue)
    BY ArchivedType DEF TypeOK, StoreTypeOK, JobTypeOK, MessageBag, BagToSet
  <2>5. BagToSet(inQueue) \subseteq BagToSet(inQueue') \cup {m}
    BY <2>1, <2>4, BagRemoveElements
  <2>6. Queued(id) \/ InHand(id) => Queued(id)' \/ InHand(id)'
    BY <2>3, <2>4, <2>5 DEF Queued, InHand, Unsettled
  <2> QED
    BY <1>1, <1>a, <1>b, <1>i, <2>6 DEF Receive, Firm, Buffered, Waiting, Sent
<1>2. ASSUME NEW j \in jobs, MovesOn(j)
      PROVE  Firm(id)'
  <2>1. InHand(id) => InHand(id)'
    BY <1>2, <1>e, MovesOnEffect
  <2> QED
    BY <1>2, <1>d, <2>1 DEF MovesOn, Registered, ReplyRetryAfter, ReplyRetryDate, Unregistered, storeVars
<1>3. ASSUME NEW j \in jobs, RegisterFails(j) \/ ReplyFailed(j) \/ ReplyThrown(j)
      PROVE  Firm(id)'
  BY <1>3, <1>d, <1>g DEF RegisterFails, ReplyFailed, ReplyThrown, Exceptions, storeVars
<1>4. ASSUME NEW j \in jobs, ReplyProcessed(j) \/ ReplyIgnored(j)
      PROVE  Firm(id)'
  <2>1. j.msg.id # id
    BY <1>4, <1>b, LetGoType DEF ReplyProcessed, ReplyIgnored, TypeOK, StoreTypeOK, Reasons
  <2> QED
    BY <1>4, <1>d, <1>f, <2>1 DEF ReplyProcessed, ReplyIgnored
<1>5. ASSUME NEW j \in jobs, Scheduled(j)
      PROVE  Firm(id)'
  BY <1>5, <1>d, <1>f, <1>h DEF Scheduled
<1>6. ASSUME NEW j \in jobs, Killed(j)
      PROVE  Firm(id)'
  <2>1. j.msg.id = id => ~Overtaken(j.msg)
    BY <1>6, <1>b, LetGoType DEF Killed, DiesAgain, TypeOK, StoreTypeOK, Reasons
  <2>2. ~Overtaken(j.msg) => ~Overtaken(j.msg)'
    BY <1>i, OvertakenSame DEF SameKey
  <2>3. j.msg.id = id => Buried(id)'
    BY <1>6, <2>1, <2>2 DEF Killed, Buried
  <2> QED
    BY <1>6, <1>d, <1>f, <2>3 DEF Killed
<1>7. ASSUME NEW j \in jobs, KillDuplicate(j)
      PROVE  Firm(id)'
  <2>1. CASE j.caught # "nothing"
    <3>1. PICK m \in dead : SameKey(m, j.msg)
      BY <1>7 DEF KillDuplicate, KeyTaken
    <3>2. j.msg.id = id => ~Overtaken(j.msg)
      BY <1>7, <1>b, <2>1, LetGoType DEF KillDuplicate, DiesAgain, TypeOK, StoreTypeOK, Reasons
    <3>3. j.msg.id = id => Buried(id)
      BY <1>i, <3>1, <3>2, OvertakenSame DEF Buried, SameKey
    <3> QED
      BY <1>7, <1>d, <1>f, <1>i, <2>1, <3>3 DEF KillDuplicate
  <2>2. CASE j.caught = "nothing"
    BY <1>7, <1>d, <1>g, <2>2 DEF KillDuplicate, Exceptions
  <2> QED
    BY <2>1, <2>2
<1>8. ASSUME NEW j \in jobs, InsertFails(j)
      PROVE  Firm(id)'
  <2>1. schedule \subseteq schedule' /\ inQueue' = inQueue
    BY <1>8, <1>h DEF InsertFails
  <2>2. CASE j.caught # "nothing"
    <3>1. Settle(j) /\ j.msg.id # id
      BY <1>8, <1>b, <2>2, LetGoType DEF InsertFails, StoreRejects, TypeOK, StoreTypeOK, Reasons
    <3> QED
      BY <1>d, <1>f, <2>1, <3>1
  <2>3. CASE j.caught = "nothing"
    BY <1>8, <1>d, <1>g, <2>1, <2>3 DEF InsertFails, StoreRejects, Exceptions
  <2> QED
    BY <2>2, <2>3
<1>9. ASSUME NEW j \in jobs, Acked(j)
      PROVE  Firm(id)'
  <2>1. InHand(id) => InHand(id)'
    BY <1>9 DEF Acked, InHand, Unsettled
  <2> QED
    BY <1>9, <1>d, <2>1 DEF Acked, storeVars
<1> QED
  BY <1>1, <1>2, <1>3, <1>4, <1>5, <1>6, <1>7, <1>8, <1>9 DEF JobStep, JobProceeds, MovesOn

(* The hub never loses its last copy of an accepted message without giving *)
(* a reason; NoUnexplainedLossHolds (in OneCopyProofs) adds what the       *)
(* reasons given are worth.                                                *)
LEMMA LossInvHolds == Spec => []LossInv
<1>1. Init => LossInv
  BY DEF Init, StoreInit, RunInit, RevivalInit, JobInit, LossInv, Kept, ItemsAgree,
         Referenced, Sent, RawKeepsId, RevivalsClear
<1>2. TypeOK /\ LossInv /\ [Next]_vars => LossInv'
  <2>1. ASSUME TypeOK, LossInv, Next
        PROVE  LossInv'
    <3>1. ItemsAgree' /\ RawKeepsId' /\ RevivalsClear'
      BY <2>1, AgreeStep, RawStep, ClearStep DEF LossInv
    <3>2. Kept'
      BY <2>1, LossStoreStep, LossRunStep, LossDeadStep, LossJobStep DEF Next, Kept
    <3> QED
      BY <3>1, <3>2 DEF LossInv
  <2>2. CASE UNCHANGED vars
    BY <2>2 DEF vars, storeVars, runVars, revivalVars, jobVars, LossInv, Kept, Firm,
                Queued, Buffered, Waiting, Buried, Overtaken, InHand, Unsettled, ItemsAgree,
                Referenced, Sent, RawKeepsId, RevivalsClear
  <2> QED
    BY <2>1, <2>2
<1> QED
  BY <1>1, <1>2, TypeCorrect, PTL DEF Spec

=============================================================================
