---------------------------- MODULE ShutdownProofs ----------------------------
(***************************************************************************)
(* Proofs about Shutdown, for any number of messages and slots: what a     *)
(* stop keeps, and what it hands back to the broker.                       *)
(***************************************************************************)
EXTENDS Shutdown, FiniteSetTheorems, TLAPS

\* The delete of one of id's documents has been issued and will be applied.
Doomed(id) == \E m \in moving : m.id = id /\ m.sent

\* What remains of id even if that delete is applied and settled jobs are acknowledged.
Left(id) ==
    \/ ready[id] > 0
    \/ shelf[id] > 1
    \/ shelf[id] > 0 /\ ~Doomed(id)
    \/ \E j \in jobs : j.id = id /\ j.held /\ j.pc \in {"posting", "storing"}
    \/ id \in processed \cup late \cup forsaken

\* The poll's batch and the item it works on are there.
PollInv ==
    /\ \A id \in due : shelf[id] > 0
    /\ \A m \in moving : m.id \notin due /\ (m.sent => shelf[m.id] > 0)
    /\ \A m, n \in moving : m = n

\* No message in hand when the stop began is left after the drain.
BegunInv == phase \in {"cancelling", "stopped", "closed"} => \A j \in jobs : ~j.begun

LeftInv == \A id \in accepted : Left(id)

Inv == TypeOK /\ PollInv /\ LeftInv /\ BegunInv

-----------------------------------------------------------------------------

LEMMA InitInv == Init => Inv
<1> SUFFICES ASSUME Init PROVE Inv
    OBVIOUS
<1> USE DEF Init
<1>1. TypeOK
    BY FS_EmptySet DEF TypeOK, Phases, Job
<1>2. PollInv /\ LeftInv /\ BegunInv
    BY DEF PollInv, LeftInv, BegunInv
<1> QED BY <1>1, <1>2 DEF Inv

\* Replacing one job by another keeps the set of jobs finite and typed.
LEMMA ReplaceType ==
    ASSUME TypeOK, NEW j \in jobs, NEW k \in Job, Replace(j, k)
    PROVE  jobs' \subseteq Job /\ IsFiniteSet(jobs')
<1>1. IsFiniteSet(jobs \ {j})
    BY FS_Subset, jobs \ {j} \subseteq jobs DEF TypeOK
<1>2. IsFiniteSet((jobs \ {j}) \cup {k})
    BY <1>1, FS_AddElement
<1> QED BY <1>2 DEF Replace, TypeOK

\* The image of a finite set under a function is finite.
LEMMA FiniteImage ==
    ASSUME NEW S, NEW f, f = [x \in S |-> f[x]], IsFiniteSet(S)
    PROVE  IsFiniteSet({f[x] : x \in S})
<1> DEFINE T == {f[x] : x \in S}
<1>1. f \in Surjection(S, T)
    BY DEF Surjection
<1> QED BY <1>1, FS_Surjection

\* The jobs of which the broker waits for an acknowledgement are a number.
LEMMA HeldCopiesNat ==
    ASSUME TypeOK, NEW id \in Ids
    PROVE  /\ HeldCopies(id) \in Nat
           /\ (\E j \in jobs : j.held /\ j.id = id) => HeldCopies(id) > 0
<1> DEFINE H == {j \in jobs : j.held /\ j.id = id}
<1>1. IsFiniteSet(H)
    BY FS_Subset, H \subseteq jobs DEF TypeOK
<1>2. Cardinality(H) \in Nat
    BY <1>1, FS_CardinalityType
<1>3. H # {} => Cardinality(H) # 0
    BY <1>1, FS_EmptySet
<1> QED BY <1>2, <1>3 DEF HeldCopies

-----------------------------------------------------------------------------

\* Every step keeps the types; a delete needs what PollInv says of its document.
LEMMA TypeStep == TypeOK /\ PollInv /\ [Next]_vars => TypeOK'
<1> SUFFICES ASSUME TypeOK, PollInv, [Next]_vars PROVE TypeOK'
    OBVIOUS
<1>1. CASE \E id \in Ids : Publish(id) \/ PublishElsewhere(id)
    BY <1>1 DEF TypeOK, Publish, PublishElsewhere
<1>2. CASE \E id \in Ids : ScheduleNow(id)
    BY <1>2 DEF TypeOK, ScheduleNow, Advance, MongoOpen
<1>3. ASSUME NEW s \in Slots, NEW id \in Ids, Receive(s, id) PROVE TypeOK'
    <2> DEFINE new == [slot |-> s, id |-> id, pc |-> "posting", caught |-> FALSE,
                       sent |-> FALSE, begun |-> FALSE, held |-> TRUE]
    <2>1. new \in Job
        BY DEF Job
    <2>2. IsFiniteSet(jobs \cup {new})
        BY FS_AddElement DEF TypeOK
    <2>3. ready' \in [Ids -> Nat]
        BY <1>3 DEF Receive, TypeOK
    <2> QED BY <1>3, <2>1, <2>2, <2>3 DEF Receive, TypeOK
<1>4. ASSUME NEW j \in jobs, ReplyProcessed(j) PROVE TypeOK'
    <2> DEFINE k == [j EXCEPT !.pc = "acking"]
    <2>1. k \in Job /\ j.id \in Ids
        BY DEF Job, TypeOK
    <2>2. Replace(j, k)
        BY <1>4 DEF ReplyProcessed, Settle
    <2>3. jobs' \subseteq Job /\ IsFiniteSet(jobs')
        BY <2>1, <2>2, ReplaceType
    <2> QED BY <1>4, <2>1, <2>3 DEF ReplyProcessed, TypeOK
<1>5. ASSUME NEW j \in jobs, NEW c \in BOOLEAN, Store(j, c)
      PROVE  jobs' \subseteq Job /\ IsFiniteSet(jobs')
    <2> DEFINE k == [j EXCEPT !.pc = "storing", !.caught = c, !.sent = MongoOpen]
    <2>1. k \in Job
        BY DEF Job, TypeOK, MongoOpen
    <2> QED BY <1>5, <2>1, ReplaceType DEF Store
<1>6. ASSUME NEW j \in jobs, ReplyFailed(j) PROVE TypeOK'
    BY <1>5, <1>6 DEF ReplyFailed, TypeOK
<1>7. ASSUME NEW j \in jobs, Settle(j) PROVE jobs' \subseteq Job /\ IsFiniteSet(jobs')
    <2>1. [j EXCEPT !.pc = "acking"] \in Job
        BY DEF Job, TypeOK
    <2> QED BY <1>7, <2>1, ReplaceType DEF Settle
<1>8. ASSUME NEW j \in jobs, Stored(j) PROVE TypeOK'
    <2>1. j.id \in Ids
        BY DEF TypeOK, Job
    <2>2. shelf' \in [Ids -> Nat]
        BY <1>8, <2>1 DEF Stored, Shelve, TypeOK
    <2>3. jobs' \subseteq Job /\ IsFiniteSet(jobs')
        BY <1>7, <1>8 DEF Stored
    <2> QED BY <1>8, <2>2, <2>3 DEF Stored, TypeOK
<1>9. ASSUME NEW j \in jobs, StoreRejected(j) PROVE TypeOK'
    <2>1. j.id \in Ids
        BY DEF TypeOK, Job
    <2>2. shelf' \in [Ids -> Nat]
        BY <1>9, <2>1 DEF StoreRejected, Shelve, TypeOK
    <2>3. jobs' \subseteq Job /\ IsFiniteSet(jobs') /\ forsaken' \subseteq Ids
        BY <1>5, <1>7, <1>9, <2>1 DEF StoreRejected, GiveUp, TypeOK
    <2> QED BY <1>9, <2>2, <2>3 DEF StoreRejected, TypeOK
<1>10. ASSUME NEW j \in jobs, Acknowledge(j) PROVE TypeOK'
    <2>1. [j EXCEPT !.pc = "over"] \in Job
        BY DEF Job, TypeOK
    <2>2. IsFiniteSet(jobs \ {j})
        BY FS_Subset, jobs \ {j} \subseteq jobs DEF TypeOK
    <2>3. jobs' \subseteq Job /\ IsFiniteSet(jobs')
        BY <1>10, <2>1, <2>2, ReplaceType DEF Acknowledge, TypeOK
    <2> QED BY <1>10, <2>3 DEF Acknowledge, TypeOK
<1>11. ASSUME NEW m \in moving, Deleted(m) \/ DeleteRejected(m) PROVE TypeOK'
    <2>1. m.id \in Ids /\ (m.sent => shelf[m.id] > 0)
        BY DEF TypeOK, PollInv
    <2>2. shelf' \in [Ids -> Nat]
        BY <1>11, <2>1 DEF Deleted, DeleteRejected, Unshelve, TypeOK
    <2> QED BY <1>11, <2>2 DEF Deleted, DeleteRejected, TypeOK
<1>12. CASE StopHub
    <2> DEFINE f == [j \in jobs |-> [j EXCEPT !.begun = TRUE]]
    <2>1. IsFiniteSet({f[j] : j \in jobs})
        <3>1. f = [j \in jobs |-> f[j]] /\ IsFiniteSet(jobs)
            BY DEF TypeOK
        <3> HIDE DEF f
        <3> QED BY <3>1, FiniteImage
    <2>2. \A j \in jobs : [j EXCEPT !.begun = TRUE] \in Job
        BY DEF TypeOK, Job
    <2> QED BY <1>12, <2>1, <2>2 DEF StopHub, TypeOK, Phases
<1>13. CASE ChannelClosed
    <2> DEFINE f == [j \in jobs |-> [j EXCEPT !.held = FALSE]]
    <2>1. IsFiniteSet({f[j] : j \in jobs})
        <3>1. f = [j \in jobs |-> f[j]] /\ IsFiniteSet(jobs)
            BY DEF TypeOK
        <3> HIDE DEF f
        <3> QED BY <3>1, FiniteImage
    <2>2. \A j \in jobs : [j EXCEPT !.held = FALSE] \in Job
        BY DEF TypeOK, Job
    <2>3. ready' \in [Ids -> Nat]
        BY <1>13, HeldCopiesNat DEF ChannelClosed, TypeOK
    <2> QED BY <1>13, <2>1, <2>2, <2>3 DEF ChannelClosed, TypeOK, Phases
<1>14. CASE Poll \/ CancelConsumer \/ ConsumerCancelled \/ Connect \/ Disconnect \/ WebClosed
    BY <1>14 DEF Poll, CancelConsumer, ConsumerCancelled, Connect, Disconnect, WebClosed,
                 TypeOK, Phases
<1>15. CASE UNCHANGED vars
    BY <1>15 DEF vars, TypeOK
<1> QED BY <1>1, <1>2, <1>3, <1>4, <1>6, <1>8, <1>9, <1>10, <1>11, <1>12, <1>13, <1>14, <1>15
        DEF Next

-----------------------------------------------------------------------------

\* Documents only go when their own delete is applied.
LEMMA PollStep == TypeOK /\ PollInv /\ [Next]_vars => PollInv'
<1> SUFFICES ASSUME TypeOK, PollInv, [Next]_vars PROVE PollInv'
    OBVIOUS
<1> USE DEF PollInv
<1>1. CASE UNCHANGED <<shelf, due, moving>>
    BY <1>1
<1>2. ASSUME NEW j \in jobs, Stored(j) \/ StoreRejected(j) PROVE PollInv'
    <2>1. j.id \in Ids
        BY DEF TypeOK, Job
    <2>2. UNCHANGED <<due, moving>>
        BY <1>2 DEF Stored, StoreRejected
    <2>3. \A id \in Ids : shelf[id] > 0 => shelf'[id] > 0
        <3>1. UNCHANGED shelf \/ shelf' = [shelf EXCEPT ![j.id] = @ + 1]
            BY <1>2 DEF Stored, StoreRejected, Shelve
        <3>2. shelf \in [Ids -> Nat]
            BY DEF TypeOK
        <3> QED BY <2>1, <3>1, <3>2
    <2>4. due \subseteq Ids /\ \A m \in moving : m.id \in Ids
        BY DEF TypeOK
    <2> QED BY <2>2, <2>3, <2>4
<1>3. ASSUME NEW id \in Ids, ScheduleNow(id) PROVE PollInv'
    BY <1>3 DEF ScheduleNow, Advance
<1>4. ASSUME NEW m \in moving, Deleted(m) \/ DeleteRejected(m) PROVE PollInv'
    <2>1. m.id \in Ids /\ m.id \notin due
        BY DEF TypeOK
    <2>2. moving' = {} /\ due' \subseteq due
        BY <1>4 DEF Deleted, DeleteRejected
    <2>3. \A id \in Ids : id # m.id => shelf'[id] = shelf[id]
        BY <1>4, <2>1 DEF Deleted, DeleteRejected, Unshelve, TypeOK
    <2> QED BY <2>1, <2>2, <2>3 DEF TypeOK
<1>5. CASE Poll
    BY <1>5 DEF Poll
<1>6. UNCHANGED <<shelf, due, moving>> \/ (\E j \in jobs : Stored(j) \/ StoreRejected(j))
        \/ (\E id \in Ids : ScheduleNow(id)) \/ Poll
        \/ (\E m \in moving : Deleted(m) \/ DeleteRejected(m))
    BY DEF Next, vars, Publish, PublishElsewhere, Receive, ReplyProcessed, ReplyFailed,
           Acknowledge, StopHub, CancelConsumer, ConsumerCancelled, ChannelClosed,
           Connect, Disconnect, WebClosed
<1> QED BY <1>1, <1>2, <1>3, <1>4, <1>5, <1>6

\* The drain waits for every message that was in hand when the stop began.
LEMMA BegunStep == TypeOK /\ BegunInv /\ [Next]_vars => BegunInv'
<1> SUFFICES ASSUME TypeOK, BegunInv, [Next]_vars PROVE BegunInv'
    OBVIOUS
<1> USE DEF BegunInv
<1>1. ASSUME UNCHANGED phase, \A k \in jobs' : (\E j \in jobs : k.begun = j.begun) \/ ~k.begun
      PROVE  BegunInv'
    BY <1>1
<1>2. ASSUME NEW j \in jobs, NEW k, Replace(j, k), k.begun = j.begun, UNCHANGED phase
      PROVE  BegunInv'
    BY <1>1, <1>2 DEF Replace
<1>3. CASE UNCHANGED <<phase, jobs>>
    BY <1>3
<1>4. ASSUME NEW s \in Slots, NEW id \in Ids, Receive(s, id) PROVE BegunInv'
    BY <1>1, <1>4 DEF Receive
<1>5. ASSUME NEW j \in jobs, Settle(j), UNCHANGED phase PROVE BegunInv'
    BY <1>2, <1>5 DEF Settle, TypeOK, Job
<1>6. ASSUME NEW j \in jobs, NEW c, Store(j, c), UNCHANGED phase PROVE BegunInv'
    BY <1>2, <1>6 DEF Store, TypeOK, Job
<1>7. ASSUME NEW j \in jobs, Acknowledge(j) PROVE BegunInv'
    <2>1. [j EXCEPT !.pc = "over"].begun = j.begun
        BY DEF TypeOK, Job
    <2> QED BY <1>1, <1>2, <1>7, <2>1 DEF Acknowledge
<1>8. ASSUME NEW j \in jobs, ReplyProcessed(j) \/ ReplyFailed(j) \/ Stored(j) \/ StoreRejected(j)
      PROVE  BegunInv'
    BY <1>5, <1>6, <1>8 DEF ReplyProcessed, ReplyFailed, Stored, StoreRejected, GiveUp
<1>9. CASE StopHub
    BY <1>9 DEF StopHub
<1>10. CASE CancelConsumer
    BY <1>10 DEF CancelConsumer, Drained
<1>11. CASE ConsumerCancelled
    BY <1>11 DEF ConsumerCancelled
<1>12. CASE ChannelClosed
    BY <1>12 DEF ChannelClosed, TypeOK, Job
<1>13. UNCHANGED <<phase, jobs>> \/ (\E s \in Slots, id \in Ids : Receive(s, id))
         \/ (\E j \in jobs : \/ ReplyProcessed(j) \/ ReplyFailed(j) \/ Stored(j)
                             \/ StoreRejected(j) \/ Acknowledge(j))
         \/ StopHub \/ CancelConsumer \/ ConsumerCancelled \/ ChannelClosed
    BY DEF Next, vars, Publish, PublishElsewhere, ScheduleNow, Poll, Deleted, DeleteRejected,
           Connect, Disconnect, WebClosed
<1> QED BY <1>3, <1>4, <1>7, <1>8, <1>9, <1>10, <1>11, <1>12, <1>13

-----------------------------------------------------------------------------

\* A step that takes nothing from what is left keeps it.
LEMMA LeftGrows ==
    ASSUME TypeOK, NEW id \in Ids, Left(id),
           ready'[id] >= ready[id], shelf'[id] >= shelf[id],
           ready'[id] \in Nat, shelf'[id] \in Nat,
           Doomed(id)' => Doomed(id),
           \A j \in jobs : j.id = id /\ j.held /\ j.pc \in {"posting", "storing"} =>
               \E k \in jobs' : k.id = id /\ k.held /\ k.pc \in {"posting", "storing"},
           processed \cup late \cup forsaken \subseteq processed' \cup late' \cup forsaken'
    PROVE  Left(id)'
<1>1. ready[id] \in Nat /\ shelf[id] \in Nat
    BY DEF TypeOK
<1>2. CASE ready[id] > 0 \/ shelf[id] > 1 \/ (shelf[id] > 0 /\ ~Doomed(id))
    BY <1>1, <1>2 DEF Left
<1>3. CASE \E j \in jobs : j.id = id /\ j.held /\ j.pc \in {"posting", "storing"}
    BY <1>3 DEF Left
<1>4. CASE id \in processed \cup late \cup forsaken
    BY <1>4 DEF Left
<1> QED BY <1>2, <1>3, <1>4 DEF Left

\* Whatever step is taken, what is left of a message remains, somewhere.
LEMMA LeftStep == TypeOK /\ TypeOK' /\ PollInv /\ LeftInv /\ [Next]_vars => LeftInv'
<1> SUFFICES ASSUME TypeOK, TypeOK', PollInv, LeftInv, [Next]_vars,
                    NEW id \in Ids, id \in accepted'
             PROVE  Left(id)'
    BY DEF LeftInv, TypeOK
<1> DEFINE Live(j) == j.id = id /\ j.held /\ j.pc \in {"posting", "storing"}
<1>0. /\ ready[id] \in Nat /\ shelf[id] \in Nat /\ ready'[id] \in Nat /\ shelf'[id] \in Nat
      /\ ready \in [Ids -> Nat] /\ shelf \in [Ids -> Nat] /\ jobs \subseteq Job
    BY DEF TypeOK
<1>1. ASSUME NEW i \in Ids, Publish(i) \/ PublishElsewhere(i) PROVE Left(id)'
    <2>1. CASE i = id
        BY <1>0, <1>1, <2>1 DEF Publish, PublishElsewhere, Left
    <2>2. CASE i # id
        <3>1. id \in accepted /\ UNCHANGED <<ready[id], shelf, moving, jobs, processed, forsaken>>
              /\ late \subseteq late'
            BY <1>0, <1>1, <2>2 DEF Publish, PublishElsewhere
        <3> QED BY <1>0, <3>1, LeftGrows DEF LeftInv, Doomed
    <2> QED BY <2>1, <2>2
<1>2. SUFFICES ASSUME \A i \in Ids : ~Publish(i) /\ ~PublishElsewhere(i)
               PROVE  Left(id)'
    BY <1>1
<1>3. accepted' = accepted /\ Left(id)
    <2>1. accepted' = accepted
        BY <1>2 DEF Next, vars, ScheduleNow, Poll, Deleted, DeleteRejected, Receive,
               ReplyProcessed, ReplyFailed, Stored, StoreRejected, Acknowledge, StopHub,
               CancelConsumer, ConsumerCancelled, ChannelClosed, Connect, Disconnect, WebClosed
    <2> QED BY <2>1 DEF LeftInv
<1>4. ASSUME NEW s \in Slots, NEW i \in Ids, Receive(s, i) PROVE Left(id)'
    <2>1. CASE i = id
        <3>1. \E j \in jobs' : Live(j)
            <4> DEFINE new == [slot |-> s, id |-> i, pc |-> "posting", caught |-> FALSE,
                               sent |-> FALSE, begun |-> FALSE, held |-> TRUE]
            <4>1. new \in jobs'
                BY <1>4 DEF Receive
            <4>2. Live(new)
                BY <2>1
            <4> QED BY <4>1, <4>2
        <3> QED BY <3>1 DEF Left
    <2>2. CASE i # id
        <3>1. ready'[id] = ready[id] /\ jobs \subseteq jobs'
              /\ UNCHANGED <<shelf, moving, processed, late, forsaken>>
            BY <1>0, <1>4, <2>2 DEF Receive
        <3> QED BY <1>0, <1>3, <3>1, LeftGrows DEF Doomed
    <2> QED BY <2>1, <2>2
<1>5. ASSUME NEW j \in jobs, ReplyProcessed(j) PROVE Left(id)'
    <2>1. CASE j.id = id
        BY <1>5, <2>1 DEF ReplyProcessed, Left
    <2>2. CASE j.id # id
        <3>1. \A k \in jobs : Live(k) => k \in jobs'
            BY <1>5, <2>2 DEF ReplyProcessed, Settle, Replace
        <3>2. UNCHANGED <<ready, shelf, moving, late, forsaken>> /\ processed \subseteq processed'
            BY <1>5 DEF ReplyProcessed
        <3> QED BY <1>0, <1>3, <3>1, <3>2, LeftGrows DEF Doomed
    <2> QED BY <2>1, <2>2
<1>6. ASSUME NEW j \in jobs, NEW c \in BOOLEAN, Store(j, c), j.pc \in {"posting", "storing"}
      PROVE  \A k \in jobs : Live(k) => \E l \in jobs' : Live(l)
    <2> DEFINE new == [j EXCEPT !.pc = "storing", !.caught = c, !.sent = MongoOpen]
    <2>1. new \in jobs' /\ jobs \ {j} \subseteq jobs'
        BY <1>6 DEF Store, Replace
    <2>2. Live(j) => Live(new)
        BY <1>0 DEF Job
    <2> QED BY <2>1, <2>2
<1>7. ASSUME NEW j \in jobs, ReplyFailed(j) PROVE Left(id)'
    <2>1. \A k \in jobs : Live(k) => \E l \in jobs' : Live(l)
        BY <1>6, <1>7 DEF ReplyFailed
    <2>2. UNCHANGED <<ready, shelf, moving, processed, late, forsaken>>
        BY <1>7 DEF ReplyFailed
    <2> QED BY <1>0, <1>3, <2>1, <2>2, LeftGrows DEF Doomed
<1>8. ASSUME NEW j \in jobs, j.id # id, Settle(j) PROVE \A k \in jobs : Live(k) => k \in jobs'
    BY <1>8 DEF Settle, Replace
<1>9. ASSUME NEW j \in jobs, Stored(j) PROVE Left(id)'
    <2>1. UNCHANGED <<ready, moving, processed, late, forsaken>>
        BY <1>9 DEF Stored
    <2>2. CASE j.id = id
        <3>1. shelf'[id] = shelf[id] + 1
            BY <1>0, <1>9, <2>2 DEF Stored, Shelve
        <3>2. Doomed(id)' => shelf[id] > 0
            BY <2>1 DEF Doomed, PollInv
        <3> QED BY <1>0, <3>1, <3>2 DEF Left
    <2>3. CASE j.id # id
        <3>1. \A k \in jobs : Live(k) => k \in jobs'
            BY <1>8, <1>9, <2>3 DEF Stored
        <3>2. shelf'[id] = shelf[id]
            BY <1>0, <1>9, <2>3 DEF Stored, Shelve
        <3> QED BY <1>0, <1>3, <2>1, <3>1, <3>2, LeftGrows DEF Doomed
    <2> QED BY <2>2, <2>3
<1>10. ASSUME NEW j \in jobs, StoreRejected(j) PROVE Left(id)'
    <2>1. UNCHANGED <<ready, moving, processed, late>> /\ forsaken \subseteq forsaken'
        BY <1>10 DEF StoreRejected, GiveUp
    <2>2. shelf'[id] >= shelf[id]
        <3>1. j.id \in Ids
            BY <1>0 DEF Job
        <3>2. UNCHANGED shelf \/ shelf' = [shelf EXCEPT ![j.id] = @ + 1]
            BY <1>10 DEF StoreRejected, Shelve
        <3> QED BY <1>0, <3>1, <3>2
    <2>3. CASE j.caught /\ j.id = id
        BY <1>10, <2>3 DEF StoreRejected, GiveUp, Left
    <2>4. CASE j.caught /\ j.id # id
        <3>1. \A k \in jobs : Live(k) => k \in jobs'
            BY <1>8, <1>10, <2>4 DEF StoreRejected, GiveUp
        <3> QED BY <1>0, <1>3, <2>1, <2>2, <3>1, LeftGrows DEF Doomed
    <2>5. CASE ~j.caught
        <3>1. \A k \in jobs : Live(k) => \E l \in jobs' : Live(l)
            BY <1>6, <1>10, <2>5 DEF StoreRejected
        <3> QED BY <1>0, <1>3, <2>1, <2>2, <3>1, LeftGrows DEF Doomed
    <2> QED BY <2>3, <2>4, <2>5
<1>11. ASSUME NEW j \in jobs, Acknowledge(j) PROVE Left(id)'
    <2>1. \A k \in jobs : Live(k) => k \in jobs'
        BY <1>11 DEF Acknowledge, Replace
    <2>2. UNCHANGED <<ready, shelf, moving, processed, late, forsaken>>
        BY <1>11 DEF Acknowledge
    <2> QED BY <1>0, <1>3, <2>1, <2>2, LeftGrows DEF Doomed
<1>12. ASSUME NEW i \in Ids, ScheduleNow(i) PROVE Left(id)'
    <2>1. UNCHANGED <<shelf, jobs, processed, late, forsaken>> /\ moving = {}
        BY <1>12 DEF ScheduleNow
    <2>2. CASE i = id /\ ~QueueStopped
        <3>1. ready'[id] > 0
            BY <1>0, <1>12, <2>2 DEF ScheduleNow
        <3> QED BY <3>1 DEF Left
    <2>3. CASE i # id \/ QueueStopped
        <3>1. ~Doomed(id)'
            <4>1. moving' = {[id |-> i, sent |-> MongoOpen]}
                BY <1>12 DEF ScheduleNow
            <4>2. \A m \in moving' : m.id = i /\ m.sent = MongoOpen
                BY <4>1
            <4>3. QueueStopped => MongoOpen = FALSE
                BY DEF QueueStopped, MongoOpen
            <4> QED BY <2>3, <4>2, <4>3 DEF Doomed
        <3>2. ready'[id] = ready[id]
            BY <1>0, <1>12, <2>3 DEF ScheduleNow
        <3> QED BY <1>0, <1>3, <2>1, <3>1, <3>2, LeftGrows
    <2> QED BY <2>2, <2>3
<1>13. ASSUME NEW m \in moving, Deleted(m) \/ DeleteRejected(m) PROVE Left(id)'
    <2>1. UNCHANGED <<ready, jobs, processed, late, forsaken>> /\ moving' = {}
        BY <1>13 DEF Deleted, DeleteRejected
    <2>2. CASE shelf'[id] = shelf[id]
        BY <1>0, <1>3, <2>1, <2>2, LeftGrows DEF Doomed
    <2>3. CASE shelf'[id] # shelf[id]
        <3>1. m.id \in Ids
            BY DEF TypeOK
        <3>2. m.id = id /\ m.sent /\ shelf'[id] = shelf[id] - 1
            BY <1>0, <1>13, <2>3, <3>1 DEF Deleted, DeleteRejected, Unshelve
        <3>3. Doomed(id)
            BY <3>2 DEF Doomed
        <3>4. shelf[id] > 1 => shelf'[id] > 0 /\ ~Doomed(id)'
            BY <1>0, <2>1, <3>2 DEF Doomed
        <3> QED BY <1>3, <2>1, <3>3, <3>4 DEF Left
    <2> QED BY <2>2, <2>3
<1>14. CASE StopHub
    <2>1. \A k \in jobs : Live(k) => Live([k EXCEPT !.begun = TRUE])
        BY <1>0 DEF Job
    <2>2. \A k \in jobs : [k EXCEPT !.begun = TRUE] \in jobs'
        BY <1>14 DEF StopHub
    <2>3. UNCHANGED <<ready, shelf, moving, processed, late, forsaken>>
        BY <1>14 DEF StopHub
    <2>4. \A k \in jobs : Live(k) => \E l \in jobs' : Live(l)
        BY <2>1, <2>2
    <2> QED BY <1>0, <1>3, <2>3, <2>4, LeftGrows DEF Doomed
<1>15. CASE ChannelClosed
    <2>1. ready'[id] = ready[id] + HeldCopies(id) /\ HeldCopies(id) \in Nat
        BY <1>15, HeldCopiesNat DEF ChannelClosed
    <2>2. UNCHANGED <<shelf, moving, processed, late, forsaken>>
        BY <1>15 DEF ChannelClosed
    <2>3. CASE \E k \in jobs : k.held /\ k.id = id
        <3>1. ready'[id] > 0
            BY <1>0, <2>1, <2>3, HeldCopiesNat
        <3> QED BY <3>1 DEF Left
    <2>4. CASE ~\E k \in jobs : k.held /\ k.id = id
        BY <1>0, <1>3, <2>1, <2>2, <2>4, LeftGrows DEF Doomed
    <2> QED BY <2>3, <2>4
<1>16. CASE UNCHANGED <<ready, shelf, moving, jobs, processed, late, forsaken>>
    BY <1>0, <1>3, <1>16, LeftGrows DEF Doomed
<1>17. CASE Poll \/ CancelConsumer \/ ConsumerCancelled \/ Connect \/ Disconnect \/ WebClosed
    BY <1>16, <1>17 DEF Poll, CancelConsumer, ConsumerCancelled, Connect, Disconnect, WebClosed
<1> QED BY <1>2, <1>4, <1>5, <1>7, <1>9, <1>10, <1>11, <1>12, <1>13, <1>14, <1>15, <1>16, <1>17
        DEF Next, vars

-----------------------------------------------------------------------------

LEMMA InvStep == Inv /\ [Next]_vars => Inv'
<1> QED BY TypeStep, PollStep, LeftStep, BegunStep DEF Inv

LEMMA InvHolds == Spec => []Inv
<1> QED BY InitInv, InvStep, PTL DEF Spec

\* The types of Shutdown's state (TypeOK), for any number of messages and slots.
THEOREM StopTypeCorrect == Spec => []TypeOK
<1>1. Inv => TypeOK
    BY DEF Inv
<1> QED BY <1>1, InvHolds, PTL

(* A stop loses no accepted message but those answered 201 too late and    *)
(* those that failed when Mongo was closed (StopLosesNothingElse).         *)
THEOREM StopLosesNothingElseHolds == Spec => []StopLosesNothingElse
<1>1. Inv => StopLosesNothingElse
    BY DEF Inv, LeftInv, Left, StopLosesNothingElse, Kept, TypeOK
<1> QED BY <1>1, InvHolds, PTL

(* What was in hand when the stop began is not handed back to the broker   *)
(* (DrainedFirst).                                                         *)
THEOREM DrainedFirstHolds == Spec => DrainedFirst
<1>1. Inv /\ [Next]_vars =>
          [\A j \in jobs : j.held /\ phase' = "closed" /\ phase # "closed" => ~j.begun]_vars
    <2> SUFFICES ASSUME Inv, Next, NEW j \in jobs, phase' = "closed", phase # "closed"
                 PROVE  ~j.begun
        OBVIOUS
    <2>1. ChannelClosed
        BY DEF Next, Publish, PublishElsewhere, ScheduleNow, Poll, Deleted, DeleteRejected,
               Receive, ReplyProcessed, ReplyFailed, Stored, StoreRejected, Acknowledge, StopHub,
               CancelConsumer, ConsumerCancelled, ChannelClosed, Connect, Disconnect, WebClosed
    <2> QED BY <2>1 DEF ChannelClosed, Inv, BegunInv
<1> QED BY <1>1, InvHolds, PTL DEF Spec, DrainedFirst

=============================================================================
