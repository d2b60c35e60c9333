---------------------------- MODULE OneCopyProofs ----------------------------
(***************************************************************************)
(* While nothing fails, every message in the hub has exactly one copy, for *)
(* every value of the constants.  The argument: every step moves one copy, *)
(* drops it with a reason or leaves all in place (MoveCopy, DropCopy,      *)
(* KeepCopies); a poller's step is a move because the lock makes it the    *)
(* only run at work, so that what it has read is still in the schedule.    *)
(*                                                                         *)
(* It follows that nothing refuses an insert before a mishap, which the    *)
(* reasons for letting a message go need: the second theorem.              *)
(***************************************************************************)
EXTENDS MessageFlowProofs

\* The property, for one message.
Good(id) == IF id \in accepted /\ released[id] = {}
            THEN \E c \in Copies(id) : Copies(id) = {c}
            ELSE Copies(id) = {}

\* What one message's copies may do in a step.
LEMMA MoveCopy ==
    ASSUME NEW id, Good(id), NEW c \in Copies(id), NEW d \in Copies(id)',
           Copies(id)' \subseteq (Copies(id) \ {c}) \cup {d},
           accepted' = accepted, released'[id] = released[id]
    PROVE  Good(id)'
  BY DEF Good

LEMMA DropCopy ==
    ASSUME NEW id, Good(id), NEW c \in Copies(id), Copies(id)' \subseteq Copies(id) \ {c},
           released'[id] # {}
    PROVE  Good(id)'
  BY DEF Good

LEMMA KeepCopies ==
    ASSUME NEW id, Good(id), Copies(id)' = Copies(id),
           accepted' = accepted, released'[id] = released[id]
    PROVE  Good(id)'
  BY DEF Good

-----------------------------------------------------------------------------
(* The numbered copies of a message in a bag.                              *)

LEMMA InBagElements ==
    ASSUME NEW b, NEW id, NEW x
    PROVE  x \in InBag(b, id) <=> \E m \in BagToSet(b) : \E k \in 1 .. b[m] : m.id = id /\ x = <<m, k>>
  BY DEF InBag

LEMMA BagAddCopies ==
    ASSUME NEW b, MessageBag(b), NEW m \in Message
    PROVE  /\ \E c : InBag(b (+) SetToBag({m}), m.id) = InBag(b, m.id) \cup {c}
           /\ \A id : id # m.id => InBag(b (+) SetToBag({m}), id) = InBag(b, id)
<1> DEFINE e == b (+) SetToBag({m})
           n == IF m \in DOMAIN b THEN b[m] + 1 ELSE 1
<1>1. \A x \in DOMAIN b : b[x] \in Nat /\ b[x] > 0
  BY DEF MessageBag, IsABag
<1>2. /\ BagToSet(e) = BagToSet(b) \cup {m} /\ BagToSet(b) = DOMAIN b
      /\ e[m] = n /\ \A x \in BagToSet(b) : x # m => e[x] = b[x]
  BY <1>1 DEF BagToSet, SetToBag, (+)
<1>3. n \in Nat \ {0} /\ \A k : k \in 1 .. n <=> k = n \/ (m \in DOMAIN b /\ k \in 1 .. b[m])
  BY <1>1
<1> HIDE DEF e, n
<1>4. \A x : x \in InBag(e, m.id) <=> x \in InBag(b, m.id) \cup {<<m, n>>}
  BY <1>2, <1>3, InBagElements
<1>5. ASSUME NEW id, id # m.id
      PROVE  InBag(e, id) = InBag(b, id)
  <2>1. \A x : x \in InBag(e, id) <=> x \in InBag(b, id)
    BY <1>2, <1>5, InBagElements
  <2> QED
    BY <2>1
<1>6. InBag(e, m.id) = InBag(b, m.id) \cup {<<m, n>>}
  BY <1>4
<1> QED
  BY <1>5, <1>6 DEF e

LEMMA BagRemoveCopies ==
    ASSUME NEW b, MessageBag(b), NEW m \in BagToSet(b)
    PROVE  /\ \E c \in InBag(b, m.id) :
                 InBag(b (-) SetToBag({m}), m.id) \subseteq InBag(b, m.id) \ {c}
           /\ \A id : id # m.id => InBag(b (-) SetToBag({m}), id) = InBag(b, id)
<1> DEFINE e == b (-) SetToBag({m})
<1>1. \A x \in DOMAIN b : b[x] \in Nat /\ b[x] > 0
  BY DEF MessageBag, IsABag
<1>2. /\ BagToSet(b) = DOMAIN b
      /\ BagToSet(e) \subseteq BagToSet(b) /\ \A x \in BagToSet(b) : x # m => x \in BagToSet(e)
      /\ m \in BagToSet(e) => e[m] = b[m] - 1
      /\ \A x \in BagToSet(e) : x # m => e[x] = b[x]
  BY <1>1 DEF BagToSet, SetToBag, (-)
<1> HIDE DEF e
<1>3. b[m] \in Nat /\ b[m] > 0
  BY <1>1, <1>2
<1>4. <<m, b[m]>> \in InBag(b, m.id)
  BY <1>3, InBagElements
<1>5. \A x : x \in InBag(e, m.id) => x \in InBag(b, m.id) \ {<<m, b[m]>>}
  BY <1>2, <1>3, InBagElements
<1>6. ASSUME NEW id, id # m.id
      PROVE  InBag(e, id) = InBag(b, id)
  <2>1. \A x : x \in InBag(e, id) <=> x \in InBag(b, id)
    BY <1>2, <1>6, InBagElements
  <2> QED
    BY <2>1
<1>7. \E c \in InBag(b, m.id) : InBag(e, m.id) \subseteq InBag(b, m.id) \ {c}
  <2>1. InBag(e, m.id) \subseteq InBag(b, m.id) \ {<<m, b[m]>>}
    BY <1>5
  <2> QED
    BY <1>4, <2>1
<1> QED
  BY <1>6, <1>7 DEF e

\* Enqueueing m puts one copy of it into a socket.
LEMMA EnqueueCopies ==
    ASSUME TypeOK, NEW h \in Hubs, NEW m \in Message, Enqueue(h, m)
    PROVE  /\ \E x : InSockets(m.id)' = InSockets(m.id) \cup {x}
           /\ \A id : id # m.id => InSockets(id)' = InSockets(id)
<1>1. PICK n \in Message : n = Json(m) /\ n.id = m.id
  BY JsonKeeps
<1>2. /\ outbox'[h] = outbox[h] (+) SetToBag({n}) /\ MessageBag(outbox[h])
      /\ \A g \in Hubs : g # h => outbox'[g] = outbox[g]
  BY <1>1 DEF Enqueue, TypeOK, StoreTypeOK
<1>3. /\ \E c : InBag(outbox'[h], n.id) = InBag(outbox[h], n.id) \cup {c}
      /\ \A id : id # n.id => InBag(outbox'[h], id) = InBag(outbox[h], id)
  <2>1. /\ \E c : InBag(outbox[h] (+) SetToBag({n}), n.id) = InBag(outbox[h], n.id) \cup {c}
        /\ \A id : id # n.id => InBag(outbox[h] (+) SetToBag({n}), id) = InBag(outbox[h], id)
    BY <1>2, BagAddCopies
  <2> QED
    BY <1>2, <2>1
<1>4. \E x : InSockets(m.id)' = InSockets(m.id) \cup {x}
  <2>1. PICK c : InBag(outbox'[h], m.id) = InBag(outbox[h], m.id) \cup {c}
    BY <1>1, <1>3
  <2>2. InSockets(m.id)' = InSockets(m.id) \cup {<<h, c>>}
    BY <1>2, <2>1 DEF InSockets
  <2> QED
    BY <2>2
<1>5. ASSUME NEW id, id # m.id
      PROVE  InSockets(id)' = InSockets(id)
  <2>1. \A g \in Hubs : InBag(outbox'[g], id) = InBag(outbox[g], id)
    BY <1>1, <1>2, <1>3, <1>5
  <2> QED
    BY <2>1 DEF InSockets
<1> QED
  BY <1>4, <1>5

-----------------------------------------------------------------------------
(* What holds before anything has failed.                                  *)

Calm == TypeOK /\ CopyInv /\ MutexInv /\ RevivalsCounted /\ NoMishap

LEMMA CalmBefore ==
    ASSUME TypeOK, [Next]_vars, NoMishap'
    PROVE  NoMishap /\ \A k \in Kinds \ {"putOff"} : ~Mishap(k)
<1>1. count \in [Kinds -> Nat] /\ count' \in [Kinds -> Nat]
  BY TypeStep DEF TypeOK, StoreTypeOK
<1>2. \A k \in Kinds \ {"putOff"} : count[k] = 0
  BY <1>1, MishapsGrow DEF NoMishap
<1>3. \A k \in Kinds : Mishap(k) => count'[k] = count[k] + 1
  BY <1>1, MishapType
<1> QED
  BY <1>1, <1>2, <1>3 DEF NoMishap

LEMMA CalmGood ==
    ASSUME Calm, NEW id \in Ids
    PROVE  Good(id)
  BY DEF Calm, CopyInv, OneCopy, Good

\* No dead letter is about to be deleted.
LEMMA NothingRevived ==
    ASSUME RevivalsCounted, NoMishap
    PROVE  /\ \A q \in Revivals : revivalPc[q] = "idle" /\ found[q] = {} /\ revived[q] = {}
           /\ \A m : ~Overtaken(m)
<1>1. count["reenqueue"] = 0
  BY DEF NoMishap, Kinds
<1> QED
  BY <1>1 DEF RevivalsCounted, Overtaken

\* A run that has something in hand is a poller, and the only run that has.
LEMMA OnlyRun ==
    ASSUME Calm, NEW r \in Runs, todo[r] # {} \/ sent[r] # {}
    PROVE  /\ r \in Pollers /\ runPc[r] = "sending"
           /\ \A p \in Runs : p # r => todo[p] = {} /\ sent[p] = {}
<1>1. lapsed = {}
  BY DEF Calm, MutexInv, NoMishap, Kinds
<1>2. \A p \in Runs : todo[p] # {} \/ sent[p] # {} => runPc[p] = "sending" /\ p \in Pollers
  BY DEF Calm, CopyInv, Orderly, RunsClear, Runs
<1>3. \A p \in Pollers : runPc[p] # "idle" => lock = p
  BY <1>1 DEF Calm, MutexInv, PollMutex
<1> QED
  BY <1>2, <1>3

\* A dead letter and a job of the same message would be two copies of it.
LEMMA NoDuplicate ==
    ASSUME Calm, NEW j \in jobs, j.pc = "killing"
    PROVE  ~KeyTaken(j.msg)
<1> SUFFICES ASSUME NEW m \in dead, SameKey(m, j.msg) PROVE FALSE
  BY DEF KeyTaken
<1>1. m.id = j.msg.id /\ ~Overtaken(m) /\ j.msg.id \in Ids
  BY NothingRevived DEF SameKey, Calm, TypeOK, JobTypeOK, Job, Message
<1>2. m \in InGrave(j.msg.id) /\ j \in InJobs(j.msg.id)
  BY <1>1 DEF InGrave, InJobs, Unsettled
<1>3. <<"dead", m>> \in Copies(j.msg.id) /\ <<"jobs", j>> \in Copies(j.msg.id)
  BY <1>2 DEF Copies
<1>4. Good(j.msg.id) /\ <<"dead", m>> # <<"jobs", j>>
  BY <1>1, CalmGood
<1> QED
  BY <1>3, <1>4 DEF Good

-----------------------------------------------------------------------------
(* What leaves the parts of Copies alone.                                  *)

LEMMA SameSockets == ASSUME NEW id, outbox' = outbox PROVE InSockets(id)' = InSockets(id)
  BY DEF InSockets

LEMMA SameSchedule ==
    ASSUME NEW id, schedule' = schedule, sent' = sent
    PROVE  InSchedule(id)' = InSchedule(id)
  BY DEF InSchedule, Sent

LEMMA SameGrave ==
    ASSUME NEW id, dead' = dead, UNCHANGED revivalVars
    PROVE  InGrave(id)' = InGrave(id)
  BY DEF InGrave, Overtaken, revivalVars

LEMMA SameJobs == ASSUME NEW id, jobs' = jobs PROVE InJobs(id)' = InJobs(id)
  BY DEF InJobs, Unsettled

LEMMA SameCopies ==
    ASSUME NEW id, InBag(inQueue', id) = InBag(inQueue, id), InSockets(id)' = InSockets(id),
           InSchedule(id)' = InSchedule(id), InGrave(id)' = InGrave(id), InJobs(id)' = InJobs(id)
    PROVE  Copies(id)' = Copies(id)
  BY DEF Copies

-----------------------------------------------------------------------------
(* One copy: a step for every action.                                      *)

LEMMA CopyStoreStep ==
    ASSUME Calm, StoreStep, NoMishap', NEW id \in Ids
    PROVE  Good(id)'
<1>a. TypeOK /\ Good(id) /\ \A k \in {"crash", "delete"} : ~Mishap(k)
  BY CalmBefore, CalmGood DEF Calm, Next, Kinds
<1>b. dead' = dead /\ jobs' = jobs /\ UNCHANGED <<runVars, revivalVars>>
  BY <1>a DEF StoreStep, Publish, Flush, Restart, BecomeDue, ApiDelete, Crash, jobVars
<1>c. InGrave(id)' = InGrave(id) /\ InJobs(id)' = InJobs(id)
  BY <1>b, SameGrave, SameJobs
<1>1. ASSUME NEW h \in Hubs, NEW i \in Ids, Publish(h, i)
      PROVE  Good(id)'
  <2>1. PICK m \in Message : m = NewMessage(i) /\ m.id = i
    <3>1. NewMessage(i) \in Message /\ NewMessage(i).id = i
      BY DEF NewMessage, Message
    <3> QED
      BY <3>1
  <2>2. /\ \E x : InSockets(m.id)' = InSockets(m.id) \cup {x}
        /\ \A n : n # m.id => InSockets(n)' = InSockets(n)
    BY <1>1, <1>a, <2>1, EnqueueCopies DEF Publish
  <2>3. /\ inQueue' = inQueue /\ InSchedule(id)' = InSchedule(id)
        /\ accepted' = accepted \cup {i} /\ i \notin accepted /\ released' = released
    BY <1>1, <1>b, SameSchedule DEF Publish, runVars
  <2>4. CASE id = i
    <3>1. released[i] = {} /\ Copies(i) = {}
      BY <1>a, <2>3, <2>4 DEF Calm, CopyInv, Good
    <3>2. PICK x : InSockets(i)' = InSockets(i) \cup {x}
      BY <2>1, <2>2
    <3>3. Copies(i)' = {<<"sockets", x>>}
      BY <1>c, <2>3, <2>4, <3>1, <3>2 DEF Copies
    <3> QED
      BY <2>3, <2>4, <3>1, <3>3 DEF Good
  <2>5. CASE id # i
    <3>1. Copies(id)' = Copies(id)
      BY <1>c, <2>1, <2>2, <2>3, <2>5, SameCopies
    <3> QED
      BY <1>a, <2>3, <2>5, <3>1 DEF Good
  <2> QED
    BY <2>4, <2>5
<1>2. ASSUME NEW h \in Hubs, Flush(h)
      PROVE  Good(id)'
  <2>1. PICK m \in BagToSet(outbox[h]) :
            /\ outbox' = [outbox EXCEPT ![h] = @ (-) SetToBag({m})]
            /\ inQueue' = inQueue (+) SetToBag({m})
    BY <1>2 DEF Flush
  <2>2. m \in Message /\ MessageBag(outbox[h]) /\ MessageBag(inQueue) /\ DOMAIN outbox = Hubs
    BY <1>a DEF TypeOK, StoreTypeOK, MessageBag, BagToSet
  <2>3. InSchedule(id)' = InSchedule(id) /\ accepted' = accepted /\ released' = released
    BY <1>2, <1>b, SameSchedule DEF Flush, runVars
  <2>4. /\ \E d : InBag(inQueue (+) SetToBag({m}), m.id) = InBag(inQueue, m.id) \cup {d}
        /\ \A n : n # m.id => InBag(inQueue (+) SetToBag({m}), n) = InBag(inQueue, n)
    BY <2>2, BagAddCopies
  <2>5. /\ \E c \in InBag(outbox[h], m.id) :
              InBag(outbox[h] (-) SetToBag({m}), m.id) \subseteq InBag(outbox[h], m.id) \ {c}
        /\ \A n : n # m.id => InBag(outbox[h] (-) SetToBag({m}), n) = InBag(outbox[h], n)
    BY <2>2, BagRemoveCopies
  <2>6. /\ outbox'[h] = outbox[h] (-) SetToBag({m})
        /\ \A g \in Hubs : g # h => outbox'[g] = outbox[g]
    BY <2>1, <2>2
  <2>7. CASE id = m.id
    <3>1. PICK d : InBag(inQueue', id) = InBag(inQueue, id) \cup {d}
      BY <2>1, <2>4, <2>7
    <3>2. PICK c \in InBag(outbox[h], id) : InBag(outbox'[h], id) \subseteq InBag(outbox[h], id) \ {c}
      BY <2>5, <2>6, <2>7
    <3>3. <<h, c>> \in InSockets(id) /\ InSockets(id)' \subseteq InSockets(id) \ {<<h, c>>}
      BY <2>6, <3>2 DEF InSockets
    <3>4. /\ <<"sockets", <<h, c>>>> \in Copies(id) /\ <<"queue", d>> \in Copies(id)'
          /\ Copies(id)' \subseteq (Copies(id) \ {<<"sockets", <<h, c>>>>}) \cup {<<"queue", d>>}
      BY <1>c, <2>3, <3>1, <3>3 DEF Copies
    <3> QED
      BY <1>a, <2>3, <3>4, MoveCopy
  <2>8. CASE id # m.id
    <3>1. \A g \in Hubs : InBag(outbox'[g], id) = InBag(outbox[g], id)
      BY <2>5, <2>6, <2>8
    <3>2. InSockets(id)' = InSockets(id)
      BY <3>1 DEF InSockets
    <3>3. InBag(inQueue', id) = InBag(inQueue, id)
      BY <2>1, <2>4, <2>8
    <3>4. Copies(id)' = Copies(id)
      BY <1>c, <2>3, <3>2, <3>3, SameCopies
    <3> QED
      BY <1>a, <2>3, <3>4, KeepCopies
  <2> QED
    BY <2>7, <2>8
<1>3. ASSUME NEW h \in Hubs, Restart(h)
      PROVE  Good(id)'
  <2>1. /\ inQueue' = inQueue /\ InSockets(id)' = InSockets(id) /\ InSchedule(id)' = InSchedule(id)
        /\ accepted' = accepted /\ released' = released
    BY <1>3, <1>b, SameSockets, SameSchedule DEF Restart, runVars
  <2>2. Copies(id)' = Copies(id)
    BY <1>c, <2>1, SameCopies
  <2> QED
    BY <1>a, <2>1, <2>2, KeepCopies
<1>4. ASSUME NEW s \in schedule, BecomeDue(s)
      PROVE  Good(id)'
  <2>1. PICK t : t = [s EXCEPT !.due = "due"]
    OBVIOUS
  <2>2. /\ t.item = s.item /\ t.msg = s.msg /\ schedule' = (schedule \ {s}) \cup {t}
        /\ sent' = sent /\ t # s
    BY <1>4, <1>a, <1>b, <2>1 DEF BecomeDue, TypeOK, StoreTypeOK, ScheduledItem, runVars
  <2>3. /\ inQueue' = inQueue /\ InSockets(id)' = InSockets(id)
        /\ accepted' = accepted /\ released' = released
    BY <1>4, SameSockets DEF BecomeDue
  <2>4. CASE s \in InSchedule(id)
    <3>1. t \in InSchedule(id)' /\ InSchedule(id)' \subseteq (InSchedule(id) \ {s}) \cup {t}
      BY <2>2, <2>4 DEF InSchedule, Sent
    <3>2. /\ <<"schedule", s>> \in Copies(id) /\ <<"schedule", t>> \in Copies(id)'
          /\ Copies(id)' \subseteq (Copies(id) \ {<<"schedule", s>>}) \cup {<<"schedule", t>>}
      BY <1>c, <2>3, <2>4, <3>1 DEF Copies
    <3> QED
      BY <1>a, <2>3, <3>2, MoveCopy
  <2>5. CASE s \notin InSchedule(id)
    <3>1. \A u : u \in InSchedule(id)' <=> u \in InSchedule(id)
      BY <2>2, <2>5 DEF InSchedule, Sent
    <3>2. InSchedule(id)' = InSchedule(id)
      BY <3>1
    <3>3. Copies(id)' = Copies(id)
      BY <1>c, <2>3, <3>2, SameCopies
    <3> QED
      BY <1>a, <2>3, <3>3, KeepCopies
  <2> QED
    BY <2>4, <2>5
<1> QED
  BY <1>1, <1>2, <1>3, <1>4, <1>a DEF StoreStep, ApiDelete, Crash

LEMMA CopyRunStep ==
    ASSUME Calm, RunStep, NoMishap', NEW id \in Ids
    PROVE  Good(id)'
<1>a. TypeOK /\ Good(id) /\ \A k \in {"scheduleNow", "redis", "store"} : ~Mishap(k)
  BY CalmBefore, CalmGood DEF Calm, Next, Kinds
<1>b. UNCHANGED <<inQueue, dead, accepted, released, jobs, revivalVars>>
  BY DEF RunStep, RunProceeds, AcquireLock, ReadDue, FindOne, EnqueueNext, DeleteSent, FinishPoll,
         UnlockFails, FinishRequest, RunFails, LeaseExpires, storeVars, jobVars
<1>c. InGrave(id)' = InGrave(id) /\ InJobs(id)' = InJobs(id) /\ InBag(inQueue', id) = InBag(inQueue, id)
  BY <1>b, SameGrave, SameJobs
<1>d. ASSUME InSockets(id)' = InSockets(id), InSchedule(id)' = InSchedule(id)
      PROVE  Good(id)'
  BY <1>a, <1>b, <1>c, <1>d, SameCopies, KeepCopies
\* The document a run has read, and enqueues, is the one in the schedule.
<1>1. ASSUME NEW r \in Runs, EnqueueNext(r)
      PROVE  Good(id)'
  <2>1. PICK s \in todo[r] : Enqueue(RunsOn[r], s.msg) /\ sent' = [sent EXCEPT ![r] = {s}]
    BY <1>1 DEF EnqueueNext
  <2>2. s.msg \in Message /\ RunsOn[r] \in Hubs
    BY <1>a, RunsOnHubs DEF TypeOK, RunTypeOK, ScheduledItem
  <2>3. s \in schedule /\ Sent = {} /\ Sent' = {s}
    <3>1. r \in Pollers /\ \A p \in Runs : p # r => sent[p] = {}
      BY OnlyRun
    <3>2. sent[r] = {} /\ DOMAIN sent = Runs
      BY <1>1, <1>a DEF EnqueueNext, TypeOK, RunTypeOK
    <3>3. \A x : x \notin Sent /\ (x \in Sent' <=> x = s)
      BY <2>1, <3>1, <3>2 DEF Sent
    <3>4. s \in schedule
      BY <3>1 DEF Calm, CopyInv, Orderly, StillDue
    <3> QED
      BY <3>3, <3>4
  <2>4. \A t \in schedule : t.item = s.item => t = s
    BY <2>3 DEF Calm, CopyInv, Orderly, ItemsUnique
  <2>5. schedule' = schedule
    BY <1>1 DEF EnqueueNext
  <2>6. \A t : t \in InSchedule(id)' <=> t \in InSchedule(id) /\ t # s
    BY <2>3, <2>4, <2>5 DEF InSchedule
  <2>7. /\ \E x : InSockets(s.msg.id)' = InSockets(s.msg.id) \cup {x}
        /\ \A n : n # s.msg.id => InSockets(n)' = InSockets(n)
    BY <1>a, <2>1, <2>2, EnqueueCopies
  <2>8. CASE id = s.msg.id
    <3>1. PICK x : InSockets(id)' = InSockets(id) \cup {x}
      BY <2>7, <2>8
    <3>2. s \in InSchedule(id)
      BY <2>3, <2>8 DEF InSchedule
    <3>3. /\ <<"schedule", s>> \in Copies(id) /\ <<"sockets", x>> \in Copies(id)'
          /\ Copies(id)' \subseteq (Copies(id) \ {<<"schedule", s>>}) \cup {<<"sockets", x>>}
      BY <1>c, <2>6, <3>1, <3>2 DEF Copies
    <3> QED
      BY <1>a, <1>b, <3>3, MoveCopy
  <2>9. CASE id # s.msg.id
    <3>1. InSchedule(id)' = InSchedule(id)
      <4>1. s \notin InSchedule(id)
        BY <2>9 DEF InSchedule
      <4> QED
        BY <2>6, <4>1
    <3> QED
      BY <1>d, <2>7, <2>9, <3>1
  <2> QED
    BY <2>8, <2>9
\* What it deletes then is what it has just enqueued.
<1>2. ASSUME NEW r \in Runs, DeleteSent(r)
      PROVE  Good(id)'
  <2>1. DOMAIN sent = Runs /\ \A p \in Runs : p # r => sent[p] = {}
    BY <1>2, <1>a, OnlyRun DEF DeleteSent, TypeOK, RunTypeOK
  <2>2. \A x : x \notin Sent' /\ (x \in Sent <=> x \in sent[r])
    BY <1>2, <2>1 DEF DeleteSent, Sent
  <2>3. schedule' = {s \in schedule : \A t \in sent[r] : t.item # s.item} /\ outbox' = outbox
    BY <1>2 DEF DeleteSent
  <2>4. \A s : s \in InSchedule(id)' <=> s \in InSchedule(id)
    BY <2>2, <2>3 DEF InSchedule
  <2>5. InSchedule(id)' = InSchedule(id)
    BY <2>4
  <2> QED
    BY <1>d, <2>3, <2>5, SameSockets
<1>3. ASSUME NEW p \in Runs, FinishPoll(p) \/ FinishRequest(p)
      PROVE  Good(id)'
  <2>1. sent' = sent
    BY <1>3, <1>a DEF FinishPoll, FinishRequest, RunEnds, TypeOK, RunTypeOK
  <2> QED
    BY <1>3, <1>d, <2>1, SameSockets, SameSchedule DEF FinishPoll, FinishRequest, storeVars
<1>4. ASSUME UNCHANGED <<outbox, schedule, sent>>
      PROVE  Good(id)'
  BY <1>d, <1>4, SameSockets, SameSchedule
<1> QED
  BY <1>1, <1>2, <1>3, <1>4, <1>a DEF RunStep, RunProceeds, AcquireLock, ReadDue, FindOne, RunFails, UnlockFails,
                                      LeaseExpires, storeVars, runVars, Runs

\* An administrator has not begun anything.
LEMMA NoDeadStep ==
    ASSUME Calm, [Next]_vars, NoMishap'
    PROVE  ~DeadStep
<1>1. \A k \in {"reenqueue", "store", "deadDelete"} : ~Mishap(k)
  BY CalmBefore DEF Calm, Kinds
<1>2. \A q \in Revivals : revivalPc[q] = "idle" /\ found[q] = {} /\ revived[q] = {}
  BY NothingRevived DEF Calm
<1> QED
  BY <1>1, <1>2 DEF DeadStep, RevivalProceeds, FindDead, FindAllDead, ReadPage, EnqueueDead,
                    DeleteDead, RevivalFails, ApiDeleteDead, ApiDeleteAllDead

LEMMA CopyJobStep ==
    ASSUME Calm, JobStep, NoMishap', NEW id \in Ids
    PROVE  Good(id)'
<1>a. /\ TypeOK /\ Good(id) /\ \A n \in Ids : Good(n)
      /\ \A k \in {"redis", "store"} : ~Mishap(k)
  BY CalmBefore, CalmGood DEF Calm, Next, Kinds
<1>b. UNCHANGED <<outbox, accepted, sent, revivalVars>> /\ InSockets(id)' = InSockets(id)
  BY JobStepFrame, SameSockets DEF JobStep, runVars
<1>c. \A j \in jobs : j \in Job /\ j.msg \in Message /\ j.msg.id \in Ids
  BY <1>a DEF TypeOK, JobTypeOK, Job, Message
<1>d. ASSUME inQueue' = inQueue, schedule' = schedule, dead' = dead
      PROVE  /\ InBag(inQueue', id) = InBag(inQueue, id)
             /\ InSchedule(id)' = InSchedule(id) /\ InGrave(id)' = InGrave(id)
  BY <1>b, <1>d, SameSchedule, SameGrave
<1>e. ASSUME inQueue' = inQueue, schedule' = schedule, dead' = dead,
             released'[id] = released[id], InJobs(id)' = InJobs(id)
      PROVE  Good(id)'
  <2>1. Copies(id)' = Copies(id)
    BY <1>b, <1>d, <1>e, SameCopies
  <2> QED
    BY <1>a, <1>b, <1>e, <2>1, KeepCopies
\* The jobs on another message, or past its copy, do not count.
<1>f. ASSUME NEW j \in jobs, NEW k, Replace(j, k), k.msg.id = j.msg.id,
             id # j.msg.id \/ (~Unsettled(j) /\ ~Unsettled(k))
      PROVE  InJobs(id)' = InJobs(id)
  <2>1. \A i : i \in InJobs(id)' <=> i \in InJobs(id)
    BY <1>f DEF Replace, InJobs, Unsettled
  <2> QED
    BY <2>1
\* A job that goes on with its message keeps the copy.
<1>g. ASSUME NEW j \in jobs, NEW k, Replace(j, k), k.msg.id = j.msg.id,
             Unsettled(k) \/ ~Unsettled(j), Unsettled(j) \/ ~Unsettled(k),
             inQueue' = inQueue, schedule' = schedule, dead' = dead, released' = released
      PROVE  Good(id)'
  <2>1. CASE id = j.msg.id /\ Unsettled(j)
    <3>1. j \in InJobs(id) /\ k \in InJobs(id)' /\ InJobs(id)' \subseteq (InJobs(id) \ {j}) \cup {k}
      BY <1>g, <2>1 DEF Replace, InJobs, Unsettled
    <3>2. /\ <<"jobs", j>> \in Copies(id) /\ <<"jobs", k>> \in Copies(id)'
          /\ Copies(id)' \subseteq (Copies(id) \ {<<"jobs", j>>}) \cup {<<"jobs", k>>}
      BY <1>b, <1>d, <1>g, <3>1 DEF Copies
    <3> QED
      BY <1>a, <1>b, <1>g, <3>2, MoveCopy
  <2> QED
    BY <1>e, <1>f, <1>g, <2>1
\* A job that settles: its message is somewhere else now, or has been let go of.
<1>h. ASSUME NEW j \in jobs, Unsettled(j), Settle(j)
      PROVE  /\ id # j.msg.id => InJobs(id)' = InJobs(id)
             /\ id = j.msg.id => j \in InJobs(id) /\ InJobs(id)' \subseteq InJobs(id) \ {j}
  <2>1. PICK k \in Job : Replace(j, k) /\ k.msg = j.msg /\ ~Unsettled(k)
    BY <1>a, <1>h, SettleEffect DEF Unsettled
  <2>2. id # j.msg.id => InJobs(id)' = InJobs(id)
    BY <1>f, <2>1
  <2> QED
    BY <1>h, <2>1, <2>2 DEF Replace, InJobs, Unsettled
<1>1. ASSUME NEW w \in Workers, Receive(w)
      PROVE  Good(id)'
  <2>1. PICK m \in BagToSet(inQueue) :
            /\ inQueue' = inQueue (-) SetToBag({m})
            /\ jobs' = jobs \cup {[worker |-> w, pc |-> "registering", raw |-> m,
                                   msg |-> Archived(m), caught |-> "nothing", registered |-> FALSE]}
    BY <1>1 DEF Receive
  <2>2. PICK k : k = [worker |-> w, pc |-> "registering", raw |-> m, msg |-> Archived(m),
                      caught |-> "nothing", registered |-> FALSE]
    OBVIOUS
  <2>3. m \in Message /\ Archived(m).id = m.id /\ MessageBag(inQueue)
    BY <1>a, ArchivedType DEF TypeOK, StoreTypeOK, JobTypeOK, MessageBag, BagToSet
  <2>4. jobs' = jobs \cup {k} /\ k.msg.id = m.id /\ Unsettled(k)
    BY <2>1, <2>2, <2>3 DEF Unsettled
  <2>5. /\ \E c \in InBag(inQueue, m.id) :
              InBag(inQueue (-) SetToBag({m}), m.id) \subseteq InBag(inQueue, m.id) \ {c}
        /\ \A n : n # m.id => InBag(inQueue (-) SetToBag({m}), n) = InBag(inQueue, n)
    BY <2>3, BagRemoveCopies
  <2>6. /\ released' = released /\ InSchedule(id)' = InSchedule(id) /\ InGrave(id)' = InGrave(id)
    BY <1>1, <1>b, SameSchedule, SameGrave DEF Receive
  <2>7. CASE id = m.id
    <3>1. PICK c \in InBag(inQueue, id) : InBag(inQueue', id) \subseteq InBag(inQueue, id) \ {c}
      BY <2>1, <2>5, <2>7
    <3>2. k \in InJobs(id)' /\ InJobs(id)' \subseteq InJobs(id) \cup {k}
      BY <2>4, <2>7 DEF InJobs, Unsettled
    <3>3. /\ <<"queue", c>> \in Copies(id) /\ <<"jobs", k>> \in Copies(id)'
          /\ Copies(id)' \subseteq (Copies(id) \ {<<"queue", c>>}) \cup {<<"jobs", k>>}
      BY <1>b, <2>6, <3>1, <3>2 DEF Copies
    <3> QED
      BY <1>a, <1>b, <2>6, <3>3, MoveCopy
  <2>8. CASE id # m.id
    <3>1. InBag(inQueue', id) = InBag(inQueue, id)
      BY <2>1, <2>5, <2>8
    <3>2. \A i : i \in InJobs(id)' <=> i \in InJobs(id)
      BY <2>4, <2>8 DEF InJobs, Unsettled
    <3>3. InJobs(id)' = InJobs(id)
      BY <3>2
    <3>4. Copies(id)' = Copies(id)
      BY <1>b, <2>6, <3>1, <3>3, SameCopies
    <3> QED
      BY <1>a, <1>b, <2>6, <3>4, KeepCopies
  <2> QED
    BY <2>7, <2>8
<1>2. ASSUME NEW j \in jobs, MovesOn(j)
      PROVE  Good(id)'
  <2>1. /\ inQueue' = inQueue /\ schedule' = schedule /\ dead' = dead /\ released' = released
        /\ j \in Job
    BY <1>2, <1>c DEF MovesOn, Registered, ReplyRetryAfter, ReplyRetryDate, Unregistered, storeVars
  <2>2. CASE Unregistered(j)
    <3>1. PICK k : k = [j EXCEPT !.pc = "acking"]
      OBVIOUS
    <3>2. Replace(j, k) /\ k.msg = j.msg /\ ~Unsettled(k) /\ ~Unsettled(j)
      BY <2>1, <2>2, <3>1 DEF Unregistered, Job, Unsettled
    <3> QED
      BY <1>g, <2>1, <3>2
  <2>3. CASE ~Unregistered(j)
    <3>1. Unsettled(j)
      BY <1>2, <2>3 DEF MovesOn, Registered, ReplyRetryAfter, ReplyRetryDate, Unsettled
    <3> QED
      BY <1>2, <1>a, <1>g, <2>1, <3>1, MovesOnEffect
  <2> QED
    BY <2>2, <2>3
<1>3. ASSUME NEW j \in jobs, ReplyFailed(j) \/ ReplyThrown(j)
      PROVE  Good(id)'
  <2>1. PICK c \in Exceptions : HandleError(j, c)
    BY <1>3 DEF ReplyFailed, ReplyThrown, Exceptions
  <2>2. PICK k \in Job : /\ Replace(j, k) /\ k.msg.id = j.msg.id
                         /\ k.pc = IF k.msg.attempts >= MaxAttempts[k.msg.id]
                                   THEN "killing" ELSE "scheduling"
    BY <1>a, <2>1, HandleErrorEffect
  <2>3. Unsettled(j) /\ Unsettled(k)
    BY <1>3, <2>2 DEF ReplyFailed, ReplyThrown, Unsettled
  <2> QED
    BY <1>3, <1>g, <2>2, <2>3 DEF ReplyFailed, ReplyThrown, storeVars
<1>4. ASSUME NEW j \in jobs, ReplyProcessed(j) \/ ReplyIgnored(j)
      PROVE  Good(id)'
  <2>1. /\ Unsettled(j) /\ Settle(j)
        /\ \E why \in Reasons : LetGo({j.msg.id}, why)
        /\ inQueue' = inQueue /\ schedule' = schedule /\ dead' = dead
    BY <1>4 DEF ReplyProcessed, ReplyIgnored, Unsettled, Reasons
  <2>2. CASE id = j.msg.id
    <3>1. released'[id] # {}
      BY <1>a, <2>1, <2>2, LetGoType DEF TypeOK, StoreTypeOK
    <3>2. <<"jobs", j>> \in Copies(id) /\ Copies(id)' \subseteq Copies(id) \ {<<"jobs", j>>}
      BY <1>b, <1>d, <1>h, <2>1, <2>2 DEF Copies
    <3> QED
      BY <1>a, <3>1, <3>2, DropCopy
  <2>3. CASE id # j.msg.id
    <3>1. released'[id] = released[id]
      BY <2>1, <2>3 DEF LetGo
    <3> QED
      BY <1>e, <1>h, <2>1, <2>3, <3>1
  <2> QED
    BY <2>2, <2>3
<1>5. ASSUME NEW j \in jobs, Scheduled(j)
      PROVE  Good(id)'
  <2>1. PICK i \in Items, when \in {"later", "never"} : InsertItem(i, j.msg, when)
    BY <1>5 DEF Scheduled, InsertMessageOf
  <2>2. PICK s : s = [item |-> i, msg |-> j.msg, due |-> when]
    OBVIOUS
  <2>3. /\ schedule' = schedule \cup {s} /\ s.msg = j.msg
        /\ \A t \in Sent : t.item # s.item
    BY <2>1, <2>2 DEF InsertItem, Fresh, Referenced
  <2>4. Unsettled(j) /\ Settle(j) /\ inQueue' = inQueue /\ dead' = dead /\ released' = released
    BY <1>5 DEF Scheduled, InsertMessageOf, Unsettled
  <2>5. InGrave(id)' = InGrave(id) /\ InBag(inQueue', id) = InBag(inQueue, id)
    BY <1>b, <2>4, SameGrave
  <2>6. CASE id = j.msg.id
    <3>1. s \in InSchedule(id)' /\ InSchedule(id)' \subseteq InSchedule(id) \cup {s}
      BY <1>b, <2>3, <2>6 DEF InSchedule, Sent
    <3>2. /\ <<"jobs", j>> \in Copies(id) /\ <<"schedule", s>> \in Copies(id)'
          /\ Copies(id)' \subseteq (Copies(id) \ {<<"jobs", j>>}) \cup {<<"schedule", s>>}
      BY <1>b, <1>h, <2>4, <2>5, <2>6, <3>1 DEF Copies
    <3> QED
      BY <1>a, <1>b, <2>4, <3>2, MoveCopy
  <2>7. CASE id # j.msg.id
    <3>1. \A t : t \in InSchedule(id)' <=> t \in InSchedule(id)
      BY <1>b, <2>3, <2>7 DEF InSchedule, Sent
    <3>2. InSchedule(id)' = InSchedule(id)
      BY <3>1
    <3>3. Copies(id)' = Copies(id)
      BY <1>b, <1>h, <2>4, <2>5, <2>7, <3>2, SameCopies
    <3> QED
      BY <1>a, <1>b, <2>4, <3>3, KeepCopies
  <2> QED
    BY <2>6, <2>7
<1>6. ASSUME NEW j \in jobs, Killed(j)
      PROVE  Good(id)'
  <2>1. \A m : ~Overtaken(m) /\ ~Overtaken(m)'
    <3>1. \A m : ~Overtaken(m)
      BY NothingRevived DEF Calm
    <3> QED
      BY <1>b, <3>1 DEF Overtaken, revivalVars
  <2>2. /\ Unsettled(j) /\ Settle(j) /\ inQueue' = inQueue /\ schedule' = schedule
        /\ dead' = dead \cup {j.msg} /\ released' = released
    BY <1>6, <2>1 DEF Killed, DiesAgain, Unsettled
  <2>3. InSchedule(id)' = InSchedule(id) /\ InBag(inQueue', id) = InBag(inQueue, id)
    BY <1>b, <2>2, SameSchedule
  <2>4. CASE id = j.msg.id
    <3>1. j.msg \in InGrave(id)' /\ InGrave(id)' \subseteq InGrave(id) \cup {j.msg}
      BY <2>1, <2>2, <2>4 DEF InGrave
    <3>2. /\ <<"jobs", j>> \in Copies(id) /\ <<"dead", j.msg>> \in Copies(id)'
          /\ Copies(id)' \subseteq (Copies(id) \ {<<"jobs", j>>}) \cup {<<"dead", j.msg>>}
      BY <1>b, <1>h, <2>2, <2>3, <2>4, <3>1 DEF Copies
    <3> QED
      BY <1>a, <1>b, <2>2, <3>2, MoveCopy
  <2>5. CASE id # j.msg.id
    <3>1. \A m : m \in InGrave(id)' <=> m \in InGrave(id)
      BY <2>1, <2>2, <2>5 DEF InGrave
    <3>2. InGrave(id)' = InGrave(id)
      BY <3>1
    <3>3. Copies(id)' = Copies(id)
      BY <1>b, <1>h, <2>2, <2>3, <2>5, <3>2, SameCopies
    <3> QED
      BY <1>a, <1>b, <2>2, <3>3, KeepCopies
  <2> QED
    BY <2>4, <2>5
<1>7. ASSUME NEW j \in jobs, KillDuplicate(j)
      PROVE  FALSE
  BY <1>7, NoDuplicate DEF KillDuplicate
<1>8. ASSUME NEW j \in jobs, Acked(j)
      PROVE  Good(id)'
  <2>1. \A i : i \in InJobs(id)' <=> i \in InJobs(id)
    BY <1>8 DEF Acked, InJobs, Unsettled
  <2>2. InJobs(id)' = InJobs(id)
    BY <2>1
  <2> QED
    BY <1>8, <1>e, <2>2 DEF Acked, storeVars
<1> QED
  BY <1>1, <1>2, <1>3, <1>4, <1>5, <1>6, <1>7, <1>8, <1>a
     DEF JobStep, JobProceeds, MovesOn, RegisterFails, InsertFails

-----------------------------------------------------------------------------
(* The schedule and the runs, before anything has failed.                  *)

LEMMA OrderlyStoreStep ==
    ASSUME Calm, Orderly, StoreStep, NoMishap'
    PROVE  Orderly'
<1>a. TypeOK /\ \A k \in {"crash", "delete"} : ~Mishap(k)
  BY CalmBefore DEF Calm, Next, Kinds
<1>b. UNCHANGED <<runPc, todo, sent>>
  BY <1>a DEF StoreStep, Crash, runVars
<1>1. ASSUME NEW s \in schedule, BecomeDue(s)
      PROVE  Orderly'
  <2>1. PICK t : t = [s EXCEPT !.due = "due"]
    OBVIOUS
  <2>2. /\ t.item = s.item /\ schedule' = (schedule \ {s}) \cup {t} /\ s.due = "later"
    BY <1>1, <1>a, <2>1 DEF BecomeDue, TypeOK, StoreTypeOK, ScheduledItem
  <2>3. ItemsUnique'
    BY <2>2 DEF Orderly, ItemsUnique
  <2>4. StillDue'
    BY <1>b, <2>2 DEF Orderly, StillDue
  <2> QED
    BY <1>b, <2>3, <2>4 DEF Orderly, RunsClear
<1>2. ASSUME schedule' = schedule
      PROVE  Orderly'
  BY <1>b, <1>2 DEF Orderly, ItemsUnique, RunsClear, StillDue
<1> QED
  BY <1>1, <1>2, <1>a DEF StoreStep, Publish, Flush, Restart, ApiDelete, Crash

LEMMA OrderlyRunStep ==
    ASSUME Calm, Orderly, RunStep, NoMishap'
    PROVE  Orderly'
<1>a. TypeOK /\ \A k \in {"scheduleNow", "redis", "store"} : ~Mishap(k)
  BY CalmBefore DEF Calm, Next, Kinds
<1>b. DOMAIN runPc = Runs /\ DOMAIN todo = Runs /\ DOMAIN sent = Runs /\ Pollers \subseteq Runs
      /\ Requests \subseteq Runs /\ Pollers \cap Requests = {}
  BY <1>a, RunsAssumption DEF TypeOK, RunTypeOK, Runs
<1>1. ASSUME NEW p \in Pollers, AcquireLock(p)
      PROVE  Orderly'
  BY <1>1, <1>b DEF AcquireLock, storeVars, Orderly, ItemsUnique, RunsClear, StillDue
<1>2. ASSUME NEW p \in Pollers, ReadDue(p)
      PROVE  Orderly'
  <2>1. PICK batch \in SUBSET Due : todo' = [todo EXCEPT ![p] = batch]
    BY <1>2 DEF ReadDue
  <2>2. sent[p] = {} /\ sent' = sent /\ schedule' = schedule
    BY <1>2, <1>b DEF ReadDue, storeVars, Orderly, RunsClear
  <2>3. StillDue'
    BY <1>b, <2>1, <2>2 DEF Due, Orderly, StillDue
  <2> QED
    BY <1>2, <1>b, <2>1, <2>2, <2>3 DEF ReadDue, Orderly, ItemsUnique, RunsClear
<1>3. ASSUME NEW r \in Runs, EnqueueNext(r)
      PROVE  Orderly'
  <2>1. PICK s \in todo[r] : /\ todo' = [todo EXCEPT ![r] = @ \ {s}]
                              /\ sent' = [sent EXCEPT ![r] = {s}]
    BY <1>3 DEF EnqueueNext
  <2>2. /\ r \in Pollers /\ runPc[r] = "sending"
        /\ \A p \in Runs : p # r => todo[p] = {} /\ sent[p] = {}
    BY OnlyRun
  <2>3. schedule' = schedule /\ runPc' = runPc
    BY <1>3 DEF EnqueueNext
  <2>4. \A t \in todo[r] : t \in schedule /\ t.due = "due" /\ (t # s => t.item # s.item)
    BY <2>1, <2>2 DEF Orderly, StillDue, ItemsUnique
  <2>5. StillDue'
    BY <1>b, <2>1, <2>2, <2>3, <2>4 DEF StillDue
  <2>6. RunsClear'
    BY <1>b, <2>1, <2>2, <2>3 DEF Orderly, RunsClear
  <2> QED
    BY <2>3, <2>5, <2>6 DEF Orderly, ItemsUnique
<1>4. ASSUME NEW r \in Runs, DeleteSent(r)
      PROVE  Orderly'
  <2>1. /\ r \in Pollers /\ runPc[r] = "sending"
        /\ \A p \in Runs : p # r => todo[p] = {} /\ sent[p] = {}
    BY <1>4, OnlyRun DEF DeleteSent
  <2>2. /\ schedule' = {s \in schedule : \A t \in sent[r] : t.item # s.item}
        /\ sent' = [sent EXCEPT ![r] = {}] /\ runPc' = runPc /\ todo' = todo
    BY <1>4 DEF DeleteSent
  <2>3. StillDue'
    BY <1>b, <2>1, <2>2 DEF Orderly, StillDue
  <2> QED
    BY <1>b, <2>2, <2>3 DEF Orderly, ItemsUnique, RunsClear
<1>5. ASSUME NEW r \in Runs, FinishPoll(r) \/ FinishRequest(r)
      PROVE  Orderly'
  <2>1. /\ schedule' = schedule
        /\ \A p \in Runs : /\ runPc'[p] = (IF p = r THEN "idle" ELSE runPc[p])
                           /\ todo'[p] = (IF p = r THEN {} ELSE todo[p])
                           /\ sent'[p] = (IF p = r THEN {} ELSE sent[p])
    BY <1>5 DEF FinishPoll, FinishRequest, RunEnds, storeVars
  <2> QED
    BY <1>b, <2>1 DEF Orderly, ItemsUnique, RunsClear, StillDue
<1>6. ASSUME LeaseExpires
      PROVE  Orderly'
  BY <1>6 DEF LeaseExpires, runVars, Orderly, ItemsUnique, RunsClear, StillDue
<1> QED
  BY <1>1, <1>2, <1>3, <1>4, <1>5, <1>6, <1>a, <1>b DEF RunStep, RunProceeds, FindOne, RunFails, UnlockFails

LEMMA OrderlyJobStep ==
    ASSUME Calm, Orderly, JobStep, NoMishap'
    PROVE  Orderly'
<1>a. TypeOK /\ \A k \in {"redis", "store"} : ~Mishap(k)
  BY CalmBefore DEF Calm, Next, Kinds
<1>b. UNCHANGED <<runPc, todo, sent>>
  BY DEF JobStep, runVars
<1>1. ASSUME NEW j \in jobs, Scheduled(j)
      PROVE  Orderly'
  <2>1. PICK i \in Items, when \in {"later", "never"} : InsertItem(i, j.msg, when)
    BY <1>1 DEF Scheduled, InsertMessageOf
  <2>2. PICK s : s = [item |-> i, msg |-> j.msg, due |-> when]
    OBVIOUS
  <2>3. schedule' = schedule \cup {s} /\ \A t \in schedule : t.item # s.item
    BY <2>1, <2>2 DEF InsertItem, Fresh, Referenced
  <2> QED
    BY <1>b, <2>3 DEF Orderly, ItemsUnique, RunsClear, StillDue
<1>2. ASSUME schedule' = schedule
      PROVE  Orderly'
  BY <1>b, <1>2 DEF Orderly, ItemsUnique, RunsClear, StillDue
<1>3. ASSUME NEW j \in jobs, JobProceeds(j), ~Scheduled(j)
      PROVE  schedule' = schedule
  BY <1>3 DEF JobProceeds, Registered, ReplyProcessed, ReplyIgnored, ReplyRetryAfter, ReplyRetryDate,
              ReplyFailed, ReplyThrown, Killed, KillDuplicate, Unregistered, Acked, storeVars
<1> QED
  BY <1>1, <1>2, <1>3, <1>a DEF JobStep, Receive, RegisterFails, InsertFails

\* What the API has not accepted yet has not been let go of.
LEMMA UnacceptedStep ==
    ASSUME Calm, Next, NoMishap', NEW id \in Ids \ accepted'
    PROVE  released'[id] = {}
<1>a. /\ TypeOK /\ accepted \subseteq accepted'
      /\ \A k \in {"crash", "delete", "scheduleNow", "redis", "store"} : ~Mishap(k)
  <2>1. StoreStep \/ RunStep \/ JobStep => accepted \subseteq accepted'
    BY JobStepFrame DEF StoreStep, Publish, Flush, Restart, BecomeDue, ApiDelete, Crash,
       RunStep, RunProceeds, AcquireLock, ReadDue, FindOne, EnqueueNext, DeleteSent, FinishPoll,
       UnlockFails, FinishRequest, RunFails, LeaseExpires, storeVars
  <2> QED
    BY <2>1, CalmBefore, NoDeadStep DEF Calm, Next, Kinds
<1>b. released[id] = {} /\ Good(id) /\ Copies(id) = {}
  BY <1>a, CalmGood DEF Calm, CopyInv, Good
<1>c. ASSUME UNCHANGED released
      PROVE  released'[id] = {}
  BY <1>b, <1>c
<1>1. CASE StoreStep
  BY <1>1, <1>a, <1>c DEF StoreStep, Publish, Flush, Restart, BecomeDue, ApiDelete, Crash
<1>2. CASE RunStep
  BY <1>2, <1>c DEF RunStep, RunProceeds, AcquireLock, ReadDue, FindOne, EnqueueNext, DeleteSent,
                    FinishPoll, UnlockFails, FinishRequest, RunFails, LeaseExpires, storeVars
<1>3. CASE JobStep
  <2>1. ASSUME NEW j \in jobs, Unsettled(j)
        PROVE  id # j.msg.id
    <3>1. SUFFICES ASSUME id = j.msg.id PROVE FALSE
      OBVIOUS
    <3>2. <<"jobs", j>> \in Copies(id)
      BY <2>1, <3>1 DEF Copies, InJobs
    <3> QED
      BY <1>b, <3>2
  <2>2. ASSUME NEW j \in jobs, ReplyProcessed(j) \/ ReplyIgnored(j)
        PROVE  released'[id] = {}
    <3>1. Unsettled(j) /\ \E why \in Reasons : LetGo({j.msg.id}, why)
      BY <2>2 DEF ReplyProcessed, ReplyIgnored, Unsettled, Reasons
    <3> QED
      BY <1>b, <2>1, <3>1 DEF LetGo
  <2>3. ASSUME NEW j \in jobs, Killed(j) \/ KillDuplicate(j)
        PROVE  UNCHANGED released
    <3>1. ~Overtaken(j.msg)
      BY NothingRevived DEF Calm
    <3> QED
      BY <2>3, <3>1 DEF Killed, KillDuplicate, DiesAgain
  <2> QED
    BY <1>3, <1>a, <1>c, <2>2, <2>3
       DEF JobStep, JobProceeds, Receive, Registered, RegisterFails, InsertFails, ReplyRetryAfter,
           ReplyRetryDate, ReplyFailed, ReplyThrown, Scheduled, Unregistered, Acked, storeVars
<1> QED
  BY <1>1, <1>2, <1>3, NoDeadStep DEF Next

LEMMA CopyStep ==
    ASSUME TypeOK, CopyInv, MutexInv, RevivalsCounted, Next
    PROVE  CopyInv'
<1> SUFFICES ASSUME NoMishap' PROVE CopyInv'
  BY DEF CopyInv, OneCopy
<1>1. Calm /\ Orderly
  BY CalmBefore DEF Calm, CopyInv
<1>2. ~DeadStep
  BY <1>1, NoDeadStep
<1>3. \A id \in Ids : Good(id)'
  BY <1>1, <1>2, CopyStoreStep, CopyRunStep, CopyJobStep DEF Next
<1>4. Orderly'
  BY <1>1, <1>2, OrderlyStoreStep, OrderlyRunStep, OrderlyJobStep DEF Next
<1>5. \A id \in Ids \ accepted' : released'[id] = {}
  BY <1>1, UnacceptedStep
<1> QED
  BY <1>3, <1>4, <1>5 DEF CopyInv, OneCopy, Good

LEMMA CopyInit ==
    ASSUME Init
    PROVE  CopyInv /\ RevivalsCounted
<1> USE DEF Init, StoreInit, LockInit, RunInit, RevivalInit, JobInit
<1>1. ASSUME NEW id \in Ids
      PROVE  Copies(id) = {}
  <2>1. \A x : x \notin InBag(inQueue, id) /\ \A h \in Hubs : x \notin InBag(outbox[h], id)
    BY EmptyBagType DEF InBag
  <2>2. \A x : x \notin InSockets(id)
    BY <2>1 DEF InSockets
  <2>3. \A x : x \notin InSchedule(id) /\ x \notin InGrave(id) /\ x \notin InJobs(id)
    BY DEF InSchedule, InGrave, InJobs
  <2>4. \A x : x \notin Copies(id)
    BY <2>1, <2>2, <2>3 DEF Copies
  <2> QED
    BY <2>4
<1>2. OneCopy
  BY <1>1 DEF OneCopy
<1>3. ItemsUnique /\ RunsClear /\ StillDue /\ \A q \in Requests : runPc[q] = "idle"
  BY DEF ItemsUnique, RunsClear, StillDue, Runs
<1> QED
  BY <1>2, <1>3 DEF CopyInv, Orderly, RevivalsCounted

\* The inductive invariant behind the next two theorems.
LEMMA CopyInvHolds == Spec => [](CopyInv /\ RevivalsCounted)
<1>1. Init => CopyInv /\ RevivalsCounted
  BY CopyInit
<1>2. TypeOK /\ MutexInv /\ CopyInv /\ RevivalsCounted /\ [Next]_vars
          => CopyInv' /\ RevivalsCounted'
  <2>1. CASE UNCHANGED vars
    <3>1. CopyInv => CopyInv'
      BY <2>1 DEF vars, storeVars, runVars, revivalVars, jobVars, CopyInv, OneCopy, NoMishap, Copies,
                  InBag, InSockets, InSchedule, Sent, InGrave, Overtaken, InJobs, Unsettled,
                  Orderly, ItemsUnique, RunsClear, StillDue
    <3> QED
      BY <2>1, <3>1, RevivalsCountedStep
  <2> QED
    BY <2>1, CopyStep, RevivalsCountedStep
<1> QED
  BY <1>1, <1>2, TypeCorrect, MutexInvHolds, PTL DEF Spec

(* However many hub processes poll one schedule: until something fails or  *)
(* an administrator interferes, a message has exactly one copy from the    *)
(* 201 of the API until the service has answered it, and none after that   *)
(* (scheduler.js:71-82, rabbit_queue.js:54-67).                            *)
THEOREM OneCopyHolds == Spec => []OneCopy
<1>1. CopyInv => OneCopy
  BY DEF CopyInv
<1> QED
  BY <1>1, CopyInvHolds, PTL

-----------------------------------------------------------------------------
(* Why messages are let go of.                                             *)

\* What has happened stays so.
LEMMA ReasonsStay ==
    ASSUME TypeOK, [Next]_vars
    PROVE  /\ NoMishap' => NoMishap
           /\ \A w : Happened(w) => Happened(w)'
           /\ \A j : CaughtAfter(j) => CaughtAfter(j)'
<1>1. count \in [Kinds -> Nat] /\ count' \in [Kinds -> Nat] /\ \A k \in Kinds : count'[k] >= count[k]
  BY TypeStep, MishapsGrow DEF TypeOK, StoreTypeOK
<1>2. \A k \in Kinds : count[k] > 0 => count'[k] > 0
  BY <1>1
<1>3. \A k \in Kinds : count[k] > 1 => count'[k] > 1
  BY <1>1
<1>4. NoMishap' => NoMishap
  BY <1>1 DEF NoMishap
<1>5. ASSUME NEW w, Happened(w)
      PROVE  Happened(w)'
  BY <1>2, <1>3, <1>5 DEF Happened, Kinds
<1>6. ASSUME NEW j, CaughtAfter(j)
      PROVE  CaughtAfter(j)'
  BY <1>2, <1>4, <1>6 DEF CaughtAfter, Kinds
<1> QED
  BY <1>4, <1>5, <1>6

\* The parts of ReasonsInv.
LEMMA LetGoReasons ==
    ASSUME TypeOK, [Next]_vars, ReasonsInv, NEW ids, NEW w, LetGo(ids, w), Happened(w)'
    PROVE  \A id \in Ids : \A v \in released'[id] : Happened(v)'
<1>1. \A id \in Ids : \A v \in released'[id] : v = w \/ v \in released[id]
  BY DEF LetGo
<1> QED
  BY <1>1, ReasonsStay DEF ReasonsInv

LEMMA KeepReasons ==
    ASSUME TypeOK, [Next]_vars, ReasonsInv, released' = released
    PROVE  \A id \in Ids : \A v \in released'[id] : Happened(v)'
  BY ReasonsStay DEF ReasonsInv

LEMMA JobReasons ==
    ASSUME TypeOK, [Next]_vars, ReasonsInv,
           \A k \in jobs' : \/ \E j \in jobs : k.caught = j.caught
                           \/ CaughtAfter(k)'
    PROVE  \A k \in jobs' : CaughtAfter(k)'
<1> SUFFICES ASSUME NEW k \in jobs', NEW j \in jobs, k.caught = j.caught
             PROVE  CaughtAfter(k)'
  OBVIOUS
<1>1. CaughtAfter(j)'
  BY ReasonsStay DEF ReasonsInv
<1> QED
  BY <1>1 DEF CaughtAfter

\* A message that is overtaken was revived, which is counted.
LEMMA DiesAgainReasons ==
    ASSUME TypeOK, [Next]_vars, ReasonsInv, RevivalsCounted, NEW j \in jobs, DiesAgain(j)
    PROVE  \A id \in Ids : \A v \in released'[id] : Happened(v)'
<1>1. CASE Overtaken(j.msg)
  <2>1. count["reenqueue"] > 0
    BY <1>1 DEF Overtaken, RevivalsCounted
  <2>2. Happened("overtaken")'
    BY <2>1, ReasonsStay DEF Happened
  <2> QED
    BY <1>1, <2>2, LetGoReasons DEF DiesAgain
<1>2. CASE ~Overtaken(j.msg)
  BY <1>2, KeepReasons DEF DiesAgain
<1> QED
  BY <1>1, <1>2

LEMMA ReasonsJobStep ==
    ASSUME TypeOK, CopyInv, MutexInv, RevivalsCounted, ReasonsInv, JobStep
    PROVE  ReasonsInv'
<1>a. [Next]_vars /\ \A j \in jobs : j \in Job
  BY DEF Next, TypeOK, JobTypeOK
<1>b. ASSUME \A id \in Ids : \A v \in released'[id] : Happened(v)',
             \A k \in jobs' : (\E j \in jobs : k.caught = j.caught) \/ CaughtAfter(k)'
      PROVE  ReasonsInv'
  BY <1>a, <1>b, JobReasons DEF ReasonsInv
<1>m. \A k \in Kinds : Mishap(k) => count'[k] > 0 /\ (count[k] > 0 => count'[k] > 1)
  BY MishapType DEF TypeOK, StoreTypeOK
<1>d. ASSUME NEW j \in jobs, Settle(j)
      PROVE  \A k \in jobs' : \E i \in jobs : k.caught = i.caught
  BY <1>a, <1>d DEF Settle, Replace, Job
\* The exception c has a cause.
<1>e. ASSUME NEW j \in jobs, NEW c \in Exceptions, HandleError(j, c),
             c = "insert" => ~NoMishap',
             c = "delivery" => "thrown" \in Replies \/ count'["redis"] > 0
      PROVE  \A k \in jobs' : (\E i \in jobs : k.caught = i.caught) \/ CaughtAfter(k)'
  <2>1. PICK k \in Job : Replace(j, k) /\ k.caught = c
    BY <1>e, HandleErrorEffect
  <2>2. CaughtAfter(k)'
    BY <1>e, <2>1 DEF CaughtAfter
  <2> QED
    BY <2>1, <2>2 DEF Replace
<1>1. ASSUME NEW w \in Workers, Receive(w)
      PROVE  ReasonsInv'
  <2>1. \A k \in jobs' : k \in jobs \/ k.caught = "nothing"
    BY <1>1 DEF Receive
  <2>2. \A k \in jobs' : k \in jobs \/ CaughtAfter(k)'
    BY <2>1 DEF CaughtAfter
  <2> QED
    BY <1>1, <1>a, <1>b, <2>2, KeepReasons DEF Receive
<1>2. ASSUME NEW j \in jobs, MovesOn(j)
      PROVE  ReasonsInv'
  <2>1. \A k \in jobs' : \E i \in jobs : k.caught = i.caught
    BY <1>2, <1>a DEF MovesOn, Registered, ReplyRetryAfter, ReplyRetryDate, Unregistered, Replace, Job
  <2>2. released' = released
    BY <1>2 DEF MovesOn, Registered, ReplyRetryAfter, ReplyRetryDate, Unregistered, storeVars
  <2> QED
    BY <1>a, <1>b, <2>1, <2>2, KeepReasons
<1>3. ASSUME NEW j \in jobs, RegisterFails(j) \/ ReplyFailed(j) \/ ReplyThrown(j)
      PROVE  ReasonsInv'
  <2>1. /\ released' = released
        /\ \E c \in {"nothing", "delivery"} :
              HandleError(j, c) /\ (c = "delivery" => "thrown" \in Replies \/ count'["redis"] > 0)
    BY <1>3, <1>m DEF RegisterFails, ReplyFailed, ReplyThrown, storeVars, Kinds
  <2>2. \A k \in jobs' : (\E i \in jobs : k.caught = i.caught) \/ CaughtAfter(k)'
    BY <1>e, <2>1 DEF Exceptions
  <2> QED
    BY <1>a, <1>b, <2>1, <2>2, KeepReasons
<1>4. ASSUME NEW j \in jobs, ReplyProcessed(j) \/ ReplyIgnored(j)
      PROVE  ReasonsInv'
  <2>1. Happened("processed")' /\ Happened("ignored")'
    BY DEF Happened
  <2>2. \A id \in Ids : \A v \in released'[id] : Happened(v)'
    BY <1>4, <1>a, <2>1, LetGoReasons DEF ReplyProcessed, ReplyIgnored
  <2> QED
    BY <1>4, <1>b, <1>d, <2>2 DEF ReplyProcessed, ReplyIgnored
<1>5. ASSUME NEW j \in jobs, Scheduled(j)
      PROVE  ReasonsInv'
  BY <1>5, <1>a, <1>b, <1>d, KeepReasons DEF Scheduled
<1>6. ASSUME NEW j \in jobs, Killed(j)
      PROVE  ReasonsInv'
  BY <1>6, <1>a, <1>b, <1>d, DiesAgainReasons DEF Killed
<1>7. ASSUME NEW j \in jobs, KillDuplicate(j)
      PROVE  ReasonsInv'
  <2>1. CASE j.caught # "nothing"
    BY <1>7, <2>1, <1>a, <1>b, <1>d, DiesAgainReasons DEF KillDuplicate
  \* An insert is refused only after a mishap.
  <2>2. CASE j.caught = "nothing"
    <3>1. ~NoMishap'
      BY <1>7, <1>a, ReasonsStay, NoDuplicate DEF KillDuplicate, Calm
    <3>2. HandleError(j, "insert") /\ released' = released
      BY <1>7, <2>2 DEF KillDuplicate
    <3>3. \A k \in jobs' : (\E i \in jobs : k.caught = i.caught) \/ CaughtAfter(k)'
      BY <1>e, <3>1, <3>2 DEF Exceptions
    <3> QED
      BY <1>a, <1>b, <3>2, <3>3, KeepReasons
  <2> QED
    BY <2>1, <2>2
<1>8. ASSUME NEW j \in jobs, InsertFails(j)
      PROVE  ReasonsInv'
  <2>1. count'["store"] > 0 /\ (count["store"] > 0 => count'["store"] > 1) /\ StoreRejects(j)
    BY <1>8, <1>m DEF InsertFails, Kinds
  <2>2. CASE j.caught = "nothing"
    <3>1. ~NoMishap'
      BY <2>1 DEF NoMishap, Kinds
    <3>2. HandleError(j, "insert") /\ released' = released
      BY <2>1, <2>2 DEF StoreRejects
    <3>3. \A k \in jobs' : (\E i \in jobs : k.caught = i.caught) \/ CaughtAfter(k)'
      BY <1>e, <3>1, <3>2 DEF Exceptions
    <3> QED
      BY <1>a, <1>b, <3>2, <3>3, KeepReasons
  <2>3. CASE j.caught = "delivery"
    <3>1. Settle(j) /\ LetGo({j.msg.id}, "undelivered")
      BY <2>1, <2>3 DEF StoreRejects
    <3>2. CaughtAfter(j)'
      BY <1>a, ReasonsStay DEF ReasonsInv
    <3>3. Happened("undelivered")'
      BY <2>1, <2>3, <3>2 DEF Happened, CaughtAfter
    <3> QED
      BY <1>a, <1>b, <1>d, <3>1, <3>3, LetGoReasons
  <2>4. CASE j.caught = "insert"
    <3>1. Settle(j) /\ LetGo({j.msg.id}, "storeFailed")
      BY <2>1, <2>4 DEF StoreRejects
    <3>2. PICK k \in Kinds \ {"putOff"} : count[k] # 0
      BY <2>4 DEF ReasonsInv, CaughtAfter, NoMishap
    <3>3. count[k] > 0 /\ count'[k] > 0
      BY <1>a, <3>2, TypeStep, MishapsGrow DEF TypeOK, StoreTypeOK
    <3>4. Happened("storeFailed")'
      BY <2>1, <3>2, <3>3 DEF Happened
    <3> QED
      BY <1>a, <1>b, <1>d, <3>1, <3>4, LetGoReasons
  <2> QED
    BY <1>a, <2>2, <2>3, <2>4 DEF Job, Exceptions
<1>9. ASSUME NEW j \in jobs, Acked(j)
      PROVE  ReasonsInv'
  BY <1>9, <1>a, <1>b, KeepReasons DEF Acked, storeVars
<1> QED
  BY <1>1, <1>2, <1>3, <1>4, <1>5, <1>6, <1>7, <1>8, <1>9 DEF JobStep, JobProceeds, MovesOn

LEMMA ReasonsStep ==
    ASSUME TypeOK, CopyInv, MutexInv, RevivalsCounted, ReasonsInv, [Next]_vars
    PROVE  ReasonsInv'
<1>a. ASSUME \A id \in Ids : \A v \in released'[id] : Happened(v)', jobs' \subseteq jobs
      PROVE  ReasonsInv'
  BY <1>a, JobReasons DEF ReasonsInv
<1>m. \A k \in Kinds : Mishap(k) => count'[k] > 0
  BY MishapType DEF TypeOK, StoreTypeOK
<1>1. ASSUME NEW s, ApiDelete(s) \/ ApiDeleteDead(s) \/ ApiDeleteAllDead, jobs' = jobs
      PROVE  ReasonsInv'
  <2>1. Happened("deleted")' /\ \E ids : LetGo(ids, "deleted")
    BY <1>1, <1>m DEF ApiDelete, ApiDeleteDead, ApiDeleteAllDead, Happened, Kinds
  <2> QED
    BY <1>1, <1>a, <2>1, LetGoReasons
<1>2. ASSUME NEW h \in Hubs, Crash(h)
      PROVE  ReasonsInv'
  <2>1. Happened("wiped")' /\ (\E ids : LetGo(ids, "wiped")) /\ jobs' \subseteq jobs
    BY <1>2, <1>m DEF Crash, Happened, Kinds
  <2> QED
    BY <1>a, <2>1, LetGoReasons
<1>3. ASSUME UNCHANGED <<released, jobs>>
      PROVE  ReasonsInv'
  BY <1>3, <1>a, KeepReasons
<1>4. CASE StoreStep
  BY <1>4, <1>1, <1>2, <1>3 DEF StoreStep, Publish, Flush, Restart, BecomeDue, jobVars
<1>5. CASE RunStep
  BY <1>5, <1>3 DEF RunStep, RunProceeds, AcquireLock, ReadDue, FindOne, EnqueueNext, DeleteSent,
                    FinishPoll, UnlockFails, FinishRequest, RunFails, LeaseExpires, storeVars, jobVars
<1>6. CASE DeadStep
  BY <1>6, <1>1, <1>3 DEF DeadStep, RevivalProceeds, FindDead, FindAllDead, ReadPage, EnqueueDead,
                          DeleteDead, RevivalFails, storeVars, jobVars
<1>7. CASE UNCHANGED vars
  BY <1>7, <1>3 DEF vars, storeVars, jobVars
<1> QED
  BY <1>4, <1>5, <1>6, <1>7, ReasonsJobStep DEF Next

(* The hub never loses its last copy of an accepted message, whatever      *)
(* crashes, expires, fails or overtakes whatever, unless one of the        *)
(* reasons for that has come true: above all, one rejected insert is       *)
(* enough only while an exception is being handled, and a second one, or   *)
(* an earlier mishap, is needed otherwise (rabbit_queue.js:54-67,          *)
(* delivery.js:69-80, scheduler.js:51-52, dead_letter.js:34-56).           *)
THEOREM NoUnexplainedLossHolds == Spec => []NoUnexplainedLoss
<1>1. Init => ReasonsInv
  BY DEF Init, StoreInit, JobInit, ReasonsInv
<1>2. TypeOK /\ CopyInv /\ MutexInv /\ RevivalsCounted /\ ReasonsInv /\ [Next]_vars => ReasonsInv'
  BY ReasonsStep
<1>3. TypeOK /\ LossInv /\ ReasonsInv => NoUnexplainedLoss
  BY DEF TypeOK, StoreTypeOK, LossInv, Kept, ReasonsInv, NoUnexplainedLoss
<1> QED
  BY <1>1, <1>2, <1>3, TypeCorrect, LossInvHolds, MutexInvHolds, CopyInvHolds, PTL DEF Spec

=============================================================================
