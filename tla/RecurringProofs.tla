--------------------------- MODULE RecurringProofs ---------------------------
(***************************************************************************)
(* Proofs about Recurring, for any number of pollers, requests, types,     *)
(* turns and mishaps: a turn is sent once, and none is put off unsent.     *)
(***************************************************************************)
EXTENDS Recurring, TLAPS

\* Two runs work at the same time only after the lock has run out under one.
Mutex == count["expiry"] = 0 => \A p \in Pollers : runPc[p] # "idle" => lock = p

\* A run that has not read anything yet has nothing in hand.
Clear == \A p \in Pollers : runPc[p] # "sending" => todo[p] = {} /\ sent[p] = {}

\* The unique _id: one document a type.
OneDoc == \A d, e \in docs : d.type = e.type => d = e

InRun(p) == todo[p] \cup sent[p]

\* Nothing is sent or in hand for a turn that is still to come.
Past ==
    /\ \A t \in Types, n \in Turns : n > turn[t] => fired[t][n] = 0
    /\ \A p \in Pollers : \A m \in InRun(p) : m.turn <= turn[m.type]

Calm == count["failure"] = 0 /\ count["expiry"] = 0

\* What is to be sent has not been, and what is due has not been but by a run
\* that will put it off.
Unsent ==
    Calm =>
    /\ \A p \in Pollers : \A m \in todo[p] : fired[m.type][m.turn] = 0
    /\ \A d \in docs : d.next = "due" =>
           \/ fired[d.type][turn[d.type]] = 0
           \/ \E p \in Pollers : \E m \in sent[p] : m.type = d.type

SentFired == \A p \in Pollers : \A m \in sent[p] : fired[m.type][m.turn] > 0

Kept == count["expiry"] = 0 /\ count["delete"] = 0

\* What a run has in hand is what its document still waits for.
Current ==
    Kept => \A p \in Pollers : \A m \in InRun(p) :
                \E d \in docs : /\ d.type = m.type /\ d.next # "later"
                                /\ d.next = "due" => turn[d.type] = m.turn

\* A run has a type in hand once.
Distinct ==
    \A p \in Pollers :
        /\ \A m, n \in todo[p] : m.type = n.type => m = n
        /\ \A m \in todo[p], n \in sent[p] : m.type # n.type

Inv == /\ TypeOK /\ Mutex /\ Clear /\ OneDoc /\ Past
       /\ Unsent /\ OncePerTurn /\ SentFired /\ Current /\ Distinct

-----------------------------------------------------------------------------

LEMMA InitInv == Init => Inv
<1> SUFFICES ASSUME Init PROVE Inv
    OBVIOUS
<1> USE DEF Init
<1>1. TypeOK
    BY TurnsAssumption DEF TypeOK, Turns, Kinds, LockTypeOK, LockInit
<1>2. Mutex /\ Clear /\ OneDoc /\ SentFired /\ Current /\ Distinct
    BY DEF Mutex, Clear, OneDoc, SentFired, Current, Distinct, InRun
<1>3. Past /\ Unsent /\ OncePerTurn
    BY TurnsAssumption DEF Past, Unsent, OncePerTurn, InRun, Turns
<1> QED BY <1>1, <1>2, <1>3 DEF Inv

\* What counting a mishap does to the counters.
LEMMA CountedType ==
    ASSUME count \in [Kinds -> Nat], NEW k \in Kinds, Counted(k)
    PROVE  /\ count' \in [Kinds -> Nat]
           /\ count'[k] > 0
           /\ \A n \in Kinds : n # k => count'[n] = count[n]
BY DEF Counted

\* The $set changes the time of the next run, and nothing but that.
LEMMA SetNextType ==
    ASSUME docs \subseteq Doc, NEW types, SetNext(types)
    PROVE  /\ docs' \subseteq Doc
           /\ \A d \in docs' : \E e \in docs :
                 e.type = d.type /\ e.rid = d.rid
                 /\ d.next = IF e.type \in types THEN "later" ELSE e.next
           /\ \A e \in docs : e.type \notin types => e \in docs'
BY DEF SetNext, Doc

LEMMA TypeStep == TypeOK /\ [Next]_vars => TypeOK'
<1> SUFFICES ASSUME TypeOK, [Next]_vars PROVE TypeOK'
    OBVIOUS
<1> USE DEF TypeOK, LockTypeOK, runVars
<1>1. ASSUME NEW q \in Requests, NEW t \in Types, RegisterFind(q, t) PROVE TypeOK'
    <2>1. "register" \in Kinds
        BY DEF Kinds
    <2>2. count' \in [Kinds -> Nat]
        BY <1>1, <2>1, CountedType DEF RegisterFind
    <2> QED BY <1>1, <2>1, <2>2 DEF RegisterFind, Post
<1>2. ASSUME NEW rid, Unregister(rid) PROVE TypeOK'
    BY <1>2, CountedType DEF Unregister, Kinds
<1>3. ASSUME NEW q \in Requests, RegisterInsert(q) \/ RegisterUpdate(q) PROVE TypeOK'
    <2>1. docs' \subseteq Doc
        BY <1>3 DEF RegisterInsert, RegisterUpdate, Doc, Post
    <2> QED BY <1>3, <2>1 DEF RegisterInsert, RegisterUpdate
<1>4. ASSUME NEW d \in docs, BecomeDue(d) PROVE TypeOK'
    <2>1. d \in Doc /\ [d EXCEPT !.next = "due"] \in Doc
        BY DEF Doc
    <2>2. turn' \in [Types -> Turns]
        BY <1>4, <2>1, TurnsAssumption DEF BecomeDue, Doc, Turns
    <2> QED BY <1>4, <2>1, <2>2 DEF BecomeDue
<1>5. ASSUME NEW p \in Pollers, AcquireLock(p) PROVE TypeOK'
    BY <1>5 DEF AcquireLock, TryAcquire
<1>6. ASSUME NEW p \in Pollers, GetDueMessages(p) PROVE TypeOK'
    BY <1>6 DEF GetDueMessages, Doc, Copy
<1>7. ASSUME NEW p \in Pollers, EnqueueNext(p) PROVE TypeOK'
    <2>1. fired' \in [Types -> [Turns -> Nat]]
        BY <1>7 DEF EnqueueNext, Copy
    <2> QED BY <1>7, <2>1 DEF EnqueueNext
<1>8. ASSUME NEW p \in Pollers, ScheduleNextRun(p) PROVE TypeOK'
    BY <1>8, SetNextType DEF ScheduleNextRun
<1>9. ASSUME NEW p \in Pollers, FinishPoll(p) PROVE TypeOK'
    BY <1>9 DEF FinishPoll, RunEnds, ReleaseLock
<1>10. ASSUME NEW p \in Pollers, RunFails(p) PROVE TypeOK'
    <2>1. docs' \subseteq Doc
        BY <1>10, SetNextType DEF RunFails
    <2>2. count' \in [Kinds -> Nat]
        BY <1>10, CountedType DEF RunFails, Kinds
    <2> QED BY <1>10, <2>1, <2>2 DEF RunFails, RunEnds
<1>11. CASE LeaseExpires
    <2>1. count' \in [Kinds -> Nat]
        BY <1>11, CountedType DEF LeaseExpires, Kinds
    <2> QED BY <1>11, <2>1 DEF LeaseExpires, LeaseEnds
<1>12. CASE UNCHANGED vars
    BY <1>12 DEF vars
<1> QED BY <1>1, <1>2, <1>3, <1>4, <1>5, <1>6, <1>7, <1>8, <1>9, <1>10, <1>11, <1>12
        DEF Next, ApiRequest, RunProceeds

(* The lock keeps its owner while the owner is at work, as long as it does *)
(* not run out.                                                            *)
LEMMA MutexStep == TypeOK /\ Mutex /\ [Next]_vars => Mutex'
<1> SUFFICES ASSUME TypeOK, Mutex, [Next]_vars, count'["expiry"] = 0,
                    NEW p \in Pollers, runPc'[p] # "idle"
             PROVE  lock' = p
    BY DEF Mutex
<1> USE DEF TypeOK, runVars
<1>1. \A k \in Kinds : Counted(k) /\ k # "expiry" => count["expiry"] = 0
    BY CountedType DEF Kinds
<1>2. ~Counted("expiry")
    BY CountedType DEF Kinds
<1>3. ASSUME count["expiry"] = 0 PROVE lock' = p
    <2>1. \A q \in Pollers : runPc[q] # "idle" => lock = q
        BY <1>3 DEF Mutex
    <2>2. CASE ApiRequest \/ (\E q \in Requests : RegisterInsert(q) \/ RegisterUpdate(q))
        BY <2>1, <2>2 DEF ApiRequest, RegisterFind, Unregister, RegisterInsert, RegisterUpdate
    <2>3. CASE \E d \in docs : BecomeDue(d)
        BY <2>1, <2>3 DEF BecomeDue
    <2>4. CASE \E q \in Pollers : AcquireLock(q)
        BY <2>1, <2>4, FreeAssumption DEF AcquireLock, TryAcquire
    <2>5. CASE \E q \in Pollers : RunProceeds(q)
        BY <2>1, <2>5, FreeAssumption
           DEF RunProceeds, GetDueMessages, EnqueueNext, ScheduleNextRun, FinishPoll,
               ReleaseLock, RunEnds
    <2>6. CASE \E q \in Pollers : RunFails(q)
        BY <2>1, <2>6 DEF RunFails, RunEnds
    <2>7. CASE LeaseExpires
        BY <1>2, <2>1, <2>7 DEF LeaseExpires, LeaseEnds
    <2>8. CASE UNCHANGED vars
        BY <2>1, <2>8 DEF vars
    <2> QED BY <2>2, <2>3, <2>4, <2>5, <2>6, <2>7, <2>8 DEF Next
<1>4. count["expiry"] = 0
    BY <1>1, <1>2 DEF Next, ApiRequest, RegisterFind, Unregister, RegisterInsert, RegisterUpdate,
        BecomeDue, AcquireLock, RunProceeds, GetDueMessages, EnqueueNext, ScheduleNextRun,
        FinishPoll, RunFails, LeaseExpires, vars, Kinds
<1> QED BY <1>3, <1>4

LEMMA ClearStep == TypeOK /\ Clear /\ [Next]_vars => Clear'
<1> SUFFICES ASSUME TypeOK, Clear, [Next]_vars PROVE Clear'
    OBVIOUS
<1> USE DEF TypeOK, Clear, runVars
<1>1. CASE UNCHANGED runVars
    BY <1>1
<1>2. CASE \E p \in Pollers : AcquireLock(p) \/ RunFails(p)
    BY <1>2 DEF AcquireLock, RunFails, RunEnds
<1>3. CASE \E p \in Pollers : RunProceeds(p)
    BY <1>3 DEF RunProceeds, GetDueMessages, EnqueueNext, ScheduleNextRun, FinishPoll, RunEnds
<1> QED BY <1>1, <1>2, <1>3 DEF Next, ApiRequest, RegisterFind, Unregister, RegisterInsert,
        RegisterUpdate, BecomeDue, LeaseExpires, vars

LEMMA OneDocStep == TypeOK /\ OneDoc /\ [Next]_vars => OneDoc'
<1> SUFFICES ASSUME TypeOK, OneDoc, [Next]_vars PROVE OneDoc'
    OBVIOUS
<1> USE DEF OneDoc
<1>1. CASE UNCHANGED docs
    BY <1>1
<1>2. CASE \E rid : Unregister(rid)
    BY <1>2 DEF Unregister
<1>3. CASE \E q \in Requests : RegisterInsert(q) \/ RegisterUpdate(q)
    BY <1>3 DEF RegisterInsert, RegisterUpdate
<1>4. CASE \E d \in docs : BecomeDue(d)
    BY <1>4 DEF BecomeDue, TypeOK, Doc
<1>5. ASSUME NEW types, SetNext(types) PROVE OneDoc'
    BY <1>5 DEF SetNext, TypeOK, Doc
<1> QED BY <1>1, <1>2, <1>3, <1>4, <1>5
        DEF Next, ApiRequest, RegisterFind, AcquireLock, RunProceeds, GetDueMessages, EnqueueNext,
            ScheduleNextRun, FinishPoll, RunFails, LeaseExpires, vars

LEMMA PastStep == TypeOK /\ Clear /\ Past /\ [Next]_vars => Past'
<1> SUFFICES ASSUME TypeOK, Clear, Past, [Next]_vars PROVE Past'
    OBVIOUS
<1> USE DEF TypeOK, Past, InRun, runVars
<1>1. CASE UNCHANGED <<turn, fired, todo, sent>>
    BY <1>1
<1>2. ASSUME NEW d \in docs, BecomeDue(d) PROVE Past'
    <2>1. \A t \in Types : turn[t] \in Nat /\ turn'[t] \in Nat /\ turn'[t] >= turn[t]
        BY <1>2, TurnsAssumption DEF BecomeDue, Turns, Doc
    <2>2. \A p \in Pollers : \A m \in todo[p] \cup sent[p] : m.type \in Types /\ m.turn \in Nat
        BY TurnsAssumption DEF Copy, Turns
    <2> QED BY <1>2, <2>1, <2>2, TurnsAssumption DEF BecomeDue, Turns
<1>3. ASSUME NEW p \in Pollers, GetDueMessages(p) PROVE Past'
    <2>1. \A m \in todo'[p] \cup sent'[p] : m.turn <= turn[m.type]
        BY <1>3, TurnsAssumption DEF GetDueMessages, Clear, Doc, Turns
    <2> QED BY <1>3, <2>1 DEF GetDueMessages
<1>4. ASSUME NEW p \in Pollers, EnqueueNext(p) PROVE Past'
    <2>1. PICK m \in todo[p] : /\ todo' = [todo EXCEPT ![p] = @ \ {m}]
                               /\ sent' = [sent EXCEPT ![p] = {m}]
                               /\ fired' = [fired EXCEPT ![m.type][m.turn] = @ + 1]
        BY <1>4 DEF EnqueueNext
    <2>2. m \in Copy /\ m.turn <= turn[m.type]
        OBVIOUS
    <2>3. \A t \in Types, n \in Turns : n > turn[t] => fired'[t][n] = 0
        BY <2>1, <2>2, TurnsAssumption DEF Copy, Turns
    <2>4. \A q \in Pollers : todo'[q] \cup sent'[q] \subseteq todo[q] \cup sent[q]
        BY <2>1
    <2> QED BY <1>4, <2>3, <2>4 DEF EnqueueNext
<1>5. ASSUME NEW p \in Pollers, ScheduleNextRun(p) \/ FinishPoll(p) \/ RunFails(p) PROVE Past'
    <2>1. \A q \in Pollers : todo'[q] \cup sent'[q] \subseteq todo[q] \cup sent[q]
        BY <1>5 DEF ScheduleNextRun, FinishPoll, RunFails, RunEnds
    <2> QED BY <1>5, <2>1 DEF ScheduleNextRun, FinishPoll, RunFails
<1> QED BY <1>1, <1>2, <1>3, <1>4, <1>5
        DEF Next, ApiRequest, RegisterFind, RegisterInsert, RegisterUpdate, Unregister,
            AcquireLock, RunProceeds, LeaseExpires, vars

LEMMA SentFiredStep == TypeOK /\ SentFired /\ [Next]_vars => SentFired'
<1> SUFFICES ASSUME TypeOK, SentFired, [Next]_vars PROVE SentFired'
    OBVIOUS
<1> USE DEF TypeOK, SentFired, runVars
<1>1. CASE UNCHANGED <<fired, sent>>
    BY <1>1
<1>2. ASSUME NEW p \in Pollers, EnqueueNext(p) PROVE SentFired'
    <2>1. PICK m \in todo[p] : /\ sent' = [sent EXCEPT ![p] = {m}]
                               /\ fired' = [fired EXCEPT ![m.type][m.turn] = @ + 1]
        BY <1>2 DEF EnqueueNext
    <2>2. m \in Copy
        OBVIOUS
    <2>3. fired'[m.type][m.turn] > 0
        BY <2>1, <2>2 DEF Copy
    <2>4. \A t \in Types, n \in Turns : fired'[t][n] >= fired[t][n]
        BY <2>1, <2>2 DEF Copy
    <2>5. \A q \in Pollers : \A n \in sent[q] : fired'[n.type][n.turn] > 0
        <3>1. \A q \in Pollers : \A n \in sent[q] : n.type \in Types /\ n.turn \in Turns
            BY DEF Copy
        <3>2. fired' \in [Types -> [Turns -> Nat]]
            BY <2>1, <2>2 DEF Copy
        <3> QED BY <2>4, <3>1, <3>2
    <2> QED BY <2>1, <2>3, <2>5
<1>3. ASSUME NEW p \in Pollers, ScheduleNextRun(p) \/ FinishPoll(p) \/ RunFails(p)
      PROVE  SentFired'
    BY <1>3 DEF ScheduleNextRun, FinishPoll, RunFails, RunEnds
<1> QED BY <1>1, <1>2, <1>3
        DEF Next, ApiRequest, RegisterFind, RegisterInsert, RegisterUpdate, Unregister, BecomeDue,
            AcquireLock, RunProceeds, GetDueMessages, LeaseExpires, vars

LEMMA DistinctStep == TypeOK /\ Clear /\ OneDoc /\ Distinct /\ [Next]_vars => Distinct'
<1> SUFFICES ASSUME TypeOK, Clear, OneDoc, Distinct, [Next]_vars PROVE Distinct'
    OBVIOUS
<1> USE DEF TypeOK, Distinct, runVars
<1>1. CASE UNCHANGED <<todo, sent>>
    BY <1>1
<1>2. ASSUME NEW p \in Pollers, GetDueMessages(p) PROVE Distinct'
    <2>1. sent[p] = {}
        BY <1>2 DEF GetDueMessages, Clear
    <2>2. \A m, n \in todo'[p] : m.type = n.type => m = n
        BY <1>2 DEF GetDueMessages, OneDoc
    <2> QED BY <1>2, <2>1, <2>2 DEF GetDueMessages
<1>3. ASSUME NEW p \in Pollers, EnqueueNext(p) PROVE Distinct'
    BY <1>3 DEF EnqueueNext
<1>4. ASSUME NEW p \in Pollers, ScheduleNextRun(p) \/ FinishPoll(p) \/ RunFails(p)
      PROVE  Distinct'
    BY <1>4 DEF ScheduleNextRun, FinishPoll, RunFails, RunEnds
<1> QED BY <1>1, <1>2, <1>3, <1>4
        DEF Next, ApiRequest, RegisterFind, RegisterInsert, RegisterUpdate, Unregister, BecomeDue,
            AcquireLock, RunProceeds, LeaseExpires, vars

-----------------------------------------------------------------------------

\* A step that counts no failure and no expiry started from a calm state.
LEMMA StayCalm ==
    ASSUME TypeOK, [Next]_vars
    PROVE  /\ \A k \in Kinds : count'[k] = 0 => count[k] = 0
           /\ Calm' => Calm
           /\ Kept' => Kept
<1>1. ASSUME NEW k \in Kinds, count'[k] = 0, NEW n \in Kinds, Counted(n) PROVE count[k] = 0
    BY <1>1, CountedType DEF TypeOK
<1>2. ASSUME NEW k \in Kinds, count'[k] = 0 PROVE count[k] = 0
    BY <1>1, <1>2 DEF Next, ApiRequest, RegisterFind, Unregister, RegisterInsert, RegisterUpdate,
        BecomeDue, AcquireLock, RunProceeds, GetDueMessages, EnqueueNext, ScheduleNextRun,
        FinishPoll, RunFails, LeaseExpires, vars, Kinds
<1> QED BY <1>2 DEF Calm, Kept, Kinds

(* A turn that is sent has not been sent before: the run read it while     *)
(* nobody else was at work, and what was due then had not been sent.       *)
LEMMA UnsentStep ==
    TypeOK /\ Mutex /\ Clear /\ Past /\ Unsent /\ OncePerTurn /\ [Next]_vars
        => Unsent' /\ OncePerTurn'
<1> SUFFICES ASSUME TypeOK, Mutex, Clear, Past, Unsent, OncePerTurn, [Next]_vars, Calm'
             PROVE  Unsent' /\ OncePerTurn'
    BY DEF Unsent, OncePerTurn, Calm
<1> USE DEF TypeOK, runVars
<1>0. Calm
    BY StayCalm
<1>a. \A p \in Pollers : \A m \in todo[p] : fired[m.type][m.turn] = 0
    BY <1>0 DEF Unsent
<1>b. \A d \in docs : d.next = "due" =>
          \/ fired[d.type][turn[d.type]] = 0
          \/ \E p \in Pollers : \E m \in sent[p] : m.type = d.type
    BY <1>0 DEF Unsent
<1>c. \A t \in Types, n \in Turns : fired[t][n] <= 1
    BY <1>0 DEF OncePerTurn, Calm
<1>d. \A p \in Pollers : runPc[p] # "idle" => lock = p
    BY <1>0 DEF Mutex, Calm
<1>1. CASE UNCHANGED <<docs, turn, fired, todo, sent>>
    BY <1>1, <1>a, <1>b, <1>c DEF Unsent, OncePerTurn
<1>2. CASE (\E q \in Requests : RegisterInsert(q) \/ RegisterUpdate(q)) \/ (\E rid : Unregister(rid))
    <2>1. \A d \in docs' : d.next = "due" => d \in docs
        BY <1>2 DEF RegisterInsert, RegisterUpdate, Unregister
    <2> QED BY <1>2, <2>1, <1>a, <1>b, <1>c
            DEF RegisterInsert, RegisterUpdate, Unregister, Unsent, OncePerTurn
<1>3. ASSUME NEW d \in docs, BecomeDue(d) PROVE Unsent' /\ OncePerTurn'
    <2>1. d.type \in Types /\ turn[d.type] < MaxTurns
        BY <1>3 DEF BecomeDue, Doc
    <2>2. turn[d.type] + 1 \in Turns
        BY <2>1, TurnsAssumption DEF Turns
    <2>3. fired[d.type][turn[d.type] + 1] = 0
        BY <2>1, <2>2, TurnsAssumption DEF Past, Turns
    <2>4. turn' = [turn EXCEPT ![d.type] = @ + 1]
        BY <1>3 DEF BecomeDue
    <2>5. \A e \in docs' : e = [d EXCEPT !.next = "due"] \/ e \in docs
        BY <1>3 DEF BecomeDue
    <2>6. ASSUME NEW e \in docs', e.next = "due"
          PROVE  \/ fired[e.type][turn'[e.type]] = 0
                 \/ \E p \in Pollers : \E m \in sent[p] : m.type = e.type
        <3>1. CASE e.type = d.type
            BY <2>1, <2>3, <2>4, <3>1
        <3>2. CASE e.type # d.type
            <4>1. e \in docs
                BY <2>5, <3>2 DEF Doc
            <4> QED BY <2>4, <2>6, <3>2, <4>1, <1>b DEF Doc
        <3> QED BY <3>1, <3>2
    <2> QED BY <1>3, <2>6, <1>a, <1>c DEF BecomeDue, Unsent, OncePerTurn
<1>4. ASSUME NEW p \in Pollers, GetDueMessages(p) PROVE Unsent' /\ OncePerTurn'
    <2>1. \A q \in Pollers : sent[q] = {}
        BY <1>4, <1>d DEF GetDueMessages, Clear
    <2>2. \A d \in docs : d.next = "due" => fired[d.type][turn[d.type]] = 0
        BY <2>1, <1>b
    <2>3. \A m \in todo'[p] : fired[m.type][m.turn] = 0
        BY <1>4, <2>2 DEF GetDueMessages
    <2> QED BY <1>4, <2>2, <2>3, <1>a, <1>c DEF GetDueMessages, Unsent, OncePerTurn
<1>5. ASSUME NEW p \in Pollers, EnqueueNext(p) PROVE Unsent' /\ OncePerTurn'
    <2>1. PICK m \in todo[p] : /\ todo' = [todo EXCEPT ![p] = @ \ {m}]
                               /\ sent' = [sent EXCEPT ![p] = {m}]
                               /\ fired' = [fired EXCEPT ![m.type][m.turn] = @ + 1]
        BY <1>5 DEF EnqueueNext
    <2>2. m \in Copy /\ fired[m.type][m.turn] = 0
        BY <1>a
    <2>3. \A q \in Pollers : q # p => todo[q] = {} /\ sent[q] = {}
        BY <1>d DEF Clear
    <2>4. \A t \in Types, n \in Turns :
              fired'[t][n] = IF t = m.type /\ n = m.turn THEN 1 ELSE fired[t][n]
        BY <2>1, <2>2 DEF Copy
    <2>5. \A q \in Pollers : \A n \in todo'[q] : fired'[n.type][n.turn] = 0
        <3>1. \A q \in Pollers : \A n \in todo'[q] : n \in todo[q] /\ n # m /\ n \in Copy
            BY <2>1, <2>3
        <3> QED BY <2>2, <2>4, <3>1, <1>a DEF Copy
    <2>6. sent[p] = {}
        BY <1>5 DEF EnqueueNext
    <2>7. \A d \in docs : d.next = "due" => \/ fired'[d.type][turn[d.type]] = 0
                                            \/ m.type = d.type
        BY <2>3, <2>4, <2>6, <1>b DEF Doc
    <2>8. m \in sent'[p]
        BY <2>1
    <2>9. OncePerTurn'
        BY <2>4, <1>c DEF OncePerTurn
    <2> QED BY <1>5, <2>5, <2>7, <2>8, <2>9 DEF EnqueueNext, Unsent
<1>6. ASSUME NEW p \in Pollers, ScheduleNextRun(p) PROVE Unsent' /\ OncePerTurn'
    <2>1. SetNext({m.type : m \in sent[p]}) /\ sent' = [sent EXCEPT ![p] = {}]
        BY <1>6 DEF ScheduleNextRun
    <2>2. ASSUME NEW d \in docs', d.next = "due"
          PROVE  \/ fired[d.type][turn[d.type]] = 0
                 \/ \E q \in Pollers : \E m \in sent'[q] : m.type = d.type
        <3>1. PICK e \in docs : /\ e.type = d.type
                                /\ d.next = IF e.type \in {m.type : m \in sent[p]}
                                            THEN "later" ELSE e.next
            BY <2>1, SetNextType
        <3>2. e.next = "due" /\ \A m \in sent[p] : m.type # e.type
            BY <2>2, <3>1
        <3> QED BY <2>1, <3>1, <3>2, <1>b
    <2> QED BY <1>6, <2>2, <1>a, <1>c DEF ScheduleNextRun, Unsent, OncePerTurn
<1>7. ASSUME NEW p \in Pollers, FinishPoll(p) PROVE Unsent' /\ OncePerTurn'
    <2>1. UNCHANGED <<todo, sent>>
        BY <1>7 DEF FinishPoll, RunEnds
    <2> QED BY <1>7, <2>1, <1>a, <1>b, <1>c DEF FinishPoll, Unsent, OncePerTurn
<1>8. \A p \in Pollers : ~RunFails(p)
    BY CountedType DEF RunFails, Calm, Kinds
<1> QED BY <1>1, <1>2, <1>3, <1>4, <1>5, <1>6, <1>7, <1>8
        DEF Next, ApiRequest, RegisterFind, AcquireLock, RunProceeds, LeaseExpires, vars

(* While nothing is unregistered and no lock runs out, the document of     *)
(* what a run has in hand stays, and is put off by nobody else.            *)
LEMMA CurrentStep ==
    TypeOK /\ Mutex /\ Clear /\ OneDoc /\ Distinct /\ Current /\ [Next]_vars => Current'
<1> SUFFICES ASSUME TypeOK, Mutex, Clear, OneDoc, Distinct, Current, [Next]_vars, Kept'
             PROVE  Current'
    BY DEF Current
<1> USE DEF TypeOK, runVars
<1> DEFINE Waits(m) == \E d \in docs : /\ d.type = m.type /\ d.next # "later"
                                       /\ d.next = "due" => turn[d.type] = m.turn
           WaitsThen(m) == \E d \in docs' : /\ d.type = m.type /\ d.next # "later"
                                            /\ d.next = "due" => turn'[d.type] = m.turn
<1> SUFFICES ASSUME NEW p \in Pollers, NEW m \in (InRun(p))' PROVE WaitsThen(m)
    BY DEF Current
<1>0. Kept
    BY StayCalm
<1>a. \A q \in Pollers : \A n \in todo[q] \cup sent[q] : Waits(n)
    BY <1>0 DEF Current, InRun
<1>b. \A q \in Pollers : runPc[q] # "idle" => lock = q
    BY <1>0 DEF Mutex, Kept
<1>c. m \in todo'[p] \cup sent'[p]
    BY DEF InRun
<1>1. CASE UNCHANGED <<docs, turn, todo, sent>>
    BY <1>1, <1>a, <1>c
<1>2. ASSUME NEW q \in Requests, RegisterInsert(q) PROVE WaitsThen(m)
    <2>1. docs \subseteq docs' /\ UNCHANGED <<turn, todo, sent>>
        BY <1>2 DEF RegisterInsert
    <2> QED BY <2>1, <1>a, <1>c
<1>3. ASSUME NEW q \in Requests, RegisterUpdate(q) PROVE WaitsThen(m)
    <2>1. UNCHANGED <<turn, todo, sent>>
        BY <1>3 DEF RegisterUpdate
    <2>2. Waits(m)
        BY <2>1, <1>a, <1>c
    <2>3. CASE UNCHANGED docs
        BY <2>1, <2>2, <2>3
    <2>4. ASSUME NEW r \in posts[q],
                 docs' = {d \in docs : d.type # r.type}
                             \cup {[type |-> r.type, rid |-> 0, next |-> "never"]}
          PROVE  WaitsThen(m)
        <3>1. CASE m.type = r.type
            <4>1. [type |-> r.type, rid |-> 0, next |-> "never"] \in docs'
                BY <2>4
            <4> QED BY <3>1, <4>1
        <3>2. CASE m.type # r.type
            <4>1. PICK d \in docs : /\ d.type = m.type /\ d.next # "later"
                                    /\ d.next = "due" => turn[d.type] = m.turn
                BY <2>2
            <4>2. d \in docs'
                BY <2>4, <3>2, <4>1
            <4> QED BY <2>1, <4>1, <4>2
        <3> QED BY <3>1, <3>2
    <2> QED BY <1>3, <2>3, <2>4 DEF RegisterUpdate
<1>4. ASSUME NEW d \in docs, BecomeDue(d) PROVE WaitsThen(m)
    <2>1. /\ UNCHANGED <<todo, sent>> /\ d.next = "later"
          /\ docs' = (docs \ {d}) \cup {[d EXCEPT !.next = "due"]}
          /\ turn' = [turn EXCEPT ![d.type] = @ + 1]
        BY <1>4 DEF BecomeDue
    <2>2. PICK e \in docs : /\ e.type = m.type /\ e.next # "later"
                            /\ e.next = "due" => turn[e.type] = m.turn
        BY <2>1, <1>a, <1>c
    <2>3. e # d
        BY <2>1, <2>2
    <2>4. e.type # d.type
        BY <2>3 DEF OneDoc
    <2>5. e \in docs' /\ turn'[e.type] = turn[e.type]
        BY <2>1, <2>3, <2>4 DEF Doc
    <2> QED BY <2>2, <2>5
<1>5. ASSUME NEW q \in Pollers, GetDueMessages(q) PROVE WaitsThen(m)
    <2>1. CASE m \in todo'[q] /\ p = q
        BY <1>5, <2>1 DEF GetDueMessages
    <2>2. CASE m \notin todo'[q] \/ p # q
        <3>1. m \in todo[p] \cup sent[p]
            BY <1>5, <1>c, <2>2 DEF GetDueMessages
        <3> QED BY <1>5, <3>1, <1>a DEF GetDueMessages
    <2> QED BY <2>1, <2>2
<1>6. ASSUME NEW q \in Pollers, EnqueueNext(q) PROVE WaitsThen(m)
    <2>1. m \in todo[p] \cup sent[p]
        BY <1>6, <1>c DEF EnqueueNext
    <2> QED BY <1>6, <2>1, <1>a DEF EnqueueNext
<1>7. ASSUME NEW q \in Pollers, ScheduleNextRun(q) PROVE WaitsThen(m)
    <2>1. SetNext({n.type : n \in sent[q]}) /\ UNCHANGED <<turn, todo>>
          /\ sent' = [sent EXCEPT ![q] = {}]
        BY <1>7 DEF ScheduleNextRun
    <2>2. p = q
        BY <1>7, <1>c, <2>1, <1>b DEF ScheduleNextRun, Clear
    <2>3. m \in todo[q]
        BY <2>1, <2>2, <1>c
    <2>4. PICK e \in docs : /\ e.type = m.type /\ e.next # "later"
                            /\ e.next = "due" => turn[e.type] = m.turn
        BY <2>3, <1>a
    <2>5. e \in docs'
        BY <2>1, <2>3, <2>4, SetNextType DEF Distinct
    <2> QED BY <2>1, <2>4, <2>5
<1>8. ASSUME NEW q \in Pollers, FinishPoll(q) PROVE WaitsThen(m)
    <2>1. m \in todo[p] \cup sent[p]
        BY <1>8, <1>c DEF FinishPoll, RunEnds
    <2> QED BY <1>8, <2>1, <1>a DEF FinishPoll
<1>9. ASSUME NEW q \in Pollers, RunFails(q) PROVE WaitsThen(m)
    <2>1. p # q
        BY <1>9, <1>c DEF RunFails, RunEnds
    <2>2. m \in todo[p] \cup sent[p]
        BY <1>9, <1>c, <2>1 DEF RunFails, RunEnds
    <2> QED BY <1>9, <1>b, <2>1, <2>2 DEF RunFails, Clear
<1>10. \A rid : ~Unregister(rid)
    BY CountedType DEF Unregister, Kept, Kinds
<1> HIDE DEF Waits, WaitsThen
<1> QED BY <1>1, <1>2, <1>3, <1>4, <1>5, <1>6, <1>7, <1>8, <1>9, <1>10
        DEF Next, ApiRequest, RegisterFind, AcquireLock, RunProceeds, LeaseExpires, vars

LEMMA InvStep == Inv /\ [Next]_vars => Inv'
BY TypeStep, MutexStep, ClearStep, OneDocStep, PastStep, UnsentStep, SentFiredStep,
   CurrentStep, DistinctStep DEF Inv

LEMMA InvHolds == Spec => []Inv
<1> QED BY InitInv, InvStep, PTL DEF Spec

-----------------------------------------------------------------------------

\* The state keeps its types, whatever is registered, fails and runs out.
THEOREM RecurringTypeCorrect == Spec => []TypeOK
<1>1. Inv => TypeOK
    BY DEF Inv
<1> QED BY <1>1, InvHolds, PTL

(* However many processes poll (recurring.js:89), a turn is sent once at   *)
(* most while no run fails and no lock runs out.                           *)
THEOREM OncePerTurnHolds == Spec => []OncePerTurn
<1>1. Inv => OncePerTurn
    BY DEF Inv
<1> QED BY <1>1, InvHolds, PTL

\* Only a $set puts a due message off, and it is that of a run that has sent it.
LEMMA PutOffAfterSending ==
    ASSUME Inv, [Next]_vars, Kept, NEW d \in docs, d.next = "due",
           [d EXCEPT !.next = "later"] \in docs'
    PROVE  fired[d.type][turn[d.type]] > 0
<1> DEFINE e == [d EXCEPT !.next = "later"]
<1>1. d \in Doc /\ e \in Doc /\ e.type = d.type /\ e.next = "later" /\ e.rid = d.rid
    BY DEF Inv, TypeOK, Doc
<1>2. \A f \in docs : f.type = d.type => f = d
    BY DEF Inv, OneDoc
<1>3. e \notin docs
    BY <1>1, <1>2
<1>4. e \in docs'
    OBVIOUS
<1> HIDE DEF e
<1>5. ASSUME NEW p \in Pollers, SetNext({m.type : m \in sent[p]})
      PROVE  fired[d.type][turn[d.type]] > 0
    <2>1. PICK f \in docs : /\ f.type = e.type
                            /\ e.next = IF f.type \in {m.type : m \in sent[p]}
                                        THEN "later" ELSE f.next
        BY <1>4, <1>5, SetNextType DEF Inv, TypeOK
    <2>2. f = d
        BY <1>1, <1>2, <2>1
    <2>3. PICK m \in sent[p] : m.type = d.type
        BY <1>1, <2>1, <2>2
    <2>4. m.turn = turn[d.type]
        BY <1>2, <2>3 DEF Inv, Current, InRun
    <2>5. fired[m.type][m.turn] > 0
        BY DEF Inv, SentFired
    <2> QED BY <2>3, <2>4, <2>5
<1>6. ASSUME NEW q \in Requests, RegisterInsert(q) \/ RegisterUpdate(q) PROVE FALSE
    BY <1>1, <1>3, <1>4, <1>6 DEF RegisterInsert, RegisterUpdate
<1>7. ASSUME NEW f \in docs, BecomeDue(f) PROVE FALSE
    BY <1>1, <1>3, <1>4, <1>7 DEF BecomeDue, Inv, TypeOK, Doc
<1>8. ASSUME NEW rid, Unregister(rid) PROVE FALSE
    BY <1>3, <1>4, <1>8 DEF Unregister
<1>9. \/ \E p \in Pollers : SetNext({m.type : m \in sent[p]})
      \/ \E q \in Requests : RegisterInsert(q) \/ RegisterUpdate(q)
      \/ \E f \in docs : BecomeDue(f)
      \/ \E rid : Unregister(rid)
    BY <1>3, <1>4 DEF Next, ApiRequest, RegisterFind, AcquireLock, RunProceeds, GetDueMessages,
        EnqueueNext, ScheduleNextRun, FinishPoll, RunFails, LeaseExpires, vars
<1> QED BY <1>5, <1>6, <1>7, <1>8, <1>9

(* A due message is put off to its next turn only after it has been sent   *)
(* for this one (recurring.js:96-97), at whatever point runs fail.         *)
THEOREM NoTurnSkippedHolds == Spec => NoTurnSkipped
<1> DEFINE Step == count["expiry"] = 0 /\ count["delete"] = 0 =>
                      \A d \in docs : d.next = "due" /\ [d EXCEPT !.next = "later"] \in docs'
                                          => fired[d.type][turn[d.type]] > 0
<1>1. Inv /\ [Next]_vars => [Step]_vars
    BY PutOffAfterSending DEF Kept
<1> QED BY <1>1, InvHolds, PTL DEF Spec, NoTurnSkipped

=============================================================================
