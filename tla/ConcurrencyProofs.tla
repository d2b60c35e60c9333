-------------------------- MODULE ConcurrencyProofs --------------------------
(***************************************************************************)
(* Proofs about Concurrency, for any number of processes, any concurrency, *)
(* interval and jitter: the state keeps its types, and a process that is   *)
(* alone keeps to the limit.                                               *)
(***************************************************************************)
EXTENDS Concurrency, FiniteSetTheorems, TLAPS

\* A process that has not started has reported nothing and holds nothing.
Untouched == \A p \in Processes : status[p] = "new" => /\ age[p] = TooOld /\ limit[p] = None
                                                       /\ current[p] = 0 /\ former[p] = 0

\* A lone process takes all, and replaces no consumer that has messages.
Undivided ==
    \A p \in Processes : Lone(p) =>
        /\ former[p] = 0
        /\ \/ limit[p] = None /\ current[p] = 0
           \/ limit[p] = Share /\ current[p] <= Share

Inv == TypeOK /\ Untouched /\ Undivided

-----------------------------------------------------------------------------

LEMMA ShareBounds ==
    ASSUME NEW n \in Nat \ {0}
    PROVE  Share \div n \in 0 .. Share
<1>1. Share \in Nat
    BY ShareAssumption
<1>2. Share \div n \in Int /\ n * (Share \div n) <= Share /\ Share < n * (Share \div n) + n
    BY <1>1
<1>3. 0 <= Share \div n
    BY <1>1, <1>2
<1>4. Share \div n <= Share
    BY <1>1, <1>2, <1>3
<1> QED BY <1>1, <1>2, <1>3, <1>4

LEMMA AliveCount ==
    ASSUME NEW p \in Processes
    PROVE  Cardinality(Alive(p)) \in Nat \ {0}
<1>1. Alive(p) \subseteq Processes /\ p \in Alive(p)
    BY DEF Alive
<1>2. IsFiniteSet(Alive(p))
    BY <1>1, FS_Subset, ProcessesAssumption
<1> QED BY <1>1, <1>2, FS_CardinalityType, FS_EmptySet

\* One that is alone counts itself only, and its share is everything.
LEMMA LoneShare ==
    ASSUME Inv, NEW p \in Processes, Lone(p)
    PROVE  Share \div Cardinality(Alive(p)) = Share
<1>1. Alive(p) = {p}
    BY TimeAssumption DEF Alive, Lone, Inv, Untouched, TooOld
<1>2. Cardinality(Alive(p)) = 1
    BY <1>1, FS_Singleton
<1> QED BY <1>2, ShareAssumption

LEMMA InitInv == Init => Inv
BY ShareAssumption, TimeAssumption
   DEF Init, Inv, TypeOK, Untouched, Undivided, None, TooOld

LEMMA AdjustInv ==
    ASSUME Inv, NEW p \in Processes, AdjustConcurrency(p)
    PROVE  Inv'
<1> DEFINE n == Share \div Cardinality(Alive(p))
<1>1. /\ status[p] = "running" /\ wait' = [wait EXCEPT ![p] = 0]
      /\ age' = [age EXCEPT ![p] = 0] /\ SetConcurrency(p, n) /\ status' = status
    BY DEF AdjustConcurrency
<1>2. n \in 0 .. Share /\ (Lone(p) => n = Share)
    BY AliveCount, ShareBounds, LoneShare
<1> HIDE DEF n
<1>3. \/ n = limit[p] /\ UNCHANGED <<limit, current, former>>
      \/ /\ limit' = [limit EXCEPT ![p] = n]
         /\ former' = [former EXCEPT ![p] = @ + current[p]]
         /\ current' = [current EXCEPT ![p] = 0]
         /\ n # limit[p]
    BY <1>1 DEF SetConcurrency
<1>4. TypeOK'
    BY <1>1, <1>2, <1>3, ShareAssumption, TimeAssumption DEF Inv, TypeOK, None, TooOld
<1>5. Untouched'
    BY <1>1, <1>3 DEF Inv, TypeOK, Untouched
<1>6. Undivided'
    <2> SUFFICES ASSUME NEW q \in Processes, Lone(q)
                 PROVE  /\ former'[q] = 0
                        /\ \/ limit'[q] = None /\ current'[q] = 0
                           \/ limit'[q] = Share /\ current'[q] <= Share
        BY <1>1 DEF Undivided, Lone
    <2>1. q = p
        BY <1>1 DEF Lone
    <2>2. /\ former[p] = 0
          /\ \/ limit[p] = None /\ current[p] = 0
             \/ limit[p] = Share /\ current[p] <= Share
        BY <2>1 DEF Inv, Undivided
    <2>3. n = Share
        BY <1>2, <2>1
    <2> QED BY <1>3, <2>1, <2>2, <2>3, ShareAssumption DEF Inv, TypeOK
<1> QED BY <1>4, <1>5, <1>6 DEF Inv

\* The broker and the service: messages come into hand and leave it.
LEMMA MessageInv ==
    ASSUME Inv, NEW p \in Processes, Deliver(p) \/ Handled(p) \/ HandledFormer(p)
    PROVE  Inv'
<1>1. status' = status /\ age' = age /\ wait' = wait /\ limit' = limit
    BY DEF Deliver, Handled, HandledFormer
<1>2. TypeOK' /\ status[p] # "new"
    BY <1>1 DEF Inv, TypeOK, Untouched, Deliver, Handled, HandledFormer
<1>3. Untouched'
    BY <1>1, <1>2 DEF Inv, TypeOK, Untouched, Deliver, Handled, HandledFormer
<1>4. Undivided'
    BY <1>1, ShareAssumption
       DEF Inv, TypeOK, Undivided, Lone, None, Deliver, Handled, HandledFormer
<1> QED BY <1>2, <1>3, <1>4 DEF Inv

\* Processes come and go, and time passes.
LEMMA StartInv ==
    ASSUME Inv, NEW p \in Processes, StartProcess(p)
    PROVE  Inv'
<1>1. TypeOK' /\ Untouched'
    BY TimeAssumption DEF Inv, TypeOK, Untouched, StartProcess, TooOld
<1>2. Undivided'
    <2> SUFFICES ASSUME NEW q \in Processes, Lone(q)'
                 PROVE  Lone(q) /\ UNCHANGED <<limit, current, former>>
        BY DEF Inv, Undivided
    <2> QED BY DEF Inv, TypeOK, Lone, StartProcess
<1> QED BY <1>1, <1>2 DEF Inv

LEMMA DieInv ==
    ASSUME Inv, NEW p \in Processes, Die(p)
    PROVE  Inv'
<1>1. TypeOK' /\ Untouched'
    BY TimeAssumption DEF Inv, TypeOK, Untouched, Die
<1>2. \A q \in Processes : Lone(q)' => Lone(q)
    BY DEF Inv, TypeOK, Lone, Die
<1>3. Undivided'
    BY <1>2, ShareAssumption DEF Inv, TypeOK, Undivided, Die
<1> QED BY <1>1, <1>3 DEF Inv

LEMMA TickInv ==
    ASSUME Inv, Tick
    PROVE  Inv'
<1>1. TypeOK'
    BY TimeAssumption DEF Inv, TypeOK, Tick, Running, TooOld
<1>2. Untouched' /\ Undivided'
    BY DEF Inv, TypeOK, Untouched, Undivided, Lone, Tick
<1> QED BY <1>1, <1>2 DEF Inv

\* The strengthening of TypeOK and LoneProcess holds in every state.
THEOREM Invariance == Spec => []Inv
<1>1. ASSUME Inv, Next PROVE Inv'
    BY <1>1, StartInv, AdjustInv, MessageInv, DieInv, TickInv DEF Next
<1>2. ASSUME Inv, UNCHANGED vars PROVE Inv'
    BY <1>2 DEF vars, Inv, TypeOK, Untouched, Undivided, Lone
<1> QED BY InitInv, <1>1, <1>2, PTL DEF Spec

(* The state keeps its types, whatever the number of processes: a share    *)
(* never exceeds the concurrency (concurrency_manager.js:29-45).           *)
THEOREM SharesTypeCorrect == Spec => []TypeOK
<1>1. Inv => TypeOK
    BY DEF Inv
<1> QED BY Invariance, <1>1, PTL

(* The only process that has ever run never has more in hand than the      *)
(* service accepts, for every concurrency, interval and jitter of timers   *)
(* (rabbit_queue.js:33).                                                   *)
THEOREM LoneProcessHolds == Spec => []LoneProcess
<1>1. ASSUME Inv PROVE LoneProcess
    <2> SUFFICES ASSUME NEW p \in Processes, Lone(p)
                 PROVE  InHand(p) <= Share /\ \A q \in Processes \ {p} : InHand(q) = 0
        BY DEF LoneProcess
    <2>1. InHand(p) <= Share
        BY <1>1, ShareAssumption DEF Inv, TypeOK, Undivided, InHand
    <2>2. ASSUME NEW q \in Processes \ {p} PROVE InHand(q) = 0
        BY <1>1 DEF Inv, Untouched, Lone, InHand
    <2> QED BY <2>1, <2>2
<1> QED BY Invariance, <1>1, PTL

=============================================================================
