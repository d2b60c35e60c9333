----------------------------- MODULE Concurrency -----------------------------
(***************************************************************************)
(* Sharing a service's concurrency between hub processes: every process    *)
(* reports to Redis that it is alive, counts the others, and consumes the  *)
(* service's in queue with its share (lib/middlewares/                     *)
(* concurrency_manager.js, RabbitQueue.setConcurrency).                    *)
(*                                                                         *)
(* A prefetch count holds for the consumer that is created next; the       *)
(* messages of a cancelled consumer stay with the process until they have  *)
(* been handled, and a count of 0 means that there is no limit.            *)
(*                                                                         *)
(* Simplifications.                                                        *)
(*  - Time goes in ticks; a round trip to Redis or RabbitMQ takes none.    *)
(*  - There is always a message in the queue, up to Backlog.               *)
(*  - A process started again is another process, as it is for the code,   *)
(*    which draws a new processId; clocks agree.                           *)
(***************************************************************************)
EXTENDS Naturals, FiniteSets, FiniteSetsExt

CONSTANTS
    Processes,  \* processIds
    Share,      \* the service's "concurrency"
    Interval,   \* pollingIntervalMillis, in ticks
    Jitter,     \* how many ticks late an interval timer may fire
    Backlog     \* bound on the messages in hand

ASSUME ProcessesAssumption == IsFiniteSet(Processes)
ASSUME ShareAssumption == Share \in Nat \ {0}
ASSUME TimeAssumption == Interval \in Nat \ {0} /\ Jitter \in Nat
ASSUME BacklogAssumption == Backlog \in Nat

VARIABLES
    status,   \* process -> "new", "running" or "dead"
    age,      \* process -> ticks since its last report, up to TooOld
    wait,     \* process -> ticks since its interval timer fired
    limit,    \* process -> the prefetch count of its consumer, None before it has one
    current,  \* process -> messages of its consumer in hand
    former    \* process -> messages of its cancelled consumers in hand

vars == <<status, age, wait, limit, current, former>>

TooOld == Interval + 1   \* out of every window; also "never reported"
None == Share + 1        \* dynamicConcurrency is undefined

TypeOK ==
    /\ status \in [Processes -> {"new", "running", "dead"}]
    /\ age \in [Processes -> 0 .. TooOld]
    /\ wait \in [Processes -> 0 .. Interval + Jitter]
    /\ limit \in [Processes -> 0 .. None]
    /\ current \in [Processes -> Nat]
    /\ former \in [Processes -> Nat]

Init ==
    /\ status = [p \in Processes |-> "new"]
    /\ age = [p \in Processes |-> TooOld]
    /\ wait = [p \in Processes |-> 0]
    /\ limit = [p \in Processes |-> None]
    /\ current = [p \in Processes |-> 0]
    /\ former = [p \in Processes |-> 0]

Running == {p \in Processes : status[p] = "running"}
InHand(p) == current[p] + former[p]
Total == MapThenSumSet(InHand, Processes)

-----------------------------------------------------------------------------

\* start: the first report; nothing is consumed before the timer has fired.
StartProcess(p) ==
    /\ status[p] = "new"
    /\ status' = [status EXCEPT ![p] = "running"]
    /\ age' = [age EXCEPT ![p] = 0]
    /\ UNCHANGED <<wait, limit, current, former>>

\* Mutant: the oldest report that counts is left out.
AliveExclusive(p) == {q \in Processes : q = p \/ age[q] < Interval}

\* getNumberOfAliveProcesses, after p's own report: both ends of the range count.
Alive(p) == {q \in Processes : q = p \/ age[q] <= Interval}

\* Mutant: the consumer is replaced although its limit stays the same.
SetConcurrencyAlways(p, n) ==
    /\ limit' = [limit EXCEPT ![p] = n]
    /\ former' = [former EXCEPT ![p] = @ + current[p]]
    /\ current' = [current EXCEPT ![p] = 0]

\* setConcurrency: a new limit takes a new consumer.
SetConcurrency(p, n) ==
    \/ /\ n = limit[p]
       /\ UNCHANGED <<limit, current, former>>
    \/ /\ n # limit[p]
       /\ limit' = [limit EXCEPT ![p] = n]
       /\ former' = [former EXCEPT ![p] = @ + current[p]]
       /\ current' = [current EXCEPT ![p] = 0]

\* The interval timer: report, count, and take this process's share.
AdjustConcurrency(p) ==
    /\ status[p] = "running" /\ wait[p] >= Interval
    /\ wait' = [wait EXCEPT ![p] = 0]
    /\ age' = [age EXCEPT ![p] = 0]
    /\ SetConcurrency(p, Share \div Cardinality(Alive(p)))
    /\ UNCHANGED status

\* The broker hands a message to p's consumer, as long as its limit allows it.
Deliver(p) ==
    /\ status[p] = "running" /\ limit[p] # None
    /\ limit[p] = 0 \/ current[p] < limit[p]
    /\ Total < Backlog
    /\ current' = [current EXCEPT ![p] = @ + 1]
    /\ UNCHANGED <<status, age, wait, limit, former>>

\* Mutant: the count of messages in hand goes down twice.
HandledTwice(p) ==
    /\ current[p] > 0
    /\ current' = [current EXCEPT ![p] = @ - 2]
    /\ UNCHANGED <<status, age, wait, limit, former>>

\* A message has been handled and acknowledged: of the consumer, or of a former one.
Handled(p) ==
    /\ current[p] > 0
    /\ current' = [current EXCEPT ![p] = @ - 1]
    /\ UNCHANGED <<status, age, wait, limit, former>>

HandledFormer(p) ==
    /\ former[p] > 0
    /\ former' = [former EXCEPT ![p] = @ - 1]
    /\ UNCHANGED <<status, age, wait, limit, current>>

\* p dies: its messages go back to the queue, its last report stays in Redis.
Die(p) ==
    /\ status[p] = "running"
    /\ status' = [status EXCEPT ![p] = "dead"]
    /\ current' = [current EXCEPT ![p] = 0]
    /\ former' = [former EXCEPT ![p] = 0]
    /\ wait' = [wait EXCEPT ![p] = 0]
    /\ UNCHANGED <<age, limit>>

\* Time passes, but no timer is more than Jitter late.
Tick ==
    /\ \A p \in Running : wait[p] < Interval + Jitter
    /\ age' = [p \in Processes |-> IF age[p] < TooOld THEN age[p] + 1 ELSE TooOld]
    /\ wait' = [p \in Processes |-> IF p \in Running THEN wait[p] + 1 ELSE wait[p]]
    /\ UNCHANGED <<status, limit, current, former>>

Next ==
    \/ \E p \in Processes : \/ StartProcess(p) \/ AdjustConcurrency(p) \/ Deliver(p)
                            \/ Handled(p) \/ HandledFormer(p) \/ Die(p)
    \/ Tick

Spec == Init /\ [][Next]_vars

(* Time passes, timers fire, and the service answers every request, those  *)
(* of a cancelled consumer too.  Processes need not start or die.          *)
Fairness ==
    /\ WF_vars(Tick)
    /\ \A p \in Processes : WF_vars(AdjustConcurrency(p)) /\ WF_vars(HandledFormer(p))

FairSpec == Spec /\ Fairness

-----------------------------------------------------------------------------

\* No other process has ever run.
Lone(p) == \A q \in Processes \ {p} : status[q] = "new"

(* A LONE PROCESS KEEPS TO THE LIMIT.  While only one process has ever     *)
(* run, however often it adjusts its concurrency, the service is never     *)
(* sent more messages at a time than it can accept (rabbit_queue.js:33).   *)
LoneProcess ==
    \A p \in Processes : Lone(p) =>
        InHand(p) <= Share /\ \A q \in Processes \ {p} : InHand(q) = 0

(* SETTLES.  If timers are punctual, then after the last process has come  *)
(* or gone the processes together keep to the limit: every one has counted *)
(* all the others, and the messages of former consumers are used up.  This *)
(* needs no more processes at work than the service accepts messages; it   *)
(* has to hold again after there have been more, whose shares of 0 were no *)
(* limit at all (rabbit_queue.js:31-36).                                   *)
Settles == <>[](Cardinality(Running) <= Share => Total <= Share)

(* UP TO CONCURRENCY.  test/integration/basic.js:70: a service is sent "up *)
(* to concurrency" messages at a time, "even from multiple hub processes". *)
UpToConcurrency == Total <= Share

=============================================================================
