------------------------------ MODULE Recurring ------------------------------
(***************************************************************************)
(* The recurring messages of one service (lib/middlewares/recurring.js):   *)
(* the API registers and unregisters them, and the pollers of the hub      *)
(* processes send those that are due, under the lock of the service.       *)
(*                                                                         *)
(* Simplifications.                                                        *)
(*  - nextAt is "due", "later" or, when the field is missing, "never".     *)
(*  - turn counts the times the message of a type has become due; it lets  *)
(*    a sending be told to be for one turn or for another.                 *)
(*  - A batch is all that is due: the code's limit of 100 is not reached.  *)
(*  - A message counts as sent when it is written to the socket of the in  *)
(*    queue.  That a process dies with it there (rabbit_queue.js:109) is   *)
(*    in MessageFlow and not here; but for that, the death of a process    *)
(*    leaves behind what a rejected operation does, the lock, and the two  *)
(*    are one action.                                                      *)
(***************************************************************************)
EXTENDS Naturals, FiniteSets, LockManager

CONSTANTS
    Types,     \* message types, the _ids of the collection
    Requests,  \* slots for concurrent POSTs to .../recurring
    MaxTurns,  \* how often a message may become due
    Limit      \* how often each of Kinds may happen

Kinds == {"register",  \* POST .../recurring
          "delete",    \* DELETE .../recurring/:recurringMessageId
          "failure",   \* a run ends early
          "expiry"}    \* the lock's TTL runs out under a run

ASSUME TurnsAssumption == MaxTurns \in Nat
ASSUME LimitAssumption == Limit \in [Kinds -> Nat]

VARIABLES
    docs,     \* the documents of <service>_recurring
    turn,     \* type -> how often it has become due
    fired,    \* type -> turn -> how many messages for it have been written to the socket
    posts,    \* slot -> the POST that has done its findOne, in a set of at most one
    runPc,    \* where a run of schedulePending waits
    todo,     \* run -> the due messages it has read and not sent
    sent,     \* run -> the message sent whose next run is not scheduled yet
    count     \* kind -> how often it has happened

runVars == <<runPc, todo, sent>>
vars == <<docs, turn, fired, posts, lock, runVars, count>>

Turns == 0 .. MaxTurns

\* recurringMessageId is a number, 0 if the field is missing.
Doc == [type : Types, rid : Nat, next : {"due", "later", "never"}]
Copy == [type : Types, turn : Turns]
Post == [type : Types, rid : Nat, exists : BOOLEAN]

TypeOK ==
    /\ docs \subseteq Doc
    /\ turn \in [Types -> Turns]
    /\ fired \in [Types -> [Turns -> Nat]]
    /\ posts \in [Requests -> SUBSET Post]
    /\ LockTypeOK
    /\ runPc \in [Pollers -> {"idle", "reading", "sending"}]
    /\ todo \in [Pollers -> SUBSET Copy]
    /\ sent \in [Pollers -> SUBSET Copy]
    /\ count \in [Kinds -> Nat]

Init ==
    /\ docs = {}
    /\ turn = [t \in Types |-> 0]
    /\ fired = [t \in Types |-> [n \in Turns |-> 0]]
    /\ posts = [q \in Requests |-> {}]
    /\ LockInit
    /\ runPc = [p \in Pollers |-> "idle"]
    /\ todo = [p \in Pollers |-> {}]
    /\ sent = [p \in Pollers |-> {}]
    /\ count = [k \in Kinds |-> 0]

Counted(k) == count[k] < Limit[k] /\ count' = [count EXCEPT ![k] = @ + 1]

-----------------------------------------------------------------------------

\* register up to its findOne; the new id is generated before that.
RegisterFind(q, t) ==
    /\ posts[q] = {}
    /\ Counted("register")
    /\ posts' = [posts EXCEPT ![q] = {[type |-> t, rid |-> count'["register"],
                                       exists |-> \E d \in docs : d.type = t]}]
    /\ UNCHANGED <<docs, turn, fired, lock, runVars>>

\* insert: refused if another POST has inserted the type meanwhile.
RegisterInsert(q) ==
    /\ \E r \in posts[q] :
        /\ ~r.exists
        /\ IF \E d \in docs : d.type = r.type
           THEN UNCHANGED docs
           ELSE docs' = docs \cup {[type |-> r.type, rid |-> r.rid, next |-> "later"]}
    /\ posts' = [posts EXCEPT ![q] = {}]
    /\ UNCHANGED <<turn, fired, lock, runVars, count>>

(* updateOne with a document that has no update operator replaces the      *)
(* stored document by {message}: neither nextAt nor recurringMessageId is  *)
(* left.  Nothing is replaced if the document is gone, and the unique      *)
(* index refuses a second document without a recurringMessageId.           *)
RegisterUpdate(q) ==
    /\ \E r \in posts[q] :
        /\ r.exists
        /\ IF \/ \A d \in docs : d.type # r.type
              \/ \E d \in docs : d.type # r.type /\ d.rid = 0
           THEN UNCHANGED docs
           ELSE docs' = {d \in docs : d.type # r.type}
                            \cup {[type |-> r.type, rid |-> 0, next |-> "never"]}
    /\ posts' = [posts EXCEPT ![q] = {}]
    /\ UNCHANGED <<turn, fired, lock, runVars, count>>

\* unregister goes by the recurringMessageId, which no API answer contains.
Unregister(rid) ==
    /\ Counted("delete")
    /\ docs' = {d \in docs : d.rid # rid}
    /\ UNCHANGED <<turn, fired, posts, lock, runVars>>

\* Time passes the nextAt of a document.
BecomeDue(d) ==
    /\ d.next = "later" /\ turn[d.type] < MaxTurns
    /\ docs' = (docs \ {d}) \cup {[d EXCEPT !.next = "due"]}
    /\ turn' = [turn EXCEPT ![d.type] = @ + 1]
    /\ UNCHANGED <<fired, posts, lock, runVars, count>>

\* schedulePending takes the lock, or returns.
AcquireLock(p) ==
    /\ runPc[p] = "idle"
    /\ TryAcquire(p)
    /\ runPc' = [runPc EXCEPT ![p] = "reading"]
    /\ UNCHANGED <<docs, turn, fired, posts, todo, sent, count>>

\* The answer to getDueMessages.
GetDueMessages(p) ==
    /\ runPc[p] = "reading"
    /\ todo' = [todo EXCEPT ![p] = {[type |-> d.type, turn |-> turn[d.type]] :
                                        d \in {e \in docs : e.next = "due"}}]
    /\ runPc' = [runPc EXCEPT ![p] = "sending"]
    /\ UNCHANGED <<docs, turn, fired, posts, lock, sent, count>>

\* Mutant: a message the queue does not take is passed over.
EnqueueOrSkip(p) ==
    /\ sent[p] = {}
    /\ \E m \in todo[p] :
        /\ todo' = [todo EXCEPT ![p] = @ \ {m}]
        /\ sent' = [sent EXCEPT ![p] = {m}]
    /\ UNCHANGED <<docs, turn, fired, posts, lock, runPc, count>>

\* The next message of the batch goes to the in queue.
EnqueueNext(p) ==
    /\ sent[p] = {}
    /\ \E m \in todo[p] :
        /\ todo' = [todo EXCEPT ![p] = @ \ {m}]
        /\ sent' = [sent EXCEPT ![p] = {m}]
        /\ fired' = [fired EXCEPT ![m.type][m.turn] = @ + 1]
    /\ UNCHANGED <<docs, turn, posts, lock, runPc, count>>

\* Mutant: updateOne without $set, which replaces the document.
SetNextReplaces(types) ==
    docs' = {d \in docs : d.type \notin types} \cup {[next |-> "later"] : t \in types}

\* The $set of scheduleNextRun goes by the type, whatever document it finds there.
SetNext(types) ==
    docs' = {IF d.type \in types THEN [d EXCEPT !.next = "later"] ELSE d : d \in docs}

ScheduleNextRun(p) ==
    /\ sent[p] # {}
    /\ SetNext({m.type : m \in sent[p]})
    /\ sent' = [sent EXCEPT ![p] = {}]
    /\ UNCHANGED <<turn, fired, posts, lock, runPc, todo, count>>

RunEnds(p) ==
    /\ runPc' = [runPc EXCEPT ![p] = "idle"]
    /\ todo' = [todo EXCEPT ![p] = {}]
    /\ sent' = [sent EXCEPT ![p] = {}]

FinishPoll(p) ==
    /\ runPc[p] = "sending" /\ todo[p] = {} /\ sent[p] = {}
    /\ ReleaseLock(p)
    /\ RunEnds(p)
    /\ UNCHANGED <<docs, turn, fired, posts, count>>

(* Mongo rejects an operation, applied or not, Redis rejects the unlock,   *)
(* or the process dies: the lock is left to its TTL.  An unlock that was   *)
(* applied all the same is that TTL running out at once.                   *)
RunFails(p) ==
    /\ runPc[p] # "idle"
    /\ Counted("failure")
    /\ UNCHANGED docs \/ SetNext({m.type : m \in sent[p]})
    /\ RunEnds(p)
    /\ UNCHANGED <<turn, fired, posts, lock>>

LeaseExpires ==
    /\ LeaseEnds
    /\ IF runPc[lock] = "idle" THEN UNCHANGED count ELSE Counted("expiry")
    /\ UNCHANGED <<docs, turn, fired, posts, runVars>>

\* A step of a run that nothing but the run itself and Mongo decide on.
RunProceeds(p) ==
    GetDueMessages(p) \/ EnqueueNext(p) \/ ScheduleNextRun(p) \/ FinishPoll(p)

\* POST and DELETE .../recurring: neither route looks at what is there.
ApiRequest ==
    \/ \E q \in Requests, t \in Types : RegisterFind(q, t)
    \/ \E rid \in {d.rid : d \in docs} \ {0} : Unregister(rid)

Next ==
    \/ ApiRequest
    \/ \E q \in Requests : RegisterInsert(q) \/ RegisterUpdate(q)
    \/ \E d \in docs : BecomeDue(d)
    \/ \E p \in Pollers : AcquireLock(p) \/ RunProceeds(p) \/ RunFails(p)
    \/ LeaseExpires

Spec == Init /\ [][Next]_vars

\* Timers fire, Mongo answers, and the TTL of an abandoned lock runs out.
Fairness ==
    /\ WF_vars(\E p \in Pollers : AcquireLock(p))
    /\ \A p \in Pollers : WF_vars(RunProceeds(p))
    /\ WF_vars(LeaseExpires /\ UNCHANGED count)

FairSpec == Spec /\ Fairness

-----------------------------------------------------------------------------

(* ONCE A TURN.  However many processes poll, and whoever registers and    *)
(* unregisters meanwhile, a turn of a recurring message is sent once at    *)
(* most, unless a run ends early or the lock runs out under it: what the   *)
(* lock of recurring.js:89 is there for.                                   *)
OncePerTurn ==
    count["failure"] = 0 /\ count["expiry"] = 0 =>
        \A t \in Types, n \in Turns : fired[t][n] <= 1

(* NO TURN SKIPPED.  A due message is put off to its next turn only after  *)
(* it has been written to the in queue's socket, even if runs fail at any  *)
(* point (recurring.js:96-97).                                             *)
(* Two things can have a stale copy put off a turn that is not its own: a  *)
(* lock that ran out, and an unregistration followed by a registration.    *)
NoTurnSkipped ==
    [][count["expiry"] = 0 /\ count["delete"] = 0 =>
          \A d \in docs : d.next = "due" /\ [d EXCEPT !.next = "later"] \in docs'
                              => fired[d.type][turn[d.type]] > 0]_vars

(* DUE IS SENT.  No recurring message stays due for ever, whatever run has *)
(* failed with the lock: it is sent, unless its document is deleted or     *)
(* replaced by a registration before that.                                 *)
DueIsSent ==
    \A t \in Types :
        (\E d \in docs : d.type = t /\ d.next = "due")
            ~> ~(\E d \in docs : d.type = t /\ d.next = "due")

(* STAYS RECURRING.  A registered message has a time of its next run:      *)
(* test/middlewares/recurring.js:26 says a second call "Updates recurring  *)
(* message", one that recurs.                                              *)
StaysRecurring == \A d \in docs : d.next # "never"

=============================================================================
