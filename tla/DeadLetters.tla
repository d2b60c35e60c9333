----------------------------- MODULE DeadLetters -----------------------------
(***************************************************************************)
(* What an administrator may do to the dead letters of the service         *)
(* (lib/middlewares/dead_letter.js behind the routes of api.js): put one   *)
(* of them, or all, back into the queue, and delete one, or all.           *)
(*                                                                         *)
(* A revival is one execution of reenqueue or reenqueueAll.  Like a run of *)
(* the scheduler it holds copies of what it has read, and every await of   *)
(* Mongo lets other steps in between.  No lock is taken.                   *)
(*                                                                         *)
(* Simplifications.                                                        *)
(*  - The documents of a page are enqueued one step each, where the code   *)
(*    does so without an answer to wait for.                               *)
(*  - A revival of one message for which there is no dead letter fails     *)
(*    with a TypeError (dead_letter.js:53) and changes nothing.            *)
(***************************************************************************)
EXTENDS Scheduler

CONSTANTS
    Revivals,   \* slots for concurrent PUT .../dead/:messageId requests
    RevivesOn,  \* [Revivals -> Hubs]
    PageSize    \* the default page size of DeadLetter.getMessages

ASSUME RevivalsAssumption == RevivesOn \in [Revivals -> Hubs]
ASSUME PageAssumption == PageSize \in Nat \ {0}

VARIABLES
    revivalPc,  \* what a revival does: nothing, read a page, revive one message or a page
    found,      \* the dead letters a revival has read and not yet enqueued
    revived     \* the dead letters it has enqueued and not yet deleted

revivalVars == <<revivalPc, found, revived>>

RevivalTypeOK ==
    /\ revivalPc \in [Revivals -> {"idle", "reading", "one", "page"}]
    /\ found \in [Revivals -> SUBSET Message]
    /\ revived \in [Revivals -> SUBSET Message]

RevivalInit ==
    /\ revivalPc = [q \in Revivals |-> "idle"]
    /\ found = [q \in Revivals |-> {}]
    /\ revived = [q \in Revivals |-> {}]

(* A dead letter with the id, or the _id, of this one is about to be       *)
(* deleted, be it the one that was revived or another one.                 *)
Overtaken(m) ==
    \E q \in Revivals : \E d \in revived[q] :
        IF revivalPc[q] = "one" THEN d.id = m.id ELSE SameKey(d, m)

RevivalsEnd(qs) ==
    /\ revivalPc' = [q \in Revivals |-> IF q \in qs THEN "idle" ELSE revivalPc[q]]
    /\ found' = [q \in Revivals |-> IF q \in qs THEN {} ELSE found[q]]
    /\ revived' = [q \in Revivals |-> IF q \in qs THEN {} ELSE revived[q]]

-----------------------------------------------------------------------------

\* Mutant: the dead letter is deleted by the find (findOneAndDelete).
FindDeadAndDelete(q) ==
    /\ RevivesOn[q] \in up
    /\ revivalPc[q] = "idle"
    /\ Mishap("reenqueue")
    /\ \E m \in dead : found' = [found EXCEPT ![q] = {m}] /\ dead' = dead \ {m}
    /\ revivalPc' = [revivalPc EXCEPT ![q] = "one"]
    /\ UNCHANGED <<up, outbox, inQueue, schedule, accepted, released, revived>>

\* PUT .../dead/:messageId: findOne returns some dead letter of that message.
FindDead(q) ==
    /\ RevivesOn[q] \in up
    /\ revivalPc[q] = "idle"
    /\ Mishap("reenqueue")
    /\ \E m \in dead : found' = [found EXCEPT ![q] = {m}]
    /\ revivalPc' = [revivalPc EXCEPT ![q] = "one"]
    /\ UNCHANGED <<up, outbox, inQueue, schedule, dead, accepted, released, revived>>

\* PUT .../dead/all: reenqueueAll asks for the first page.
FindAllDead(q) ==
    /\ RevivesOn[q] \in up
    /\ revivalPc[q] = "idle"
    /\ Mishap("reenqueue")
    /\ revivalPc' = [revivalPc EXCEPT ![q] = "reading"]
    /\ UNCHANGED <<up, outbox, inQueue, schedule, dead, accepted, released, found, revived>>

\* The answer to getMessages, in no particular order; an empty page ends the loop.
ReadPage(q) ==
    /\ revivalPc[q] = "reading"
    /\ \E page \in SUBSET dead :
        /\ \/ page = dead /\ Cardinality(dead) <= PageSize
           \/ Cardinality(page) = PageSize
        /\ found' = [found EXCEPT ![q] = page]
        /\ revivalPc' = [revivalPc EXCEPT ![q] = IF page = {} THEN "idle" ELSE "page"]
    /\ UNCHANGED <<storeVars, revived>>

\* Mutant: attemptsMade keeps the value it died with.
EnqueueDeadAsIs(q) ==
    /\ \E m \in found[q] :
        /\ Enqueue(RevivesOn[q], m)
        /\ found' = [found EXCEPT ![q] = @ \ {m}]
        /\ revived' = [revived EXCEPT ![q] = @ \cup {m}]
    /\ UNCHANGED <<up, inQueue, schedule, dead, accepted, released, count, revivalPc>>

\* The dead letter goes to the queue as a message that has never been tried.
EnqueueDead(q) ==
    /\ \E m \in found[q] :
        /\ Enqueue(RevivesOn[q], [m EXCEPT !.attempts = 0])
        /\ found' = [found EXCEPT ![q] = @ \ {m}]
        /\ revived' = [revived EXCEPT ![q] = @ \cup {m}]
    /\ UNCHANGED <<up, inQueue, schedule, dead, accepted, released, count, revivalPc>>

(* What the deletion of ms at the end of a revival does to the dead        *)
(* letters: a deleteOne by messageId takes any one of that message, if     *)
(* there is one left; a deleteMany by _id takes what has such an _id now.  *)
DeleteRevived(q, ms) ==
    LET namesakes == {d \in dead : \E m \in ms : d.id = m.id}
    IN  IF revivalPc[q] = "one"
        THEN \/ namesakes = {} /\ UNCHANGED dead
             \/ \E d \in namesakes : dead' = dead \ {d}
        ELSE dead' = {d \in dead : \A m \in ms : ~SameKey(d, m)}

\* The deletion is acknowledged: a revival of all goes on with the next page.
DeleteDead(q) ==
    /\ found[q] = {} /\ revived[q] # {}
    /\ DeleteRevived(q, revived[q])
    /\ revived' = [revived EXCEPT ![q] = {}]
    /\ revivalPc' = [revivalPc EXCEPT ![q] = IF @ = "one" THEN "idle" ELSE "reading"]
    /\ UNCHANGED <<up, outbox, inQueue, schedule, accepted, released, count, found>>

(* Mongo rejects the find or the deletion, of which it may have applied    *)
(* all or a part: the request fails.                                       *)
RevivalFails(q) ==
    /\ revivalPc[q] = "reading" \/ (found[q] = {} /\ revived[q] # {})
    /\ Mishap("store")
    /\ \E ms \in SUBSET revived[q] : DeleteRevived(q, ms)
    /\ RevivalsEnd({q})
    /\ UNCHANGED <<up, outbox, inQueue, schedule, accepted, released>>

\* DELETE .../dead/:messageId: deleteOne takes some dead letter of that message.
ApiDeleteDead(m) ==
    /\ up # {}
    /\ m \in dead
    /\ Mishap("deadDelete")
    /\ dead' = dead \ {m}
    /\ LetGo({m.id}, "deleted")
    /\ UNCHANGED <<up, outbox, inQueue, schedule, accepted>>

\* DELETE .../dead/all.
ApiDeleteAllDead ==
    /\ up # {}
    /\ dead # {}
    /\ Mishap("deadDelete")
    /\ dead' = {}
    /\ LetGo({m.id : m \in dead}, "deleted")
    /\ UNCHANGED <<up, outbox, inQueue, schedule, accepted>>

=============================================================================
