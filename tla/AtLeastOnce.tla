----------------------------- MODULE AtLeastOnce -----------------------------
(***************************************************************************)
(* What hubjs promises for the messages of one service, without a word on  *)
(* queues, schedules, locks and processes: an accepted message is held,    *)
(* and may be delivered any number of times, until the hub buries it or    *)
(* lets go of it for a reason; what it has let go of never comes back, and *)
(* what is buried is delivered to nobody unless it is revived.             *)
(*                                                                         *)
(* One step may move several messages: a process that dies takes all that  *)
(* it had not yet handed to the broker with it.                            *)
(***************************************************************************)
CONSTANTS
    Ids,     \* the messages
    Answers  \* the reasons of letting go that are answers of the service

VARIABLES
    state,  \* id -> "new", "held", "buried" or "gone"
    why     \* id -> the reasons there have been to let go of it

pvars == <<state, why>>

Init == /\ state = [id \in Ids |-> "new"]
        /\ why = [id \in Ids |-> {}]

Moves(id, from, to) == state[id] = from /\ state'[id] = to

\* The publisher is told that its message is accepted.
Accept(id) == Moves(id, "new", "held") /\ why'[id] = why[id]

\* The service is sent the message and answers, now or again, or it may be lost.
Hold(id) == /\ Moves(id, "held", "held")
            /\ why[id] \subseteq why'[id]

\* The last copy goes to the dead letters, and reasons may be given for that.
Bury(id) == Moves(id, "held", "buried") /\ why[id] \subseteq why'[id]

\* The message is put back among those to be delivered.
Revive(id) == Moves(id, "buried", "held") /\ why'[id] = why[id]

\* A buried message stays buried: the service does not get to answer it.
Rest(id) == /\ Moves(id, "buried", "buried")
            /\ why[id] \subseteq why'[id]
            /\ why'[id] \cap Answers = why[id] \cap Answers

\* The hub lets go of a message, for a reason it has now or had before.
LetGo(id) == /\ state[id] \in {"held", "buried"} /\ state'[id] = "gone"
             /\ why[id] \subseteq why'[id] /\ why'[id] # {}

\* What the publisher has not handed in, or the hub has let go of, is left alone.
Ignore(id) == /\ state[id] \in {"new", "gone"} /\ state'[id] = state[id]
              /\ why'[id] = why[id]

Next == \A id \in Ids : \/ Accept(id) \/ Hold(id) \/ Bury(id)
                        \/ Revive(id) \/ Rest(id) \/ LetGo(id) \/ Ignore(id)

Spec == Init /\ [][Next]_pvars

=============================================================================
