---------------------------- MODULE MCMessageFlow ----------------------------
(***************************************************************************)
(* Small instances of MessageFlow for TLC: one worker and one poller per   *)
(* hub process.                                                            *)
(***************************************************************************)
EXTENDS MessageFlow, TLC

CONSTANTS h1, h2, m1, m2, i1, i2, i3, q1, d1

\* Two hub processes with a worker and a poller each, of the same name.
TwoHubs == {h1, h2}
OnOwnHub == [h \in Hubs |-> h]

\* One hub process with all of them.
AllOnH1 == [w \in Workers |-> h1]
RunsOnH1 == [r \in Runs |-> h1]
RevivalsOnH1 == [q \in Revivals |-> h1]

TwoAttempts == [id \in Ids |-> 2]

\* Processes die, and locks run out under pollers.
Crashes == [k \in Kinds |-> IF k \in {"crash", "expiry"} THEN 1 ELSE 0]

\* Mongo and Redis reject operations, a process dies, the service puts a message
\* off, and the administrator uses the API.
Faults == [k \in Kinds |-> CASE k = "store" -> 2
                            [] k = "expiry" -> 0
                            [] OTHER -> 1]

\* What Settlement has to survive.
Setbacks == [k \in Kinds |-> IF k \in {"crash", "store", "redis", "putOff"} THEN 1 ELSE 0]

HubsAndItems == Permutations({h1, h2}) \cup Permutations({i1, i2, i3})
AnyItems == Permutations({i1, i2, i3})

=============================================================================
