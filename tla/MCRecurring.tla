----------------------------- MODULE MCRecurring -----------------------------
(***************************************************************************)
(* Small instances of Recurring for TLC.                                   *)
(***************************************************************************)
EXTENDS Recurring

CONSTANTS p1, p2, q1, q2, t1, t2

\* Enough registrations to replace one and to insert one anew; one of every fault.
OneOfEach == [k \in Kinds |-> IF k = "register" THEN 3 ELSE 1]

=============================================================================
