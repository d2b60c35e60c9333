---------------------------- MODULE MCConcurrency ----------------------------
(***************************************************************************)
(* Small instances of Concurrency for TLC.                                 *)
(***************************************************************************)
EXTENDS Concurrency

CONSTANTS p1, p2, p3

=============================================================================
