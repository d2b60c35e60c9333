------------------------------- MODULE MCBulk -------------------------------
(***************************************************************************)
(* Small instances of Bulk for TLC.                                        *)
(***************************************************************************)
EXTENDS Bulk

CONSTANTS h1, h2, m1, m2, m3

=============================================================================
