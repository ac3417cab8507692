----------------------------- MODULE MCSignaling -----------------------------
(***************************************************************************)
(* Values of the constants of Signaling for TLC.                           *)
(***************************************************************************)
EXTENDS Signaling, TLC

CONSTANTS s1, s2, s3, x1, x2

\* Both signals go to "b": they can meet in its mailbox and on its connection.
MCTo == [x \in Signals |-> "b"]

Symmetry == Permutations(Sessions) \cup Permutations(Signals)
=============================================================================
