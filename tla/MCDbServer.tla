----------------------------- MODULE MCDbServer ------------------------------
(***************************************************************************)
(* Values of the constants of DbServer for TLC.                            *)
(***************************************************************************)
EXTENDS DbServer

\* The first two calls run on different servers.
MCOn == [c \in Calls |-> IF c = "c1" THEN "s1" ELSE "s2"]

\* Both signals go to one peer.
MCTo == [x \in Signals |-> "a"]
=============================================================================
