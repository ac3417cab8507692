----------------------------- MODULE MCDirectory -----------------------------
(***************************************************************************)
(* Values of the constants of MemoryDirectory and Ranking for TLC.         *)
(***************************************************************************)
EXTENDS MemoryDirectory, Ranking, TLC

CONSTANTS p1, p2, w1, h1, h2

\* "a" and "a:b" with the keys "c" and "b:c": two of the four key strings
\* coincide, "a" + ":" + "b:c" = "a:b" + ":" + "c".
MCLogins == {<<"a">>, <<"a", "b">>}
MCSignatureKeys == {<<"c">>, <<"b", "c">>}

OneFile == {<<"f">>}

\* The clock stands still: what may happen to peers and verdicts within one
\* second.  (Batches and ChunkSync let it run.)
StillNext == PeerStep \/ ChunkStep \/ CleanerTick \/ DeleteExpiredChunks

StillSpec == Init /\ [][StillNext]_vars

\* Digests are only compared.
Symmetry == Permutations({p1, p2}) \cup Permutations({h1, h2})
=============================================================================
