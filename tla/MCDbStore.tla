------------------------------ MODULE MCDbStore ------------------------------
(***************************************************************************)
(* Values of the constants of DbStore for TLC.                             *)
(***************************************************************************)
EXTENDS DbDirectory, TLC

CONSTANTS p1, w1, w2, h1, h2

\* "a:b" with the key "c" has the key string of "a" with the key "b:c", which
\* is how getPeerByKey splits it.
MCLogins == {<<"a">>, <<"a", "b">>}
OneLogin == {<<"a">>}
OneSignatureKey == {<<"c">>}

OneFile == {<<"f">>}

\* Digests are only compared.
Symmetry == Permutations({w1, w2}) \cup Permutations({h1, h2})
=============================================================================
