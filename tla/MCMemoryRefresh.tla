--------------------------- MODULE MCMemoryRefresh ---------------------------
(***************************************************************************)
(* Values of the constants of MemoryRefresh for TLC.                       *)
(***************************************************************************)
EXTENDS MemoryRefresh

OneLogin == {<<"a">>}
TwoLogins == {<<"a">>, <<"b">>}
OneSignatureKey == {<<"c">>}
OneFile == {<<"f">>}
=============================================================================
