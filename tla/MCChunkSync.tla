----------------------------- MODULE MCChunkSync -----------------------------
(***************************************************************************)
(* Values of the constants of ChunkSync for TLC.                           *)
(***************************************************************************)
EXTENDS ChunkSync

OneLogin == {<<"a">>}
OneSignatureKey == {<<"c">>}
OneFile == {<<"f">>}
MCWatched == <<"a", "c">>
=============================================================================
