------------------------------ MODULE MCBatches ------------------------------
(***************************************************************************)
(* Values of the constants of Batches for TLC.                             *)
(***************************************************************************)
EXTENDS Batches

OneLogin == {<<"a">>}
OneSignatureKey == {<<"c">>}
OneFile == {<<"f">>}

ThisKey == <<"a", "c">>
Raw(hash) == [digest |-> hash, upper |-> FALSE]

Registered(hash) == [index |-> 0, sender |-> ThisKey, recipient |-> ThisKey,
                     raw |-> Raw(hash), signer |-> <<"c">>, persist |-> FALSE, ttl |-> 0]

Confirmed(hash) == [file |-> <<"f">>, index |-> 0, raw |-> Raw(hash), signer |-> <<"c">>]

\* A chunk registered twice in one batch, and confirmed twice.
MCRegisterBatches == {[file |-> <<"f">>, entries |-> <<Registered("h1"), Registered("h1")>>]}
MCConfirmBatches == {[recipient |-> ThisKey, entries |-> <<Confirmed("h1"), Confirmed("h1")>>]}
=============================================================================
