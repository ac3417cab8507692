---------------------------- MODULE PeerDirectory ----------------------------
(***************************************************************************)
(* What a phonebook store promises about its peers, whatever implements it *)
(* (the Store interface, internal/store/store.go): a peer is registered    *)
(* with an identity, its initial score and no reports; until it is removed *)
(* the identity stays what it was, and its score and counters change by    *)
(* one verdict at a time and by nothing else.                              *)
(***************************************************************************)
EXTENDS Integers

CONSTANTS
    Ids,            \* peer ids
    Identities,     \* what a registered peer may not lose: its keys
    InitialScore,   \* the score of a new peer
    Absent          \* no entry

VARIABLE entries    \* id -> entry, or Absent

Entry == [identity : Identities, score : Int, valid : Nat, invalid : Nat]

Present == {id \in Ids : entries[id] # Absent}

Init == entries = [id \in Ids |-> Absent]

Register(id, identity) ==
    /\ entries[id] = Absent
    /\ entries' = [entries EXCEPT ![id] = [identity |-> identity,
                                           score    |-> InitialScore,
                                           valid    |-> 0,
                                           invalid  |-> 0]]

Judged(entry, valid) ==
    IF valid
    THEN [entry EXCEPT !.score = @ + 1, !.valid = @ + 1]
    ELSE [entry EXCEPT !.score = @ - 1, !.invalid = @ + 1]

\* One verdict; a store may pass it on every peer that shares a key.
Judge(ids, valid) ==
    /\ ids \subseteq Present
    /\ entries' = [id \in Ids |-> IF id \in ids THEN Judged(entries[id], valid)
                                  ELSE entries[id]]

Remove(id) ==
    /\ entries[id] # Absent
    /\ entries' = [entries EXCEPT ![id] = Absent]

Next ==
    \/ \E id \in Ids, identity \in Identities : Register(id, identity)
    \/ \E ids \in SUBSET Ids, valid \in BOOLEAN : Judge(ids, valid)
    \/ \E id \in Ids : Remove(id)

Spec == Init /\ [][Next]_entries
=============================================================================
