---------------------------- MODULE MemoryRefresh ----------------------------
(***************************************************************************)
(* MemoryStore with Refresh, the one method of memory.go that takes no     *)
(* lock.  Each of its accesses to the shared maps is a step of its own,    *)
(* between which other goroutines may run: it reads the peer, reads the    *)
(* slice of the requested key, writes the slice back with the id appended, *)
(* and writes the peer back.                                               *)
(***************************************************************************)
EXTENDS MemoryStore

VARIABLE refreshes    \* per worker: None, or how far its Refresh has come

rvars == <<vars, refreshes>>

RefreshInit == Init /\ refreshes = [w \in Workers |-> None]

\* "existing, ok := s.peers[id]", existing.LastSeen = now.  The request names
\* any key; it is not compared with the peer's.  An unknown id ends the call.
RefreshRead(w, id, login, signatureKey) ==
    /\ refreshes[w] = None
    /\ peers[id] # None
    /\ refreshes' = [refreshes EXCEPT ![w] =
                        [stage    |-> "slice",
                         id       |-> id,
                         key      |-> KeyString(login, signatureKey),
                         existing |-> [peers[id] EXCEPT !.LastSeen = now],
                         slice    |-> None]]
    /\ UNCHANGED vars

At(w, stage) == refreshes[w] # None /\ refreshes[w].stage = stage

\* The argument of append: s.logins[key] is read.
RefreshSlice(w) ==
    /\ At(w, "slice")
    /\ refreshes' = [refreshes EXCEPT ![w].stage = "index",
                                      ![w].slice = logins[refreshes[w].key]]
    /\ UNCHANGED vars

\* s.logins[key] is assigned.
RefreshIndex(w) ==
    /\ At(w, "index")
    /\ LET r == refreshes[w]
       IN  logins' = [logins EXCEPT ![r.key] = [r.slice EXCEPT ![r.id] = @ + 1]]
    /\ refreshes' = [refreshes EXCEPT ![w].stage = "write"]
    /\ UNCHANGED <<peers, chunks, regs, now, upserts, cleaner, verdicts>>

\* s.peers[id] is assigned, whatever happened to the peer since it was read.
RefreshWrite(w) ==
    /\ At(w, "write")
    /\ peers' = [peers EXCEPT ![refreshes[w].id] = refreshes[w].existing]
    /\ refreshes' = [refreshes EXCEPT ![w] = None]
    /\ UNCHANGED <<logins, chunks, regs, now, upserts, cleaner, verdicts>>

\* The other outcome of an unsynchronised map access: the runtime stops the
\* process ("concurrent map read and map write") and the store starts empty.
\* external: Go's map implementation, used at memory.go:103-107.
Fatal ==
    /\ \E w \in Workers : refreshes[w] # None
    /\ peers' = [id \in PeerIDs |-> None]
    /\ logins' = [k \in Keys |-> [id \in PeerIDs |-> 0]]
    /\ chunks' = [c \in Slots |-> None]
    /\ regs' = 0
    /\ upserts' = [w \in Workers |-> None]
    /\ cleaner' = None
    /\ verdicts' = [id \in PeerIDs |-> NoVerdicts]
    /\ refreshes' = [w \in Workers |-> None]
    /\ now' = now

RefreshNext ==
    \/ Next /\ UNCHANGED refreshes
    \/ \E w \in Workers, id \in PeerIDs, l \in Logins, s \in SignatureKeys :
           RefreshRead(w, id, l, s)
    \/ \E w \in Workers : RefreshSlice(w) \/ RefreshIndex(w) \/ RefreshWrite(w)
    \/ Fatal

RefreshSpec == RefreshInit /\ [][RefreshNext]_rvars

-----------------------------------------------------------------------------
\* A lookup returns only peers that have the key (README: "Поиск узла по
\* ключу"; TestGetByKey and TestMultipleKeysPerPeer: a key nobody has, or no
\* longer has, is not found).  Refresh enters the id under any key it is sent.
LookupSound ==
    \A l \in Logins, s \in SignatureKeys, id \in PeerIDs :
        GetByKey(l, s)[id] > 0 => Key(peers[id]) = KeyString(l, s)

\* The calls behave as if made one at a time ("потокобезопасное in-memory
\* хранилище"): whatever Refresh overlaps with, every verdict that was passed
\* on a registered peer is in its counters.
VerdictsSurvive == VerdictLedger
=============================================================================
