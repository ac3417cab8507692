------------------------------ MODULE Signaling ------------------------------
(***************************************************************************)
(* WebRTC signalling: the WebSocket handler internal/webrtc/handler.go,    *)
(* the signal mailboxes of the in-memory store it falls back on            *)
(* (SetSignal and PollSignals of internal/store/memory.go) and the REST    *)
(* endpoints that use the same mailboxes (internal/handler/phonebook.go).  *)
(*                                                                         *)
(* A session is one WebSocket connection and the goroutine that serves it. *)
(* The goroutine is sequential; its program counter names the call it is   *)
(* about to finish.  A session at "flush", "send" or "result" is inside    *)
(* WriteMessage on some connection, so two sessions there with the same    *)
(* connection are two concurrent writers of it.                            *)
(*                                                                         *)
(* A signal is an opaque value, sent at most once, To[sig] its target.     *)
(***************************************************************************)
EXTENDS Integers, Sequences, FiniteSets

CONSTANTS
    PeerIDs,     \* peer ids
    Sessions,    \* WebSocket connections ever opened (a bound)
    Signals,     \* signals ever sent (a bound)
    To,          \* the target of each signal
    Offers,      \* the signals that are connect_to_peer offers
    Incomplete,  \* the signals without a from or a type
    None         \* no connection

ASSUME SignalingAssumption ==
    /\ To \in [Signals -> PeerIDs]
    /\ Offers \subseteq Signals
    /\ Incomplete \subseteq Signals
    /\ None \notin Sessions \cup PeerIDs \cup Signals

VARIABLES
    pc,          \* what each session's goroutine is doing
    peer,        \* the peer_id it was opened with
    link,        \* the connection: up, down (client or network gone), closed
    sig,         \* the signal it is relaying
    conn,        \* the connection it is writing to
    pending,     \* polled signals it has still to write
    wsConns,     \* map peer id -> connection
    signals,     \* the store's mailboxes: map peer id -> slice of signals
    registered,  \* the targets the store has an entry for
    place,       \* ghost: where each signal is, or how it ended: delivered, or
                 \* dropped (refused to its sender, or lost)
    received,    \* ghost: how often each signal was written to a client
    sweep,       \* the run of CloseAll: where it is, the entry it is at, and
                 \* the ids of the map as it was that it has still to come to
    overlap      \* ghost: peers whose entry two had in their care at once since
                 \* the process began: two sessions, or a session and CloseAll

vars == <<pc, peer, link, sig, conn, pending, wsConns, signals, registered,
          place, received, overlap, sweep>>

session == <<peer, link, sig, conn, pending>>

\* Between the write to wsConns and the deferred delete.
InCare(s) == pc[s] \notin {"off", "register", "gone"}

Writing(s) == pc[s] \in {"flush", "send", "result"}

\* CloseAll holds mu from its first line to its last.
MuFree == sweep.at \notin {"range", "close", "delete"}

NoSweep == [at |-> "idle", id |-> None, conn |-> None, due |-> {}]

Init ==
    /\ pc = [s \in Sessions |-> "off"]
    /\ peer = [s \in Sessions |-> None]
    /\ link = [s \in Sessions |-> "up"]
    /\ sig = [s \in Sessions |-> None]
    /\ conn = [s \in Sessions |-> None]
    /\ pending = [s \in Sessions |-> <<>>]
    /\ wsConns = [p \in PeerIDs |-> None]
    /\ signals = [p \in PeerIDs |-> <<>>]
    /\ registered = {}
    /\ place = [x \in Signals |-> "unsent"]
    /\ received = [x \in Signals |-> 0]
    /\ overlap = {}
    /\ sweep = NoSweep

Goto(s, label) == pc' = [pc EXCEPT ![s] = label]

-----------------------------------------------------------------------------
(***************************************************************************)
(* The store's mailboxes.                                                  *)
(***************************************************************************)
\* Only whether a target is registered is ever asked.
Targets == {To[x] : x \in Signals}

Upsert(p) ==
    /\ p \in Targets \ registered
    /\ registered' = registered \cup {p}
    /\ UNCHANGED <<pc, session, wsConns, signals, place, received, overlap, sweep>>

\* The mailbox of the deleted peer stays.
Delete(p) ==
    /\ p \in registered
    /\ registered' = registered \ {p}
    /\ UNCHANGED <<pc, session, wsConns, signals, place, received, overlap, sweep>>

\* SetSignal: an incomplete signal or an unknown peer is an error and nothing
\* is stored.
SetSignal(x) ==
    IF x \notin Incomplete /\ To[x] \in registered
    THEN /\ signals' = [signals EXCEPT ![To[x]] = Append(@, x)]
         /\ place' = [place EXCEPT ![x] = "stored"]
    ELSE /\ signals' = signals
         /\ place' = [place EXCEPT ![x] = "dropped"]

\* Mutant: the mailbox is read and not emptied.
Emptied_Keeps(p) == signals

\* PollSignals: the mailbox goes to the caller and is deleted.
Emptied(p) == [signals EXCEPT ![p] = <<>>]

InMailbox(p) == {signals[p][i] : i \in DOMAIN signals[p]}

Moved(xs, where) == [x \in Signals |-> IF x \in xs THEN where ELSE place[x]]

\* POST /api/v1/peers/{id}/signals
RestSetSignal(x) ==
    /\ place[x] = "unsent"
    /\ SetSignal(x)
    /\ UNCHANGED <<pc, session, wsConns, registered, received, overlap, sweep>>

\* GET /api/v1/peers/{id}/signals: the client gets the response ...
RestPollSignals(p) ==
    /\ signals[p] # <<>>
    /\ signals' = Emptied(p)
    /\ place' = Moved(InMailbox(p), "delivered")
    /\ received' = [x \in Signals |->
                       IF x \in InMailbox(p) THEN received[x] + 1 ELSE received[x]]
    /\ UNCHANGED <<pc, session, wsConns, registered, overlap, sweep>>

\* ... or has gone away: the mailbox is empty all the same.
RestPollLost(p) ==
    /\ signals[p] # <<>>
    /\ signals' = Emptied(p)
    /\ place' = Moved(InMailbox(p), "dropped")
    /\ UNCHANGED <<pc, session, wsConns, registered, received, overlap, sweep>>

-----------------------------------------------------------------------------
(***************************************************************************)
(* Opening a session.                                                      *)
(***************************************************************************)
Upgrade(s, p) ==
    /\ pc[s] = "off"
    /\ peer' = [peer EXCEPT ![s] = p]
    /\ Goto(s, "register")
    /\ UNCHANGED <<link, sig, conn, pending, wsConns, signals, registered, place,
                   received, overlap, sweep>>

\* Mutant: the connection is not entered in the map.
Entered_Forgets(s) == wsConns

Entered(s) == [wsConns EXCEPT ![peer[s]] = s]

RegisterConn(s) ==
    /\ pc[s] = "register"
    /\ wsConns' = Entered(s)
    /\ overlap' = IF \/ \E t \in Sessions \ {s} : InCare(t) /\ peer[t] = peer[s]
                     \/ sweep.id = peer[s]
                  THEN overlap \cup {peer[s]} ELSE overlap
    /\ Goto(s, "poll")
    /\ UNCHANGED <<session, signals, registered, place, received, sweep>>

\* The connection is in the map already: a notification may overtake what is
\* polled here.
PollSignals(s) ==
    /\ pc[s] = "poll"
    /\ MuFree
    /\ pending' = [pending EXCEPT ![s] = signals[peer[s]]]
    /\ signals' = Emptied(peer[s])
    /\ place' = Moved(InMailbox(peer[s]), "pending")
    /\ Goto(s, IF signals[peer[s]] = <<>> THEN "loop" ELSE "flush")
    /\ conn' = [conn EXCEPT ![s] = IF signals[peer[s]] = <<>> THEN None ELSE s]
    /\ UNCHANGED <<peer, link, sig, wsConns, registered, received, overlap, sweep>>

\* A write to connection c that returns without an error: the client has the
\* signal, or the connection had gone and nobody has noticed.
Written(x, c) ==
    IF link[c] = "up"
    THEN /\ place' = [place EXCEPT ![x] = "delivered"]
         /\ received' = [received EXCEPT ![x] = @ + 1]
    ELSE /\ place' = [place EXCEPT ![x] = "dropped"]
         /\ received' = received

\* One polled signal is written to the session's own connection; the error,
\* if there is one, is ignored.
FlushOne(s) ==
    /\ pc[s] = "flush"
    /\ Written(Head(pending[s]), s)
    /\ pending' = [pending EXCEPT ![s] = Tail(@)]
    /\ Goto(s, IF Len(pending[s]) = 1 THEN "loop" ELSE "flush")
    /\ conn' = [conn EXCEPT ![s] = IF Len(pending[s]) = 1 THEN None ELSE s]
    /\ UNCHANGED <<peer, link, sig, wsConns, signals, registered, overlap, sweep>>

-----------------------------------------------------------------------------
(***************************************************************************)
(* The read loop and the relay of one signal.                              *)
(***************************************************************************)
\* A message may still be in the buffer of a connection that has gone.
Accept(s, x) ==
    /\ pc[s] = "loop"
    /\ link[s] # "closed"
    /\ place[x] = "unsent"
    /\ sig' = [sig EXCEPT ![s] = x]
    /\ place' = [place EXCEPT ![x] = "relaying"]
    /\ Goto(s, "notify")
    /\ UNCHANGED <<peer, link, conn, pending, wsConns, signals, registered,
                   received, overlap, sweep>>

handleSignalRelay(s, x) == x \notin Offers /\ Accept(s, x)

handleConnectToPeer(s, x) == x \in Offers /\ Accept(s, x)

\* An unknown method, or parameters that do not decode: only an error is
\* sent.  (A message that is no request at all is dropped.)
RejectRequest(s, x) ==
    /\ pc[s] = "loop"
    /\ link[s] # "closed"
    /\ place[x] = "unsent"
    /\ place' = [place EXCEPT ![x] = "dropped"]
    /\ Goto(s, "answer")
    /\ UNCHANGED <<session, wsConns, signals, registered, received, overlap, sweep>>

\* sendNotification, first half: the target's connection is looked up.
Lookup(s) ==
    /\ pc[s] = "notify"
    /\ LET c == wsConns[To[sig[s]]]
       IN  IF c = None
           THEN Goto(s, "store") /\ UNCHANGED conn
           ELSE Goto(s, "send") /\ conn' = [conn EXCEPT ![s] = c]
    /\ UNCHANGED <<peer, link, sig, pending, wsConns, signals, registered,
                   place, received, overlap, sweep>>

\* sendNotification, second half: the write succeeds ...
SendNotification(s) ==
    /\ pc[s] = "send"
    /\ link[conn[s]] # "closed"
    /\ Written(sig[s], conn[s])
    /\ conn' = [conn EXCEPT ![s] = None]
    /\ sig' = [sig EXCEPT ![s] = None]
    /\ Goto(s, "answer")
    /\ UNCHANGED <<peer, link, pending, wsConns, signals, registered, overlap, sweep>>

\* ... or fails, and the signal goes to the mailbox.
SendFailed(s) ==
    /\ pc[s] = "send"
    /\ link[conn[s]] # "up"
    /\ conn' = [conn EXCEPT ![s] = None]
    /\ Goto(s, "store")
    /\ UNCHANGED <<peer, link, sig, pending, wsConns, signals, registered,
                   place, received, overlap, sweep>>

\* Mutant: no way out for a target the store does not know.
StoreSignal_KnownOnly(s) ==
    /\ pc[s] = "store"
    /\ To[sig[s]] \in registered
    /\ SetSignal(sig[s])
    /\ sig' = [sig EXCEPT ![s] = None]
    /\ Goto(s, "answer")
    /\ UNCHANGED <<peer, link, conn, pending, wsConns, registered, received,
                   overlap, sweep>>

StoreSignal(s) ==
    /\ pc[s] = "store"
    /\ SetSignal(sig[s])
    /\ sig' = [sig EXCEPT ![s] = None]
    /\ Goto(s, "answer")
    /\ UNCHANGED <<peer, link, conn, pending, wsConns, registered, received,
                   overlap, sweep>>

\* Mutant: the connection is used without asking whether there is one.
Answer_Unchecked(s) ==
    /\ pc[s] = "answer"
    /\ MuFree
    /\ Goto(s, "result")
    /\ conn' = [conn EXCEPT ![s] = wsConns[peer[s]]]
    /\ UNCHANGED <<peer, link, sig, pending, wsConns, signals, registered,
                   place, received, overlap, sweep>>

\* sendResult or sendError: whatever connection the map has for the sender,
\* if any, is written to; the error is ignored.
Answer(s) ==
    /\ pc[s] = "answer"
    /\ MuFree
    /\ IF wsConns[peer[s]] = None
       THEN Goto(s, "loop")
       ELSE Goto(s, "result")
    /\ conn' = [conn EXCEPT ![s] = wsConns[peer[s]]]
    /\ UNCHANGED <<peer, link, sig, pending, wsConns, signals, registered,
                   place, received, overlap, sweep>>

WriteResult(s) ==
    /\ pc[s] = "result"
    /\ conn' = [conn EXCEPT ![s] = None]
    /\ Goto(s, "loop")
    /\ UNCHANGED <<peer, link, sig, pending, wsConns, signals, registered,
                   place, received, overlap, sweep>>

\* Mutant: only a connection the server closed itself ends the loop.
ReadFailed_OnClose(s) ==
    /\ pc[s] = "loop"
    /\ link[s] = "closed"
    /\ Goto(s, "cleanup")
    /\ UNCHANGED <<session, wsConns, signals, registered, place, received, overlap, sweep>>

\* ReadMessage fails: the handler returns.
ReadFailed(s) ==
    /\ pc[s] = "loop"
    /\ link[s] # "up"
    /\ Goto(s, "cleanup")
    /\ UNCHANGED <<session, wsConns, signals, registered, place, received, overlap, sweep>>

\* The entry of the peer goes, whichever session it belongs to by now.
Removed(s) == [wsConns EXCEPT ![peer[s]] = None]

\* The deferred function.  (Its conn.Close() follows the delete; whoever looked
\* the connection up before the delete may as well have written before it.)
Cleanup(s) ==
    /\ pc[s] = "cleanup"
    /\ wsConns' = Removed(s)
    /\ link' = [link EXCEPT ![s] = "closed"]
    /\ sweep' = [sweep EXCEPT !.due = @ \ {peer[s]}]
    /\ Goto(s, "gone")
    /\ UNCHANGED <<peer, sig, conn, pending, signals, registered, place,
                   received, overlap>>

-----------------------------------------------------------------------------
(***************************************************************************)
(* Failures.                                                               *)
(***************************************************************************)
\* The client closes the connection or the network drops it.
Disconnect(s) ==
    /\ pc[s] # "off"
    /\ link[s] = "up"
    /\ link' = [link EXCEPT ![s] = "down"]
    /\ UNCHANGED <<pc, peer, sig, conn, pending, wsConns, signals, registered,
                   place, received, overlap, sweep>>

\* What the session's present WriteMessage carries, and what is lost with the
\* session if it does not return.
Outgoing(s) == CASE pc[s] = "flush" -> {Head(pending[s])}
                 [] pc[s] = "send"  -> {sig[s]}
                 [] OTHER           -> {}

Carried(s) == Outgoing(s) \cup {pending[s][i] : i \in DOMAIN pending[s]}

\* Two goroutines inside WriteMessage of one connection: gorilla/websocket
\* panics in one of them, before its write or (both passed the first check)
\* after it.  net/http recovers; the deferred cleanup runs only if it was
\* installed, which is after the flush.  (What they do to each other's bytes
\* when neither panics is left out.)  external.
WritePanic(s) ==
    /\ Writing(s)
    /\ \E t \in Sessions \ {s} : Writing(t) /\ conn[t] = conn[s]
    /\ Goto(s, IF pc[s] = "flush" THEN "gone" ELSE "cleanup")
    /\ \E through \in SUBSET Outgoing(s) :
          /\ through # {} => link[conn[s]] = "up"
          /\ place' = [x \in Signals |->
                          IF x \in through THEN "delivered"
                          ELSE IF x \in Carried(s) THEN "dropped" ELSE place[x]]
          /\ received' = [x \in Signals |->
                             IF x \in through THEN received[x] + 1 ELSE received[x]]
    /\ pending' = [pending EXCEPT ![s] = <<>>]
    /\ sig' = [sig EXCEPT ![s] = None]
    /\ conn' = [conn EXCEPT ![s] = None]
    /\ UNCHANGED <<peer, link, wsConns, signals, registered, overlap, sweep>>

-----------------------------------------------------------------------------
(***************************************************************************)
(* The end of the process.                                                 *)
(***************************************************************************)
\* Every goroutine and the in-memory store are gone.
Ended ==
    /\ pc' = [s \in Sessions |-> IF pc[s] = "off" THEN "off" ELSE "gone"]
    /\ link' = [s \in Sessions |-> IF pc[s] = "off" THEN link[s] ELSE "closed"]
    /\ pending' = [s \in Sessions |-> <<>>]
    /\ wsConns' = [p \in PeerIDs |-> None]
    /\ signals' = [p \in PeerIDs |-> <<>>]
    /\ registered' = {}
    /\ place' = Moved({x \in Signals :
                          place[x] \in {"relaying", "stored", "pending"}}, "dropped")
    /\ sig' = [s \in Sessions |-> None]
    /\ conn' = [s \in Sessions |-> None]
    /\ sweep' = NoSweep
    /\ overlap' = {}
    /\ UNCHANGED <<peer, received>>

\* sendResult and sendError read wsConns under mu while HandleWebSocket
\* writes it under wsMu, and CloseAll, under mu, ranges over it and deletes
\* from it beside the users of wsMu: the runtime may stop the process
\* ("concurrent map read and map write").  external.
Fatal ==
    /\ \E t \in Sessions :
          \/ pc[t] \in {"register", "cleanup"} /\ \E s \in Sessions : pc[s] = "answer"
          \/ pc[t] \in {"register", "cleanup"} /\ sweep.at = "range"
          \/ pc[t] \in {"register", "cleanup", "notify"} /\ sweep.at = "delete"
    /\ Ended

\* CloseAll, on a signal to the process, takes mu ...
CloseAll ==
    /\ sweep.at = "idle"
    /\ sweep' = [at |-> "range", id |-> None, conn |-> None,
                 due |-> {p \in PeerIDs : wsConns[p] # None}]
    /\ UNCHANGED <<pc, session, wsConns, signals, registered, place, received, overlap>>

\* ... ranges over the map: an entry it had at the beginning comes up unless it
\* is deleted before, one made since then may come up ...
CloseAllNext(p) ==
    /\ sweep.at = "range"
    /\ wsConns[p] # None
    /\ sweep' = [at |-> "close", id |-> p, conn |-> wsConns[p], due |-> sweep.due \ {p}]
    /\ UNCHANGED <<pc, session, wsConns, signals, registered, place, received, overlap>>

\* ... closes the connection it found there ...
CloseAllClose ==
    /\ sweep.at = "close"
    /\ link' = [link EXCEPT ![sweep.conn] = "closed"]
    /\ sweep' = [sweep EXCEPT !.at = "delete"]
    /\ UNCHANGED <<pc, peer, sig, conn, pending, wsConns, signals, registered,
                   place, received, overlap>>

\* Mutant: the entry stays, as the connection's own session will delete it.
Deleted_Keeps == wsConns

\* The entry the id has by now.
Deleted == [wsConns EXCEPT ![sweep.id] = None]

\* ... deletes the id's entry ...
CloseAllDelete ==
    /\ sweep.at = "delete"
    /\ wsConns' = Deleted
    /\ sweep' = [sweep EXCEPT !.at = "range", !.id = None, !.conn = None]
    /\ UNCHANGED <<pc, session, signals, registered, place, received, overlap>>

\* ... and returns.
CloseAllReturn ==
    /\ sweep.at = "range"
    /\ sweep.due = {}
    /\ sweep' = [sweep EXCEPT !.at = "done"]
    /\ UNCHANGED <<pc, session, wsConns, signals, registered, place, received, overlap>>

\* Shutdown and the end of main.  Until the listener is closed sessions go on
\* and new ones come; Shutdown does not wait for WebSocket connections.
Exit == sweep.at = "done" /\ Ended

-----------------------------------------------------------------------------
\* What the session's goroutine does by itself, without its client.
Serve(s) ==
    \/ RegisterConn(s)
    \/ PollSignals(s)
    \/ FlushOne(s)
    \/ Lookup(s)
    \/ SendNotification(s)
    \/ SendFailed(s)
    \/ StoreSignal(s)
    \/ Answer(s)
    \/ WriteResult(s)
    \/ ReadFailed(s)
    \/ Cleanup(s)
    \/ WritePanic(s)

\* What CloseAll does once it has begun.
Sweep ==
    \/ \E p \in PeerIDs : CloseAllNext(p)
    \/ CloseAllClose \/ CloseAllDelete \/ CloseAllReturn

Next ==
    \/ \E s \in Sessions, p \in PeerIDs : Upgrade(s, p)
    \/ \E s \in Sessions : Serve(s) \/ Disconnect(s)
    \/ \E s \in Sessions, x \in Signals :
           handleSignalRelay(s, x) \/ handleConnectToPeer(s, x) \/ RejectRequest(s, x)
    \/ \E x \in Signals : RestSetSignal(x)
    \/ \E p \in PeerIDs : \/ Upsert(p) \/ Delete(p)
                          \/ RestPollSignals(p) \/ RestPollLost(p)
    \/ CloseAll \/ Sweep
    \/ Fatal \/ Exit

Spec == Init /\ [][Next]_vars

\* Inside WriteMessage on a connection whose client is there: no write has a
\* deadline, so it returns only if that client reads, and nothing makes it.
Stalled(s) == Writing(s) /\ link[conn[s]] = "up"

\* A goroutine that can run does run.  Writes and reads on a connection that
\* is gone return in the end (TCP keep-alive), and closing one does not block;
\* a write to a client that is there need not return.
FairSpec ==
    /\ Spec
    /\ \A s \in Sessions : WF_vars(~Stalled(s) /\ Serve(s))
    /\ WF_vars(Sweep)

-----------------------------------------------------------------------------
(***************************************************************************)
(* Properties.                                                             *)
(***************************************************************************)
SessionsOK ==
    /\ pc \in [Sessions -> {"off", "register", "poll", "flush", "loop", "notify",
                            "send", "store", "answer", "result", "cleanup", "gone"}]
    /\ peer \in [Sessions -> PeerIDs \cup {None}]
    /\ link \in [Sessions -> {"up", "down", "closed"}]
    /\ sig \in [Sessions -> Signals \cup {None}]
    /\ conn \in [Sessions -> Sessions \cup {None}]
    /\ pending \in [Sessions -> Seq(Signals)]
    /\ wsConns \in [PeerIDs -> Sessions \cup {None}]
    /\ signals \in [PeerIDs -> Seq(Signals)]
    /\ registered \subseteq PeerIDs
    /\ place \in [Signals -> {"unsent", "relaying", "stored", "pending",
                              "delivered", "dropped"}]
    /\ received \in [Signals -> Nat]
    /\ overlap \subseteq PeerIDs
    /\ \A s \in Sessions :
           /\ pc[s] # "off" => peer[s] # None
           /\ Writing(s) <=> conn[s] # None
           /\ pc[s] = "flush" <=> pending[s] # <<>>
           /\ pc[s] \in {"notify", "send", "store"} => sig[s] # None

SweepOK ==
    /\ sweep \in [at : {"idle", "range", "close", "delete", "done"},
                  id : PeerIDs \cup {None}, conn : Sessions \cup {None},
                  due : SUBSET PeerIDs]
    /\ sweep.at \in {"close", "delete"} <=> sweep.id # None
    /\ sweep.id # None <=> sweep.conn # None

\* Types, and the locals of a goroutine are set where it uses them: a session
\* writes to a connection, flushes a batch that is not empty, relays a signal,
\* and CloseAll closes and deletes an entry.
TypeOK == SessionsOK /\ SweepOK

Occurrences(q, x) == Cardinality({i \in DOMAIN q : q[i] = x})

Relaying(x) ==
    {s \in Sessions : sig[s] = x /\ pc[s] \in {"notify", "send", "store"}}

Holding(x) == {s \in Sessions : Occurrences(pending[s], x) > 0}

\* A signal is never duplicated, and it is never dropped but with an error to
\* its sender, by a write on a connection that had gone, a panic, the end of
\* the process or a poll nobody heard: until then exactly one of the relay that
\* carries it, the mailbox of its target, a polled batch and its receiver has
\* it, and once received it is nowhere else.  (sendNotification's fallback to
\* SetSignal, PollSignals' delete, the flush, and REST polls, interleaved.)
SignalConserved ==
    \A x \in Signals :
        /\ \A s \in Holding(x) : Occurrences(pending[s], x) = 1
        /\ Cardinality(Relaying(x)) + Occurrences(signals[To[x]], x)
             + Cardinality(Holding(x)) + received[x]
           = IF place[x] \in {"unsent", "dropped"} THEN 0 ELSE 1

\* A connected peer can be reached: as long as nobody else ever had its entry
\* in care at the same time, the connection of its session is the one in
\* wsConns until CloseAll or the session itself closes it.  (The deferred
\* delete of an older session and the delete of CloseAll take out whatever
\* entry the peer has by then, the one a reconnect made as well.)
Reachable ==
    \A s \in Sessions :
        /\ InCare(s)
        /\ pc[s] # "cleanup"
        /\ link[s] # "closed"
        /\ peer[s] \notin overlap
        => wsConns[peer[s]] = s

\* The map never leads to another peer's connection, and to one the server
\* has closed itself only while CloseAll is between its Close and its delete
\* of that very connection, whatever reconnects and panics leave behind.
NoClosedEntry ==
    \A p \in PeerIDs :
        wsConns[p] # None =>
            /\ peer[wsConns[p]] = p
            /\ link[wsConns[p]] = "closed" =>
                   sweep.at = "delete" /\ sweep.conn = wsConns[p]

\* Every signal_relay or connect_to_peer request comes to an end: its session
\* returns to the read loop or ends, whether its target is known, connected or
\* gone and whatever CloseAll does meanwhile.  The one thing that can keep it
\* is a client that stays connected and never reads what is written to it.
RelayEnds ==
    \A s \in Sessions :
        pc[s] = "notify" ~> (pc[s] \in {"loop", "cleanup", "gone"} \/ []Stalled(s))

\* A session whose client has gone ends, unless it is for ever inside a write
\* to another client, which stays connected and does not read.
SessionEnds ==
    \A s \in Sessions :
        (pc[s] # "off" /\ link[s] = "down") ~> (pc[s] = "gone" \/ []Stalled(s))
=============================================================================
