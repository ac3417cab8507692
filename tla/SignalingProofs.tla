--------------------------- MODULE SignalingProofs ---------------------------
(***************************************************************************)
(* Proofs about the signalling sessions and the mailboxes, for any number  *)
(* of peers, sessions and signals.                                         *)
(***************************************************************************)
EXTENDS Signaling, FiniteSetTheorems, SequenceTheorems, TLAPS

-----------------------------------------------------------------------------
(***************************************************************************)
(* Types.                                                                  *)
(***************************************************************************)
LEMMA InitType == Init => TypeOK
<1>1. Init => SessionsOK
  BY SignalingAssumption DEF Init, SessionsOK, Writing
<1>2. Init => SweepOK
  BY DEF Init, NoSweep, SweepOK
<1> QED
  BY <1>1, <1>2 DEF TypeOK

LEMMA MailboxTypes ==
    ASSUME TypeOK
    PROVE  /\ \A x \in Signals : SetSignal(x) =>
                  /\ signals' \in [PeerIDs -> Seq(Signals)]
                  /\ place' \in [Signals -> {"unsent", "relaying", "stored", "pending",
                                             "delivered", "dropped"}]
           /\ \A p \in PeerIDs : Emptied(p) \in [PeerIDs -> Seq(Signals)]
<1>1. ASSUME NEW x \in Signals, SetSignal(x)
      PROVE  /\ signals' \in [PeerIDs -> Seq(Signals)]
             /\ place' \in [Signals -> {"unsent", "relaying", "stored", "pending",
                                        "delivered", "dropped"}]
  <2>1. Append(signals[To[x]], x) \in Seq(Signals)
    BY SignalingAssumption DEF TypeOK, SessionsOK
  <2> QED
    BY <1>1, <2>1 DEF SetSignal, TypeOK, SessionsOK
<1>2. ASSUME NEW p \in PeerIDs PROVE Emptied(p) \in [PeerIDs -> Seq(Signals)]
  BY DEF Emptied, TypeOK, SessionsOK
<1> QED
  BY <1>1, <1>2

LEMMA WrittenTypes ==
    ASSUME TypeOK, NEW x \in Signals, NEW c, Written(x, c)
    PROVE  /\ place' \in [Signals -> {"unsent", "relaying", "stored", "pending",
                                      "delivered", "dropped"}]
           /\ received' \in [Signals -> Nat]
<1>t. /\ place \in [Signals -> {"unsent", "relaying", "stored", "pending",
                                "delivered", "dropped"}]
      /\ received \in [Signals -> Nat]
  BY DEF TypeOK, SessionsOK
<1>1. CASE link[c] = "up"
  <2>1. /\ place' = [place EXCEPT ![x] = "delivered"]
        /\ received' = [received EXCEPT ![x] = received[x] + 1]
    BY <1>1 DEF Written
  <2>2. received[x] + 1 \in Nat
    BY <1>t
  <2> QED
    BY <1>t, <2>1, <2>2
<1>2. CASE link[c] # "up"
  BY <1>t, <1>2 DEF Written
<1> QED
  BY <1>1, <1>2

\* The step of CloseAll, and what the sessions change of it.
LEMMA StepKeepsSweep ==
    ASSUME TypeOK, [Next]_vars
    PROVE  SweepOK'
<1>1. CASE UNCHANGED sweep
  BY <1>1 DEF TypeOK, SweepOK
<1>2. CASE CloseAll
  BY <1>2 DEF TypeOK, SweepOK, CloseAll
<1>3. ASSUME NEW p \in PeerIDs, CloseAllNext(p) PROVE SweepOK'
  <2>1. wsConns[p] \in Sessions /\ p # None /\ wsConns[p] # None
    BY <1>3, SignalingAssumption DEF TypeOK, SessionsOK, CloseAllNext
  <2> QED
    BY <1>3, <2>1 DEF TypeOK, SweepOK, CloseAllNext
<1>4. CASE CloseAllClose
  BY <1>4 DEF TypeOK, SweepOK, CloseAllClose
<1>5. CASE CloseAllDelete
  BY <1>5 DEF TypeOK, SweepOK, CloseAllDelete
<1>6. CASE CloseAllReturn
  BY <1>6 DEF TypeOK, SweepOK, CloseAllReturn
<1>7. CASE Ended
  BY <1>7 DEF SweepOK, Ended, NoSweep
<1>8. ASSUME NEW s \in Sessions, Cleanup(s) PROVE SweepOK'
  BY <1>8 DEF TypeOK, SweepOK, Cleanup
<1>9. ASSUME NEW s \in Sessions, Serve(s), ~Cleanup(s) PROVE UNCHANGED sweep
  BY <1>9 DEF Serve, RegisterConn, PollSignals, FlushOne, Lookup, SendNotification,
              SendFailed, StoreSignal, Answer, WriteResult, ReadFailed, WritePanic
<1> QED
  BY <1>1, <1>2, <1>3, <1>4, <1>5, <1>6, <1>7, <1>8, <1>9
  DEF Next, vars, Sweep, Fatal, Exit, Upgrade, Disconnect, handleSignalRelay,
      handleConnectToPeer, Accept, RejectRequest, RestSetSignal, Upsert, Delete,
      RestPollSignals, RestPollLost

\* CloseAll leaves the locals of the sessions alone.
LEMMA SweepKeepsSessions ==
    ASSUME TypeOK, CloseAll \/ Sweep
    PROVE  SessionsOK'
<1>1. CASE CloseAll \/ CloseAllReturn \/ \E p \in PeerIDs : CloseAllNext(p)
  BY <1>1 DEF TypeOK, SessionsOK, CloseAll, CloseAllReturn, CloseAllNext, session, Writing
<1>2. CASE CloseAllClose
  BY <1>2 DEF TypeOK, SessionsOK, CloseAllClose, Writing
<1>3. CASE CloseAllDelete
  BY <1>3 DEF TypeOK, SessionsOK, CloseAllDelete, Deleted, session, Writing
<1> QED
  BY <1>1, <1>2, <1>3 DEF Sweep

LEMMA StepKeepsSessions ==
    ASSUME TypeOK, [Next]_vars
    PROVE  SessionsOK'
<1>1. CASE UNCHANGED vars
  BY <1>1 DEF TypeOK, SessionsOK, vars, Writing
<1>2. ASSUME NEW s \in Sessions, NEW p \in PeerIDs, Upgrade(s, p) PROVE SessionsOK'
  BY <1>2, SignalingAssumption DEF TypeOK, SessionsOK, Upgrade, Goto, Writing
<1>3. ASSUME NEW s \in Sessions, Disconnect(s) PROVE SessionsOK'
  BY <1>3 DEF TypeOK, SessionsOK, Disconnect, Writing
<1>4. ASSUME NEW s \in Sessions, NEW x \in Signals,
             handleSignalRelay(s, x) \/ handleConnectToPeer(s, x)
      PROVE  SessionsOK'
  <2>1. Accept(s, x)
    BY <1>4 DEF handleSignalRelay, handleConnectToPeer
  <2>2. x # None
    BY SignalingAssumption
  <2> QED
    BY <2>1, <2>2 DEF TypeOK, SessionsOK, Accept, Goto, Writing
<1>5. ASSUME NEW s \in Sessions, NEW x \in Signals, RejectRequest(s, x) PROVE SessionsOK'
  BY <1>5 DEF TypeOK, SessionsOK, RejectRequest, Goto, Writing, session
<1>6. ASSUME NEW x \in Signals, RestSetSignal(x) PROVE SessionsOK'
  BY <1>6, MailboxTypes DEF TypeOK, SessionsOK, RestSetSignal, session, Writing
<1>7. ASSUME NEW p \in PeerIDs, Upsert(p) \/ Delete(p) PROVE SessionsOK'
  BY <1>7 DEF TypeOK, SessionsOK, Upsert, Delete, session, Writing
<1>8. ASSUME NEW p \in PeerIDs, RestPollSignals(p) \/ RestPollLost(p) PROVE SessionsOK'
  <2>1. signals' \in [PeerIDs -> Seq(Signals)]
    BY <1>8, MailboxTypes DEF RestPollSignals, RestPollLost
  <2>2. /\ received' \in [Signals -> Nat]
        /\ place' \in [Signals -> {"unsent", "relaying", "stored", "pending",
                                   "delivered", "dropped"}]
    <3>1. CASE RestPollSignals(p)
      <4>1. /\ received' = [x \in Signals |-> IF x \in InMailbox(p) THEN received[x] + 1
                                             ELSE received[x]]
            /\ place' = [x \in Signals |-> IF x \in InMailbox(p) THEN "delivered"
                                          ELSE place[x]]
        BY <3>1 DEF RestPollSignals, Moved
      <4> QED
        BY <4>1 DEF TypeOK, SessionsOK
    <3>2. CASE RestPollLost(p)
      BY <3>2 DEF TypeOK, SessionsOK, RestPollLost, Moved
    <3> QED
      BY <1>8, <3>1, <3>2
  <2>3. UNCHANGED <<pc, peer, link, sig, conn, pending, wsConns, registered, overlap>>
    BY <1>8 DEF RestPollSignals, RestPollLost, session
  <2> QED
    BY <2>1, <2>2, <2>3 DEF TypeOK, SessionsOK, Writing
<1>9. CASE CloseAll \/ Sweep
  BY <1>9, SweepKeepsSessions
<1>10. CASE Fatal \/ Exit
  <2>1. Ended
    BY <1>10 DEF Fatal, Exit
  <2> QED
    BY <2>1 DEF TypeOK, SessionsOK, Ended, Moved, Writing
<1>11. ASSUME NEW s \in Sessions, Serve(s) PROVE SessionsOK'
  <2>1. CASE RegisterConn(s)
    BY <2>1 DEF TypeOK, SessionsOK, RegisterConn, Entered, Goto, session, Writing
  <2>2. CASE PollSignals(s)
    <3>1. peer[s] \in PeerIDs /\ s # None
      BY <2>2, SignalingAssumption DEF TypeOK, SessionsOK, PollSignals
    <3>2. signals[peer[s]] \in Seq(Signals)
      BY <3>1 DEF TypeOK, SessionsOK
    <3>3. Emptied(peer[s]) \in [PeerIDs -> Seq(Signals)]
      BY <3>1, MailboxTypes
    <3>4. Moved(InMailbox(peer[s]), "pending")
            \in [Signals -> {"unsent", "relaying", "stored", "pending",
                             "delivered", "dropped"}]
      BY DEF TypeOK, SessionsOK, Moved
    <3>5. \A t \in Sessions : t # s => /\ pc'[t] = pc[t]
                                       /\ conn'[t] = conn[t]
                                       /\ pending'[t] = pending[t]
      BY <2>2 DEF TypeOK, SessionsOK, PollSignals, Goto
    <3>6. /\ pending'[s] = signals[peer[s]]
          /\ pc'[s] = IF signals[peer[s]] = <<>> THEN "loop" ELSE "flush"
          /\ conn'[s] = IF signals[peer[s]] = <<>> THEN None ELSE s
      BY <2>2 DEF TypeOK, SessionsOK, PollSignals, Goto
    <3>7. \A t \in Sessions :
              /\ pc'[t] # "off" => peer[t] # None
              /\ Writing(t)' <=> conn'[t] # None
              /\ pc'[t] = "flush" <=> pending'[t] # <<>>
              /\ pc'[t] \in {"notify", "send", "store"} => sig[t] # None
      BY <2>2, <3>1, <3>5, <3>6 DEF TypeOK, SessionsOK, PollSignals, Writing
    <3> QED
      BY <2>2, <3>2, <3>3, <3>4, <3>7 DEF TypeOK, SessionsOK, PollSignals, Goto
  <2>3. CASE FlushOne(s)
    <3>1. s # None /\ pending[s] \in Seq(Signals) /\ pending[s] # <<>>
      BY <2>3, SignalingAssumption DEF TypeOK, SessionsOK, FlushOne
    <3>2. /\ Head(pending[s]) \in Signals
          /\ Tail(pending[s]) \in Seq(Signals)
          /\ Len(pending[s]) = 1 <=> Tail(pending[s]) = <<>>
      <4>1. Len(pending[s]) \in Nat \ {0} /\ Len(Tail(pending[s])) = Len(pending[s]) - 1
        BY <3>1, HeadTailProperties, EmptySeq
      <4>2. Tail(pending[s]) # <<>> => Len(Tail(pending[s])) # 0
        BY <3>1, HeadTailProperties, EmptySeq
      <4>3. Len(pending[s]) = 1 <=> Len(Tail(pending[s])) = 0
        BY <4>1
      <4>4. Tail(pending[s]) = <<>> => Len(Tail(pending[s])) = 0
        BY EmptySeq
      <4> QED
        BY <3>1, <4>2, <4>3, <4>4, HeadTailProperties
    <3>3. /\ place' \in [Signals -> {"unsent", "relaying", "stored", "pending",
                                     "delivered", "dropped"}]
          /\ received' \in [Signals -> Nat]
      BY <2>3, <3>2, WrittenTypes DEF FlushOne
    <3>4. \A t \in Sessions : t # s => /\ pc'[t] = pc[t]
                                       /\ conn'[t] = conn[t]
                                       /\ pending'[t] = pending[t]
      BY <2>3 DEF TypeOK, SessionsOK, FlushOne, Goto
    <3>5. /\ pending'[s] = Tail(pending[s])
          /\ pc'[s] = IF Len(pending[s]) = 1 THEN "loop" ELSE "flush"
          /\ conn'[s] = IF Len(pending[s]) = 1 THEN None ELSE s
      BY <2>3 DEF TypeOK, SessionsOK, FlushOne, Goto
    <3>6. \A t \in Sessions :
              /\ pc'[t] # "off" => peer[t] # None
              /\ Writing(t)' <=> conn'[t] # None
              /\ pc'[t] = "flush" <=> pending'[t] # <<>>
              /\ pc'[t] \in {"notify", "send", "store"} => sig[t] # None
      BY <2>3, <3>1, <3>2, <3>4, <3>5 DEF TypeOK, SessionsOK, FlushOne, Writing
    <3> QED
      BY <2>3, <3>2, <3>3, <3>6 DEF TypeOK, SessionsOK, FlushOne, Goto
  <2>4. CASE Lookup(s)
    <3>1. To[sig[s]] \in PeerIDs
      BY <2>4, SignalingAssumption DEF TypeOK, SessionsOK, Lookup
    <3> DEFINE c == wsConns[To[sig[s]]]
    <3>2. c \in Sessions \cup {None}
      BY <3>1 DEF TypeOK, SessionsOK
    <3>3. IF c = None THEN Goto(s, "store") /\ UNCHANGED conn
          ELSE Goto(s, "send") /\ conn' = [conn EXCEPT ![s] = c]
      BY <2>4 DEF Lookup
    <3>4. pc[s] = "notify" /\ UNCHANGED <<peer, link, sig, pending, wsConns, signals,
                                         registered, place, received, overlap, sweep>>
      BY <2>4 DEF Lookup
    <3> HIDE DEF c
    <3>5. CASE c = None
      BY <3>3, <3>4, <3>5 DEF TypeOK, SessionsOK, Goto, Writing
    <3>6. CASE c # None
      BY <3>2, <3>3, <3>4, <3>6 DEF TypeOK, SessionsOK, Goto, Writing
    <3> QED
      BY <3>5, <3>6
  <2>5. CASE SendNotification(s)
    <3>1. sig[s] \in Signals
      BY <2>5 DEF TypeOK, SessionsOK, SendNotification
    <3>2. /\ place' \in [Signals -> {"unsent", "relaying", "stored", "pending",
                                     "delivered", "dropped"}]
          /\ received' \in [Signals -> Nat]
      BY <2>5, <3>1, WrittenTypes DEF SendNotification
    <3> QED
      BY <2>5, <3>2 DEF TypeOK, SessionsOK, SendNotification, Goto, Writing
  <2>6. CASE SendFailed(s)
    BY <2>6 DEF TypeOK, SessionsOK, SendFailed, Goto, Writing
  <2>7. CASE StoreSignal(s)
    BY <2>7, MailboxTypes DEF TypeOK, SessionsOK, StoreSignal, Goto, Writing, session
  <2>8. CASE Answer(s)
    BY <2>8 DEF TypeOK, SessionsOK, Answer, Goto, Writing
  <2>9. CASE WriteResult(s)
    BY <2>9 DEF TypeOK, SessionsOK, WriteResult, Goto, Writing
  <2>10. CASE ReadFailed(s)
    BY <2>10 DEF TypeOK, SessionsOK, ReadFailed, Goto, Writing, session
  <2>11. CASE Cleanup(s)
    BY <2>11 DEF TypeOK, SessionsOK, Cleanup, Removed, Goto, Writing
  <2>12. CASE WritePanic(s)
    BY <2>12 DEF TypeOK, SessionsOK, WritePanic, Goto, Writing
  <2> QED
    BY <1>11, <2>1, <2>2, <2>3, <2>4, <2>5, <2>6, <2>7, <2>8, <2>9, <2>10, <2>11,
       <2>12 DEF Serve
<1> QED
  BY <1>1, <1>2, <1>3, <1>4, <1>5, <1>6, <1>7, <1>8, <1>9, <1>10, <1>11 DEF Next

LEMMA StepType ==
    ASSUME TypeOK, [Next]_vars
    PROVE  TypeOK'
BY StepKeepsSessions, StepKeepsSweep DEF TypeOK

\* Types, and what the locals of a session's goroutine are where it uses them,
\* for any sets of peers, sessions and signals.
THEOREM TypeCorrect == Spec => []TypeOK
BY InitType, StepType, PTL DEF Spec

-----------------------------------------------------------------------------
(***************************************************************************)
(* The connection map.                                                     *)
(***************************************************************************)
\* A session that serves a connection nobody has closed.
Serving(s) == InCare(s) /\ pc[s] # "cleanup" /\ link[s] # "closed"

\* The connection CloseAll found under an id is of that peer, and unless the
\* peer came back meanwhile no other session serves it.
SweepInv ==
    sweep.id # None =>
        /\ peer[sweep.conn] = sweep.id
        /\ pc[sweep.conn] \notin {"off", "register"}
        /\ sweep.at = "delete" => link[sweep.conn] = "closed"
        /\ sweep.id \notin overlap =>
               \A t \in Sessions : Serving(t) /\ peer[t] = sweep.id => t = sweep.conn

\* An entry is of a session that was entered in the map, and only connections
\* that were can be closed; two sessions of a peer at once are known as such.
MapInv ==
    /\ NoClosedEntry
    /\ \A p \in PeerIDs : wsConns[p] # None => pc[wsConns[p]] \notin {"off", "register"}
    /\ \A s \in Sessions : pc[s] \in {"off", "register"} => link[s] # "closed"
    /\ \A s, t \in Sessions :
           InCare(s) /\ InCare(t) /\ s # t /\ peer[s] = peer[t] => peer[s] \in overlap
    /\ SweepInv
    /\ Reachable

\* What the invariant says depends on who is in care, who is closing, and which
\* connections are closed.
LEMMA LessKeepsMap ==
    ASSUME TypeOK, MapInv, UNCHANGED <<wsConns, overlap, sweep>>,
           \A t \in Sessions :
               /\ InCare(t)' => InCare(t)
               /\ pc[t] = "cleanup" /\ InCare(t)' => pc'[t] = "cleanup"
               /\ pc'[t] \in {"off", "register"} => pc[t] \in {"off", "register"}
               /\ link'[t] = "closed" <=> link[t] = "closed"
               /\ pc[t] \notin {"off", "register"} => peer'[t] = peer[t]
    PROVE  MapInv'
<1>t. /\ \A p \in PeerIDs : wsConns[p] # None => wsConns[p] \in Sessions
      /\ sweep.id # None => sweep.conn \in Sessions
  BY DEF TypeOK, SessionsOK, SweepOK
<1>1. NoClosedEntry' /\ \A p \in PeerIDs : wsConns'[p] # None =>
                            pc'[wsConns'[p]] \notin {"off", "register"}
  BY <1>t DEF MapInv, NoClosedEntry
<1>2. \A t \in Sessions : /\ InCare(t)' => InCare(t) /\ peer'[t] = peer[t]
                          /\ Serving(t)' => Serving(t) /\ peer'[t] = peer[t]
  BY DEF Serving, InCare
<1>3. SweepInv'
  BY <1>t, <1>2 DEF MapInv, SweepInv
<1>4. Reachable'
  BY <1>2 DEF MapInv, Reachable, Serving
<1> QED
  BY <1>1, <1>2, <1>3, <1>4 DEF MapInv

\* A session that is in the map's care and goes on, or begins to end.
LEMMA GoOnKeepsMap ==
    ASSUME TypeOK, MapInv, NEW s \in Sessions, NEW label, Goto(s, label),
           InCare(s), pc[s] # "cleanup", label \notin {"off", "register"},
           UNCHANGED <<peer, link, wsConns, overlap, sweep>>
    PROVE  MapInv'
<1>1. /\ pc'[s] = label
      /\ \A t \in Sessions : t # s => pc'[t] = pc[t]
  BY DEF Goto, TypeOK, SessionsOK
<1>2. \A t \in Sessions :
          /\ InCare(t)' => InCare(t)
          /\ pc[t] = "cleanup" => pc'[t] = "cleanup"
          /\ pc'[t] \in {"off", "register"} <=> pc[t] \in {"off", "register"}
  BY <1>1 DEF InCare
<1> QED
  BY <1>2, LessKeepsMap

LEMMA StillKeepsMap ==
    ASSUME TypeOK, MapInv, UNCHANGED <<pc, peer, link, wsConns, overlap, sweep>>
    PROVE  MapInv'
<1>1. \A t \in Sessions : InCare(t)' <=> InCare(t)
  BY DEF InCare
<1> QED
  BY <1>1, LessKeepsMap

\* CloseAll: between its Close and its delete the entry may be of a closed
\* connection; the delete takes out no entry of a session that serves, unless
\* the peer came back meanwhile.
LEMMA SweepKeepsMap ==
    ASSUME TypeOK, MapInv, CloseAll \/ Sweep
    PROVE  MapInv'
<1>t. /\ \A p \in PeerIDs : wsConns[p] # None => wsConns[p] \in Sessions
      /\ sweep.at \in {"close", "delete"} <=> sweep.id # None
      /\ sweep.id # None => sweep.conn \in Sessions /\ sweep.id \in PeerIDs
  BY DEF TypeOK, SessionsOK, SweepOK
<1>u. pc' = pc /\ peer' = peer /\ overlap' = overlap
  BY DEF CloseAll, Sweep, CloseAllNext, CloseAllClose, CloseAllDelete, CloseAllReturn,
         session
<1>v. \A t \in Sessions : InCare(t)' <=> InCare(t)
  BY <1>u DEF InCare
<1>1. CASE CloseAll \/ CloseAllReturn
  <2>1. /\ link' = link /\ wsConns' = wsConns
        /\ sweep.at # "delete" /\ sweep'.id = None
    BY <1>1, <1>t DEF CloseAll, CloseAllReturn, session, TypeOK, SessionsOK, SweepOK
  <2>2. SweepInv' /\ NoClosedEntry'
    BY <1>u, <2>1 DEF MapInv, SweepInv, NoClosedEntry
  <2> QED
    BY <1>u, <1>v, <2>1, <2>2 DEF MapInv, Reachable
<1>2. ASSUME NEW p \in PeerIDs, CloseAllNext(p) PROVE MapInv'
  <2>1. /\ link' = link /\ wsConns' = wsConns
        /\ sweep.at = "range" /\ wsConns[p] \in Sessions
        /\ sweep'.at = "close" /\ sweep'.id = p /\ sweep'.conn = wsConns[p]
    BY <1>2, <1>t DEF CloseAllNext, session
  <2>2. NoClosedEntry'
    BY <1>u, <2>1 DEF MapInv, NoClosedEntry
  <2>3. \A t \in Sessions : Serving(t)' <=> Serving(t)
    BY <1>u, <1>v, <2>1 DEF Serving
  <2>4. p \notin overlap =>
            \A t \in Sessions : Serving(t) /\ peer[t] = p => t = wsConns[p]
    BY DEF MapInv, Reachable, Serving
  <2>5. peer[wsConns[p]] = p /\ pc[wsConns[p]] \notin {"off", "register"}
    BY <2>1, SignalingAssumption DEF MapInv, NoClosedEntry
  <2>6. SweepInv'
    BY <1>u, <2>1, <2>3, <2>4, <2>5 DEF SweepInv
  <2> QED
    BY <1>u, <1>v, <2>1, <2>2, <2>6 DEF MapInv, Reachable
<1>3. CASE CloseAllClose
  <2> DEFINE c == sweep.conn
  <2>1. /\ wsConns' = wsConns /\ sweep.at = "close" /\ c \in Sessions
        /\ sweep'.at = "delete" /\ sweep'.id = sweep.id /\ sweep'.conn = c
        /\ link'[c] = "closed"
        /\ \A t \in Sessions : t # c => link'[t] = link[t]
    BY <1>3, <1>t DEF CloseAllClose, TypeOK, SessionsOK, SweepOK
  <2>2. peer[c] = sweep.id /\ pc[c] \notin {"off", "register"}
    BY <1>t, <2>1 DEF MapInv, SweepInv
  <2>3. NoClosedEntry'
    BY <1>t, <1>u, <2>1 DEF MapInv, NoClosedEntry
  <2>4. \A t \in Sessions : Serving(t)' => Serving(t)
    BY <1>u, <1>v, <2>1 DEF Serving
  <2>5. SweepInv'
    BY <1>t, <1>u, <2>1, <2>2, <2>4 DEF MapInv, SweepInv
  <2>6. Reachable'
    BY <1>u, <1>v, <2>1 DEF MapInv, Reachable
  <2> QED
    BY <1>u, <1>v, <2>1, <2>2, <2>3, <2>5, <2>6 DEF MapInv
<1>4. CASE CloseAllDelete
  <2>1. /\ link' = link /\ sweep.at = "delete"
        /\ sweep'.at = "range" /\ sweep'.id = None
        /\ sweep.id \in PeerIDs /\ sweep.conn \in Sessions
    BY <1>4, <1>t DEF CloseAllDelete, session, TypeOK, SessionsOK, SweepOK
  <2>2. /\ wsConns'[sweep.id] = None
        /\ \A p \in PeerIDs : p # sweep.id => wsConns'[p] = wsConns[p]
    BY <1>4, <2>1 DEF CloseAllDelete, Deleted, TypeOK, SessionsOK
  <2>3. peer[sweep.conn] = sweep.id /\ link[sweep.conn] = "closed"
    BY <1>t, <2>1 DEF MapInv, SweepInv
  <2>4. \A p \in PeerIDs : wsConns'[p] # None =>
            /\ wsConns'[p] = wsConns[p]
            /\ peer[wsConns[p]] = p /\ wsConns[p] # sweep.conn
            /\ link[wsConns[p]] # "closed"
            /\ pc[wsConns[p]] \notin {"off", "register"}
    BY <2>2, <2>3 DEF MapInv, NoClosedEntry
  <2>5. NoClosedEntry' /\ SweepInv'
    BY <1>u, <2>1, <2>4 DEF NoClosedEntry, SweepInv
  <2>6. Reachable'
    <3> SUFFICES ASSUME NEW t \in Sessions, Serving(t), peer[t] \notin overlap
                 PROVE  wsConns'[peer[t]] = t
      BY <1>u, <1>v, <2>1 DEF Reachable, Serving
    <3>1. peer[t] \in PeerIDs /\ wsConns[peer[t]] = t
      BY DEF MapInv, Reachable, Serving, TypeOK, SessionsOK, InCare
    <3>2. peer[t] # sweep.id
      BY <1>t, <2>1, <2>3 DEF MapInv, SweepInv, Serving
    <3> QED
      BY <2>2, <3>1, <3>2
  <2> QED
    BY <1>u, <1>v, <2>1, <2>4, <2>5, <2>6 DEF MapInv
<1> QED
  BY <1>1, <1>2, <1>3, <1>4 DEF Sweep

LEMMA StepKeepsMap ==
    ASSUME TypeOK, MapInv, [Next]_vars
    PROVE  MapInv'
<1>t. \A p \in PeerIDs : wsConns[p] # None => wsConns[p] \in Sessions
  BY DEF TypeOK, SessionsOK
<1>1. CASE UNCHANGED vars
  BY <1>1, StillKeepsMap DEF vars
<1>2. ASSUME NEW s \in Sessions, NEW p \in PeerIDs, Upgrade(s, p) PROVE MapInv'
  <2>1. /\ pc[s] = "off" /\ pc'[s] = "register"
        /\ \A t \in Sessions : t # s => pc'[t] = pc[t] /\ peer'[t] = peer[t]
        /\ UNCHANGED <<link, wsConns, overlap, sweep>>
    BY <1>2 DEF Upgrade, Goto, TypeOK, SessionsOK
  <2>2. \A t \in Sessions : InCare(t)' <=> InCare(t) /\ t # s
    BY <2>1 DEF InCare
  <2> QED
    BY <2>1, <2>2, LessKeepsMap
<1>3. ASSUME NEW s \in Sessions, Disconnect(s) PROVE MapInv'
  <2>1. /\ link[s] = "up" /\ link'[s] = "down"
        /\ \A t \in Sessions : t # s => link'[t] = link[t]
        /\ UNCHANGED <<pc, peer, wsConns, overlap, sweep>>
    BY <1>3 DEF Disconnect, TypeOK, SessionsOK
  <2>2. \A t \in Sessions : link'[t] = "closed" <=> link[t] = "closed"
    BY <2>1
  <2>3. \A t \in Sessions : InCare(t)' <=> InCare(t)
    BY <2>1 DEF InCare
  <2> QED
    BY <2>1, <2>2, <2>3, LessKeepsMap
<1>4. ASSUME NEW s \in Sessions, NEW x \in Signals,
             \/ handleSignalRelay(s, x) \/ handleConnectToPeer(s, x)
             \/ RejectRequest(s, x)
      PROVE  MapInv'
  BY <1>4, GoOnKeepsMap DEF handleSignalRelay, handleConnectToPeer, Accept,
                            RejectRequest, session, InCare
<1>5. ASSUME NEW x \in Signals, RestSetSignal(x) PROVE MapInv'
  BY <1>5, StillKeepsMap DEF RestSetSignal, session
<1>6. ASSUME NEW p \in PeerIDs,
             Upsert(p) \/ Delete(p) \/ RestPollSignals(p) \/ RestPollLost(p)
      PROVE  MapInv'
  BY <1>6, StillKeepsMap DEF Upsert, Delete, RestPollSignals, RestPollLost, session
<1>7. CASE CloseAll \/ Sweep
  BY <1>7, SweepKeepsMap
<1>8. CASE Fatal \/ Exit
  <2>1. Ended
    BY <1>8 DEF Fatal, Exit
  <2>2. /\ \A s \in Sessions : /\ pc'[s] \in {"off", "gone"}
                               /\ pc'[s] = "off" => pc[s] = "off" /\ link'[s] = link[s]
        /\ \A p \in PeerIDs : wsConns'[p] = None
        /\ sweep'.id = None
    BY <2>1 DEF Ended, NoSweep
  <2>3. \A s \in Sessions : ~InCare(s)'
    BY <2>2 DEF InCare
  <2>4. SweepInv' /\ NoClosedEntry' /\ Reachable'
    BY <2>2, <2>3 DEF SweepInv, NoClosedEntry, Reachable
  <2> QED
    BY <2>2, <2>3, <2>4 DEF MapInv
<1>9. ASSUME NEW s \in Sessions, Serve(s) PROVE MapInv'
  <2>1. CASE RegisterConn(s)
    <3>1. /\ pc[s] = "register" /\ pc'[s] = "poll"
          /\ \A t \in Sessions : t # s => pc'[t] = pc[t]
          /\ UNCHANGED <<peer, link, sweep>>
          /\ peer[s] \in PeerIDs
          /\ overlap \subseteq overlap'
          /\ sweep.id = peer[s] => peer[s] \in overlap'
          /\ \A t \in Sessions \ {s} :
                 InCare(t) /\ peer[t] = peer[s] => peer[s] \in overlap'
      BY <2>1 DEF RegisterConn, Goto, TypeOK, SessionsOK, session
    <3>2. /\ wsConns'[peer[s]] = s
          /\ \A p \in PeerIDs : p # peer[s] => wsConns'[p] = wsConns[p]
      BY <2>1, <3>1 DEF RegisterConn, Entered, TypeOK, SessionsOK
    <3>3. \A t \in Sessions : InCare(t)' <=> InCare(t) \/ t = s
      BY <3>1 DEF InCare
    <3>4. link[s] # "closed" /\ ~InCare(s)
      BY <3>1 DEF MapInv, InCare
    <3>5. /\ NoClosedEntry'
          /\ \A p \in PeerIDs :
                 wsConns'[p] # None => pc'[wsConns'[p]] \notin {"off", "register"}
      BY <1>t, <3>1, <3>2, <3>4 DEF MapInv, NoClosedEntry
    <3>6. \A t, u \in Sessions :
              InCare(t)' /\ InCare(u)' /\ t # u /\ peer[t] = peer[u] => peer[t] \in overlap'
      BY <3>1, <3>3 DEF MapInv
    <3>7. Reachable'
      <4> SUFFICES ASSUME NEW t \in Sessions, InCare(t)', pc'[t] # "cleanup",
                          link[t] # "closed", peer[t] \notin overlap'
                   PROVE  wsConns'[peer[t]] = t
        BY <3>1 DEF Reachable
      <4>1. CASE t = s
        BY <3>2, <4>1
      <4>2. CASE t # s
        <5>1. InCare(t) /\ pc[t] # "cleanup" /\ peer[t] # peer[s]
          BY <3>1, <3>3, <4>2
        <5>2. peer[t] \in PeerIDs
          BY <5>1 DEF TypeOK, SessionsOK, InCare
        <5> QED
          BY <3>1, <3>2, <5>1, <5>2 DEF MapInv, Reachable
      <4> QED
        BY <4>1, <4>2
    <3>8. SweepInv'
      <4> SUFFICES ASSUME sweep.id # None
                   PROVE  /\ peer[sweep.conn] = sweep.id
                          /\ pc'[sweep.conn] \notin {"off", "register"}
                          /\ sweep.at = "delete" => link[sweep.conn] = "closed"
                          /\ sweep.id \notin overlap' =>
                                 \A t \in Sessions : Serving(t)' /\ peer[t] = sweep.id =>
                                                         t = sweep.conn
        BY <3>1 DEF SweepInv
      <4>1. sweep.conn \in Sessions
        BY DEF TypeOK, SessionsOK, SweepOK
      <4>2. \A t \in Sessions : t # s => (Serving(t)' <=> Serving(t))
        BY <3>1, <3>3 DEF Serving
      <4> QED
        BY <3>1, <4>1, <4>2 DEF MapInv, SweepInv
    <3> QED
      BY <3>1, <3>5, <3>6, <3>7, <3>8 DEF MapInv
  <2>2. CASE PollSignals(s)
    <3>1. PICK label \in {"loop", "flush"} : Goto(s, label)
      BY <2>2 DEF PollSignals
    <3> QED
      BY <2>2, <3>1, GoOnKeepsMap DEF PollSignals, InCare
  <2>3. CASE FlushOne(s)
    <3>1. PICK label \in {"loop", "flush"} : Goto(s, label)
      BY <2>3 DEF FlushOne
    <3> QED
      BY <2>3, <3>1, GoOnKeepsMap DEF FlushOne, InCare
  <2>4. CASE Lookup(s)
    <3>1. PICK label \in {"store", "send"} : Goto(s, label)
      BY <2>4 DEF Lookup
    <3> QED
      BY <2>4, <3>1, GoOnKeepsMap DEF Lookup, InCare
  <2>5. CASE SendNotification(s)
    BY <2>5, GoOnKeepsMap DEF SendNotification, InCare
  <2>6. CASE SendFailed(s)
    BY <2>6, GoOnKeepsMap DEF SendFailed, InCare
  <2>7. CASE StoreSignal(s)
    BY <2>7, GoOnKeepsMap DEF StoreSignal, session, InCare
  <2>8. CASE Answer(s)
    <3>1. PICK label \in {"loop", "result"} : Goto(s, label)
      BY <2>8 DEF Answer
    <3> QED
      BY <2>8, <3>1, GoOnKeepsMap DEF Answer, InCare
  <2>9. CASE WriteResult(s)
    BY <2>9, GoOnKeepsMap DEF WriteResult, InCare
  <2>10. CASE ReadFailed(s)
    BY <2>10, GoOnKeepsMap DEF ReadFailed, session, InCare
  <2>11. CASE Cleanup(s)
    <3>1. /\ pc[s] = "cleanup" /\ pc'[s] = "gone"
          /\ \A t \in Sessions : t # s => pc'[t] = pc[t] /\ link'[t] = link[t]
          /\ link'[s] = "closed"
          /\ UNCHANGED <<peer, overlap>>
          /\ sweep'.at = sweep.at /\ sweep'.id = sweep.id /\ sweep'.conn = sweep.conn
          /\ peer[s] \in PeerIDs
      BY <2>11 DEF Cleanup, Goto, TypeOK, SessionsOK, SweepOK
    <3>2. /\ wsConns'[peer[s]] = None
          /\ \A p \in PeerIDs : p # peer[s] => wsConns'[p] = wsConns[p]
      BY <2>11, <3>1 DEF Cleanup, Removed, TypeOK, SessionsOK
    <3>3. InCare(s) /\ \A t \in Sessions : InCare(t)' <=> InCare(t) /\ t # s
      BY <3>1 DEF InCare
    <3>4. \A p \in PeerIDs : wsConns'[p] # None =>
              p # peer[s] /\ wsConns'[p] = wsConns[p] /\ wsConns[p] # s
      BY <3>1, <3>2 DEF MapInv, NoClosedEntry
    <3>5. /\ NoClosedEntry'
          /\ \A p \in PeerIDs :
                 wsConns'[p] # None => pc'[wsConns'[p]] \notin {"off", "register"}
      BY <1>t, <3>1, <3>4 DEF MapInv, NoClosedEntry
    <3>6. Reachable'
      <4> SUFFICES ASSUME NEW t \in Sessions, InCare(t)', pc'[t] # "cleanup",
                          link'[t] # "closed", peer[t] \notin overlap
                   PROVE  wsConns'[peer[t]] = t
        BY <3>1 DEF Reachable
      <4>1. InCare(t) /\ t # s /\ pc[t] # "cleanup" /\ link[t] # "closed"
        BY <3>1, <3>3
      <4>2. peer[t] \in PeerIDs /\ peer[t] # peer[s]
        BY <3>3, <4>1 DEF TypeOK, SessionsOK, InCare, MapInv
      <4> QED
        BY <3>2, <4>1, <4>2 DEF MapInv, Reachable
    <3>7. \A t \in Sessions : Serving(t)' => Serving(t)
      BY <3>1, <3>3 DEF Serving
    <3>8. SweepInv'
      <4>1. sweep.id # None => sweep.conn \in Sessions
        BY DEF TypeOK, SessionsOK, SweepOK
      <4> QED
        BY <3>1, <3>7, <4>1 DEF MapInv, SweepInv
    <3> QED
      BY <3>1, <3>3, <3>5, <3>6, <3>8 DEF MapInv
  <2>12. CASE WritePanic(s)
    <3>1. PICK label \in {"gone", "cleanup"} : Goto(s, label)
      BY <2>12 DEF WritePanic
    <3> QED
      BY <2>12, <3>1, GoOnKeepsMap DEF WritePanic, Writing, InCare
  <2> QED
    BY <1>9, <2>1, <2>2, <2>3, <2>4, <2>5, <2>6, <2>7, <2>8, <2>9, <2>10, <2>11,
       <2>12 DEF Serve
<1> QED
  BY <1>1, <1>2, <1>3, <1>4, <1>5, <1>6, <1>7, <1>8, <1>9 DEF Next

LEMMA MapCorrect == Spec => []MapInv
<1>1. Init => MapInv
  BY DEF Init, NoSweep, MapInv, SweepInv, NoClosedEntry, Reachable, InCare
<1>2. TypeOK /\ MapInv /\ [Next]_vars => MapInv'
  BY StepKeepsMap
<1> QED
  BY <1>1, <1>2, TypeCorrect, PTL DEF Spec

\* The map never leads to another peer's connection, and to one the server has
\* closed only between CloseAll's Close and its delete of that connection, for
\* any number of peers and sessions.
THEOREM EntriesCorrect == Spec => []NoClosedEntry
<1>1. MapInv => NoClosedEntry
  BY DEF MapInv
<1> QED
  BY <1>1, MapCorrect, PTL

\* A peer whose entry was never in two hands at once, two sessions or a session
\* and CloseAll, is reachable through the map as long as its session serves.
THEOREM ReachableCorrect == Spec => []Reachable
<1>1. MapInv => Reachable
  BY DEF MapInv
<1> QED
  BY <1>1, MapCorrect, PTL

-----------------------------------------------------------------------------
(***************************************************************************)
(* Where the signals are.                                                  *)
(***************************************************************************)
Elements(q) == {q[i] : i \in DOMAIN q}

Distinct(q) == \A i, j \in DOMAIN q : q[i] = q[j] => i = j

Relays(s, x) == sig[s] = x /\ pc[s] \in {"notify", "send", "store"}

\* place[x] says where x is; it is there once, and nowhere else.
BoxesInv ==
    \A p \in PeerIDs :
        /\ Distinct(signals[p])
        /\ \A x \in Elements(signals[p]) : To[x] = p /\ place[x] = "stored"

HeldInv ==
    \A s \in Sessions :
        /\ Distinct(pending[s])
        /\ \A x \in Elements(pending[s]) :
               /\ place[x] = "pending"
               /\ \A t \in Sessions : x \in Elements(pending[t]) => t = s

RelayInv ==
    \A s \in Sessions, x \in Signals :
        Relays(s, x) =>
            /\ place[x] = "relaying"
            /\ \A t \in Sessions : Relays(t, x) => t = s

FoundInv ==
    \A x \in Signals :
        /\ place[x] = "stored" => x \in Elements(signals[To[x]])
        /\ place[x] = "pending" => \E s \in Sessions : x \in Elements(pending[s])
        /\ place[x] = "relaying" => \E s \in Sessions : Relays(s, x)
        /\ received[x] = IF place[x] = "delivered" THEN 1 ELSE 0

PlaceInv == BoxesInv /\ HeldInv /\ RelayInv /\ FoundInv

\* The slices of the mailboxes, as sets.
LEMMA EmptyElements == Elements(<<>>) = {} /\ Distinct(<<>>)
BY DEF Elements, Distinct

LEMMA AppendElements ==
    ASSUME NEW q \in Seq(Signals), NEW x \in Signals
    PROVE  /\ Elements(Append(q, x)) = Elements(q) \cup {x}
           /\ Distinct(q) /\ x \notin Elements(q) => Distinct(Append(q, x))
<1>1. /\ DOMAIN q = 1 .. Len(q) /\ Len(q) \in Nat
      /\ DOMAIN Append(q, x) = 1 .. Len(q) + 1
      /\ \A i \in 1 .. Len(q) : Append(q, x)[i] = q[i]
      /\ Append(q, x)[Len(q) + 1] = x
  BY AppendProperties, LenProperties
<1> DEFINE r == Append(q, x)
           n == Len(q)
<1>2. /\ DOMAIN q = 1 .. n /\ n \in Nat
      /\ DOMAIN r = 1 .. n + 1
      /\ \A i \in 1 .. n : r[i] = q[i]
      /\ r[n + 1] = x
  BY <1>1
<1> HIDE DEF r, n
<1>3. \A i \in 1 .. n + 1 : i \in 1 .. n \/ i = n + 1
  BY <1>2
<1>4. n + 1 \in 1 .. n + 1 /\ \A i \in 1 .. n : i \in 1 .. n + 1
  BY <1>2
<1>5. Elements(r) = Elements(q) \cup {x}
  BY <1>2, <1>3, <1>4 DEF Elements
<1>6. ASSUME Distinct(q), x \notin Elements(q) PROVE Distinct(r)
  BY <1>2, <1>3, <1>6 DEF Distinct, Elements
<1> QED
  BY <1>5, <1>6 DEF r

LEMMA TailElements ==
    ASSUME NEW q \in Seq(Signals), q # <<>>, Distinct(q)
    PROVE  /\ Head(q) \in Elements(q)
           /\ Elements(Tail(q)) = Elements(q) \ {Head(q)}
           /\ Distinct(Tail(q))
<1> DEFINE r == Tail(q)
           n == Len(q)
<1>1. /\ n \in Nat \ {0} /\ DOMAIN q = 1 .. n
      /\ DOMAIN r = 1 .. n - 1
      /\ \A i \in 1 .. n - 1 : r[i] = q[i + 1]
      /\ Head(q) = q[1]
  <2>1. r \in Seq(Signals) /\ Len(r) = n - 1 /\ \A i \in 1 .. Len(r) : r[i] = q[i + 1]
    BY HeadTailProperties
  <2>2. n \in Nat \ {0} /\ DOMAIN q = 1 .. n
    BY EmptySeq, LenProperties
  <2>3. DOMAIN r = 1 .. n - 1
    BY <2>1, LenProperties
  <2> QED
    BY <2>1, <2>2, <2>3
<1> HIDE DEF r, n
<1>2. /\ 1 \in 1 .. n
      /\ \A i \in 1 .. n - 1 : i + 1 \in 1 .. n /\ i + 1 # 1
      /\ \A i \in 1 .. n : i # 1 => i - 1 \in 1 .. n - 1 /\ (i - 1) + 1 = i
  BY <1>1
<1>3. Head(q) \in Elements(q)
  BY <1>1, <1>2 DEF Elements
<1>4. Elements(r) \subseteq Elements(q) \ {Head(q)}
  BY <1>1, <1>2 DEF Elements, Distinct
<1>5. Elements(q) \ {Head(q)} \subseteq Elements(r)
  <2> SUFFICES ASSUME NEW i \in 1 .. n, q[i] # q[1] PROVE q[i] \in Elements(r)
    BY <1>1 DEF Elements
  <2>1. i - 1 \in 1 .. n - 1 /\ r[i - 1] = q[i]
    BY <1>1, <1>2
  <2> QED
    BY <1>1, <2>1 DEF Elements
<1>6. Distinct(r)
  <2> SUFFICES ASSUME NEW i \in 1 .. n - 1, NEW j \in 1 .. n - 1, r[i] = r[j]
               PROVE  i = j
    BY <1>1 DEF Distinct
  <2>1. i + 1 = j + 1
    BY <1>1, <1>2 DEF Distinct
  <2> QED
    BY <1>1, <2>1
<1> QED
  BY <1>3, <1>4, <1>5, <1>6 DEF r

LEMMA ElementsType ==
    ASSUME NEW q \in Seq(Signals)
    PROVE  Elements(q) \subseteq Signals
BY DEF Elements

LEMMA DistinctOccurs ==
    ASSUME NEW q \in Seq(Signals), Distinct(q), NEW x
    PROVE  Occurrences(q, x) = IF x \in Elements(q) THEN 1 ELSE 0
<1>1. CASE x \in Elements(q)
  <2>1. PICK i \in DOMAIN q : q[i] = x
    BY <1>1 DEF Elements
  <2>2. {j \in DOMAIN q : q[j] = x} = {i}
    BY <2>1 DEF Distinct
  <2> QED
    BY <1>1, <2>2, FS_Singleton DEF Occurrences
<1>2. CASE x \notin Elements(q)
  <2>1. {j \in DOMAIN q : q[j] = x} = {}
    BY <1>2 DEF Elements
  <2> QED
    BY <1>2, <2>1, FS_EmptySet DEF Occurrences
<1> QED
  BY <1>1, <1>2

LEMMA ElementsKnown ==
    ASSUME TypeOK
    PROVE  /\ \A p \in PeerIDs : Elements(signals[p]) \subseteq Signals
           /\ \A s \in Sessions : Elements(pending[s]) \subseteq Signals
BY ElementsType DEF TypeOK, SessionsOK

\* A step that moves no signal.
LEMMA NoMoveKeepsPlaces ==
    ASSUME PlaceInv, UNCHANGED <<pending, signals, place, received>>,
           \A s \in Sessions, x \in Signals : Relays(s, x)' <=> Relays(s, x)
    PROVE  PlaceInv'
<1>1. BoxesInv' /\ HeldInv'
  BY DEF PlaceInv, BoxesInv, HeldInv
<1>2. RelayInv'
  BY DEF PlaceInv, RelayInv
<1>3. FoundInv'
  BY DEF PlaceInv, FoundInv
<1> QED
  BY <1>1, <1>2, <1>3 DEF PlaceInv

\* A signal that is not stored yet, new or on its relay, goes to the mailbox
\* or is refused.
LEMMA SetSignalKeepsPlaces ==
    ASSUME TypeOK, PlaceInv, NEW x \in Signals, SetSignal(x),
           place[x] \in {"unsent", "relaying"},
           UNCHANGED <<pending, received>>,
           \A s \in Sessions, y \in Signals : Relays(s, y)' <=> Relays(s, y) /\ y # x
    PROVE  PlaceInv'
<1>1. To[x] \in PeerIDs /\ signals[To[x]] \in Seq(Signals)
  BY SignalingAssumption DEF TypeOK, SessionsOK
<1>2. /\ \A y \in Signals : y # x => place'[y] = place[y]
      /\ place'[x] \in {"stored", "dropped"}
  BY DEF SetSignal, TypeOK, SessionsOK
<1>3. /\ \A p \in PeerIDs : p # To[x] => signals'[p] = signals[p]
      /\ place'[x] = "stored" => signals'[To[x]] = Append(signals[To[x]], x)
      /\ place'[x] = "dropped" => signals'[To[x]] = signals[To[x]]
  BY <1>1 DEF SetSignal, TypeOK, SessionsOK
<1>4. /\ x \notin Elements(signals[To[x]])
      /\ \A p \in PeerIDs : x \notin Elements(signals[p])
      /\ \A s \in Sessions : x \notin Elements(pending[s])
  BY <1>1 DEF PlaceInv, BoxesInv, HeldInv
<1>5. /\ Elements(Append(signals[To[x]], x)) = Elements(signals[To[x]]) \cup {x}
      /\ Distinct(Append(signals[To[x]], x))
  BY <1>1, <1>4, AppendElements DEF PlaceInv, BoxesInv
<1>6. BoxesInv'
  <2> SUFFICES ASSUME NEW p \in PeerIDs
               PROVE  /\ Distinct(signals'[p])
                      /\ \A y \in Elements(signals'[p]) : To[y] = p /\ place'[y] = "stored"
    BY DEF BoxesInv
  <2>1. CASE signals'[p] = signals[p]
    BY <1>2, <1>4, <2>1, ElementsKnown DEF PlaceInv, BoxesInv
  <2>2. CASE signals'[p] # signals[p]
    <3>1. p = To[x] /\ signals'[p] = Append(signals[To[x]], x) /\ place'[x] = "stored"
      BY <1>2, <1>3, <2>2
    <3> QED
      BY <1>1, <1>2, <1>4, <1>5, <3>1, ElementsKnown DEF PlaceInv, BoxesInv
  <2> QED
    BY <2>1, <2>2
<1>7. HeldInv'
  BY <1>2, <1>4, ElementsKnown DEF PlaceInv, HeldInv
<1>8. RelayInv'
  BY <1>2 DEF PlaceInv, RelayInv
<1>9. FoundInv'
  <2> SUFFICES ASSUME NEW y \in Signals
               PROVE  /\ place'[y] = "stored" => y \in Elements(signals'[To[y]])
                      /\ place'[y] = "pending" =>
                             \E s \in Sessions : y \in Elements(pending[s])
                      /\ place'[y] = "relaying" => \E s \in Sessions : Relays(s, y)'
                      /\ received[y] = IF place'[y] = "delivered" THEN 1 ELSE 0
    BY DEF FoundInv
  <2>1. CASE y = x
    BY <1>2, <1>3, <1>5, <2>1 DEF PlaceInv, FoundInv
  <2>2. CASE y # x
    <3>1. To[y] \in PeerIDs
      BY SignalingAssumption
    <3>2. y \in Elements(signals[To[y]]) => y \in Elements(signals'[To[y]])
      BY <1>2, <1>3, <1>5, <3>1
    <3> QED
      BY <1>2, <2>2, <3>2 DEF PlaceInv, FoundInv
  <2> QED
    BY <2>1, <2>2
<1> QED
  BY <1>6, <1>7, <1>8, <1>9 DEF PlaceInv

\* A mailbox is polled: its signals are with the client, lost, or in the
\* batch of the session that polled.
LEMMA PollKeepsPlaces ==
    ASSUME TypeOK, PlaceInv, NEW p \in PeerIDs, NEW where,
           signals' = Emptied(p), place' = Moved(InMailbox(p), where),
           \A s \in Sessions, x \in Signals : Relays(s, x)' <=> Relays(s, x),
           \/ /\ where \in {"delivered", "dropped"}
              /\ pending' = pending
              /\ received' = [x \in Signals |->
                                 IF x \in InMailbox(p) /\ where = "delivered"
                                 THEN received[x] + 1 ELSE received[x]]
           \/ /\ where = "pending"
              /\ \E s \in Sessions : /\ pending[s] = <<>>
                                     /\ pending' = [pending EXCEPT ![s] = signals[p]]
              /\ received' = received
    PROVE  PlaceInv'
<1> DEFINE box == Elements(signals[p])
<1>1. box = InMailbox(p)
  BY DEF Elements, InMailbox
<1>2. \A x \in Signals : place'[x] = IF x \in box THEN where ELSE place[x]
  BY <1>1 DEF Moved
<1>3. signals'[p] = <<>> /\ \A q \in PeerIDs : q # p => signals'[q] = signals[q]
  BY DEF Emptied, TypeOK, SessionsOK
<1>4. box \subseteq Signals /\ \A x \in box : To[x] = p /\ place[x] = "stored"
  BY ElementsKnown DEF PlaceInv, BoxesInv
<1>5. Elements(signals'[p]) = {} /\ Distinct(signals'[p])
  BY <1>3, EmptyElements
<1> HIDE DEF box
<1>6. BoxesInv'
  <2> SUFFICES ASSUME NEW q \in PeerIDs
               PROVE  /\ Distinct(signals'[q])
                      /\ \A y \in Elements(signals'[q]) : To[y] = q /\ place'[y] = "stored"
    BY DEF BoxesInv
  <2>1. CASE q = p
    BY <1>5, <2>1
  <2>2. CASE q # p
    BY <1>2, <1>3, <1>4, <2>2, ElementsKnown DEF PlaceInv, BoxesInv
  <2> QED
    BY <2>1, <2>2
<1>7. RelayInv'
  BY <1>2, <1>4 DEF PlaceInv, RelayInv
<1>8. \A x \in Signals : place[x] = "stored" /\ x \notin box
                            => x \in Elements(signals'[To[x]])
  BY <1>3, SignalingAssumption DEF PlaceInv, FoundInv, box
<1>9. CASE /\ where \in {"delivered", "dropped"}
           /\ pending' = pending
           /\ received' = [x \in Signals |->
                              IF x \in InMailbox(p) /\ where = "delivered"
                              THEN received[x] + 1 ELSE received[x]]
  <2>1. HeldInv'
    BY <1>2, <1>4, <1>9, ElementsKnown DEF PlaceInv, HeldInv
  <2>2. \A x \in Signals :
            received'[x] = IF x \in box /\ where = "delivered" THEN received[x] + 1
                           ELSE received[x]
    BY <1>1, <1>9
  <2>3. FoundInv'
    <3> SUFFICES ASSUME NEW y \in Signals
                 PROVE  /\ place'[y] = "stored" => y \in Elements(signals'[To[y]])
                        /\ place'[y] = "pending" =>
                               \E s \in Sessions : y \in Elements(pending'[s])
                        /\ place'[y] = "relaying" => \E s \in Sessions : Relays(s, y)'
                        /\ received'[y] = IF place'[y] = "delivered" THEN 1 ELSE 0
      BY DEF FoundInv
    <3>1. CASE y \in box
      BY <1>2, <1>4, <1>9, <2>2, <3>1 DEF PlaceInv, FoundInv
    <3>2. CASE y \notin box
      BY <1>2, <1>8, <1>9, <2>2, <3>2 DEF PlaceInv, FoundInv
    <3> QED
      BY <3>1, <3>2
  <2> QED
    BY <1>6, <1>7, <2>1, <2>3 DEF PlaceInv
<1>10. CASE /\ where = "pending"
            /\ \E s \in Sessions : /\ pending[s] = <<>>
                                   /\ pending' = [pending EXCEPT ![s] = signals[p]]
            /\ received' = received
  <2>1. PICK s \in Sessions : /\ pending[s] = <<>>
                              /\ pending' = [pending EXCEPT ![s] = signals[p]]
    BY <1>10
  <2>2. /\ pending'[s] = signals[p]
        /\ \A t \in Sessions : t # s => pending'[t] = pending[t]
    BY <2>1 DEF TypeOK, SessionsOK
  <2>3. Elements(pending'[s]) = box /\ Elements(pending[s]) = {}
    BY <2>1, <2>2, EmptyElements DEF box
  <2>4. \A t \in Sessions, x \in box : x \notin Elements(pending[t])
    BY <1>4 DEF PlaceInv, HeldInv
  <2>5. HeldInv'
    <3> SUFFICES ASSUME NEW t \in Sessions
                 PROVE  /\ Distinct(pending'[t])
                        /\ \A x \in Elements(pending'[t]) :
                               /\ place'[x] = "pending"
                               /\ \A u \in Sessions : x \in Elements(pending'[u]) => u = t
      BY DEF HeldInv
    <3>1. CASE t = s
      BY <1>2, <1>4, <1>10, <2>2, <2>3, <2>4, <3>1 DEF PlaceInv, BoxesInv
    <3>2. CASE t # s
      BY <1>2, <2>2, <2>3, <2>4, <3>2, ElementsKnown DEF PlaceInv, HeldInv
    <3> QED
      BY <3>1, <3>2
  <2>6. FoundInv'
    <3> SUFFICES ASSUME NEW y \in Signals
                 PROVE  /\ place'[y] = "stored" => y \in Elements(signals'[To[y]])
                        /\ place'[y] = "pending" =>
                               \E t \in Sessions : y \in Elements(pending'[t])
                        /\ place'[y] = "relaying" => \E t \in Sessions : Relays(t, y)'
                        /\ received'[y] = IF place'[y] = "delivered" THEN 1 ELSE 0
      BY DEF FoundInv
    <3>1. CASE y \in box
      BY <1>2, <1>4, <1>10, <2>3, <3>1 DEF PlaceInv, FoundInv
    <3>2. CASE y \notin box
      <4>1. \A t \in Sessions : y \in Elements(pending[t]) => y \in Elements(pending'[t])
        BY <2>2, <2>3
      <4> QED
        BY <1>2, <1>8, <1>10, <3>2, <4>1 DEF PlaceInv, FoundInv
    <3> QED
      BY <3>1, <3>2
  <2> QED
    BY <1>6, <1>7, <2>5, <2>6 DEF PlaceInv
<1> QED
  BY <1>9, <1>10

\* The signals xs, which session s carried, leave it: each is with the client
\* or lost.
LEMMA LeaveKeepsPlaces ==
    ASSUME TypeOK, PlaceInv, NEW s \in Sessions, NEW xs \in SUBSET Signals,
           \A x \in xs : x \in Elements(pending[s]) \/ Relays(s, x),
           \A x \in Signals :
               IF x \in xs
               THEN \/ place'[x] = "delivered" /\ received'[x] = received[x] + 1
                    \/ place'[x] = "dropped" /\ received'[x] = received[x]
               ELSE place'[x] = place[x] /\ received'[x] = received[x],
           Elements(pending'[s]) = Elements(pending[s]) \ xs,
           Distinct(pending'[s]),
           \A t \in Sessions : t # s => pending'[t] = pending[t],
           \A t \in Sessions, x \in Signals :
               Relays(t, x)' <=> Relays(t, x) /\ x \notin xs,
           UNCHANGED signals
    PROVE  PlaceInv'
<1>1. \A x \in xs : place[x] \in {"pending", "relaying"}
  BY DEF PlaceInv, HeldInv, RelayInv
<1>2. \A x \in xs, t \in Sessions : t # s => x \notin Elements(pending[t])
  <2> SUFFICES ASSUME NEW x \in xs, NEW t \in Sessions, t # s,
                      x \in Elements(pending[t])
               PROVE  FALSE
    OBVIOUS
  <2>1. place[x] = "pending" /\ x \notin Elements(pending[s])
    BY DEF PlaceInv, HeldInv
  <2> QED
    BY <2>1 DEF PlaceInv, RelayInv
<1>3. \A t \in Sessions : Elements(pending'[t]) = Elements(pending[t]) \ xs
  BY <1>2
<1>4. BoxesInv'
  BY <1>1, ElementsKnown DEF PlaceInv, BoxesInv
<1>5. HeldInv'
  <2> SUFFICES ASSUME NEW t \in Sessions
               PROVE  /\ Distinct(pending'[t])
                      /\ \A x \in Elements(pending'[t]) :
                             /\ place'[x] = "pending"
                             /\ \A u \in Sessions : x \in Elements(pending'[u]) => u = t
    BY DEF HeldInv
  <2>1. Distinct(pending'[t])
    BY DEF PlaceInv, HeldInv
  <2> QED
    BY <1>3, <2>1, ElementsKnown DEF PlaceInv, HeldInv
<1>6. RelayInv'
  BY DEF PlaceInv, RelayInv
<1>7. FoundInv'
  <2> SUFFICES ASSUME NEW y \in Signals
               PROVE  /\ place'[y] = "stored" => y \in Elements(signals[To[y]])
                      /\ place'[y] = "pending" =>
                             \E t \in Sessions : y \in Elements(pending'[t])
                      /\ place'[y] = "relaying" => \E t \in Sessions : Relays(t, y)'
                      /\ received'[y] = IF place'[y] = "delivered" THEN 1 ELSE 0
    BY DEF FoundInv
  <2>1. CASE y \in xs
    BY <1>1, <2>1 DEF PlaceInv, FoundInv
  <2>2. CASE y \notin xs
    BY <1>3, <2>2 DEF PlaceInv, FoundInv
  <2> QED
    BY <2>1, <2>2
<1> QED
  BY <1>4, <1>5, <1>6, <1>7 DEF PlaceInv

\* What a write does to the signal it carries.
LEMMA WrittenMoves ==
    ASSUME TypeOK, NEW x \in Signals, NEW c, Written(x, c)
    PROVE  \A y \in Signals :
               IF y \in {x}
               THEN \/ place'[y] = "delivered" /\ received'[y] = received[y] + 1
                    \/ place'[y] = "dropped" /\ received'[y] = received[y]
               ELSE place'[y] = place[y] /\ received'[y] = received[y]
<1>t. /\ place \in [Signals -> {"unsent", "relaying", "stored", "pending",
                                "delivered", "dropped"}]
      /\ received \in [Signals -> Nat]
  BY DEF TypeOK, SessionsOK
<1>1. CASE link[c] = "up"
  <2>1. /\ place' = [place EXCEPT ![x] = "delivered"]
        /\ received' = [received EXCEPT ![x] = received[x] + 1]
    BY <1>1 DEF Written
  <2> QED
    BY <1>t, <2>1
<1>2. CASE link[c] # "up"
  <2>1. place' = [place EXCEPT ![x] = "dropped"] /\ received' = received
    BY <1>2 DEF Written
  <2> QED
    BY <1>t, <2>1
<1> QED
  BY <1>1, <1>2

LEMMA FlushOneKeepsPlaces ==
    ASSUME TypeOK, PlaceInv, NEW s \in Sessions, FlushOne(s)
    PROVE  PlaceInv'
<1> DEFINE x == Head(pending[s])
<1>1. pending[s] \in Seq(Signals) /\ pending[s] # <<>> /\ Distinct(pending[s])
  BY DEF TypeOK, SessionsOK, FlushOne, PlaceInv, HeldInv
<1>2. /\ x \in Elements(pending[s]) /\ x \in Signals
      /\ Elements(Tail(pending[s])) = Elements(pending[s]) \ {x}
      /\ Distinct(Tail(pending[s]))
  BY <1>1, TailElements, ElementsType
<1>3. /\ pending'[s] = Tail(pending[s])
      /\ \A t \in Sessions : t # s => pending'[t] = pending[t]
      /\ UNCHANGED <<sig, signals>>
  BY DEF TypeOK, SessionsOK, FlushOne
<1>4. /\ pc[s] = "flush" /\ pc'[s] \in {"loop", "flush"}
      /\ \A t \in Sessions : t # s => pc'[t] = pc[t]
  BY DEF TypeOK, SessionsOK, FlushOne, Goto
<1>5. Written(x, s)
  BY DEF FlushOne
<1> HIDE DEF x
<1>6. \A t \in Sessions, y \in Signals : Relays(t, y)' <=> Relays(t, y)
  BY <1>3, <1>4 DEF Relays
<1>7. \A t \in Sessions : ~Relays(t, x)
  <2>1. place[x] = "pending"
    BY <1>2 DEF PlaceInv, HeldInv
  <2> QED
    BY <1>2, <2>1 DEF PlaceInv, RelayInv
<1>8. \A t \in Sessions, y \in Signals :
          Relays(t, y)' <=> Relays(t, y) /\ y \notin {x}
  BY <1>6, <1>7
<1>9. {x} \in SUBSET Signals /\ \A y \in {x} : y \in Elements(pending[s]) \/ Relays(s, y)
  BY <1>2
<1>10. \A y \in Signals :
          IF y \in {x}
          THEN \/ place'[y] = "delivered" /\ received'[y] = received[y] + 1
               \/ place'[y] = "dropped" /\ received'[y] = received[y]
          ELSE place'[y] = place[y] /\ received'[y] = received[y]
  BY <1>2, <1>5, WrittenMoves
<1>11. Elements(pending'[s]) = Elements(pending[s]) \ {x} /\ Distinct(pending'[s])
  BY <1>2, <1>3
<1> QED
  BY <1>3, <1>8, <1>9, <1>10, <1>11, LeaveKeepsPlaces

LEMMA SendKeepsPlaces ==
    ASSUME TypeOK, PlaceInv, NEW s \in Sessions, SendNotification(s)
    PROVE  PlaceInv'
<1> DEFINE x == sig[s]
<1>1. x \in Signals /\ pending[s] = <<>> /\ Relays(s, x)
  BY DEF TypeOK, SessionsOK, SendNotification, Relays
<1>2. /\ pc'[s] = "answer"
      /\ \A t \in Sessions : t # s => pc'[t] = pc[t] /\ sig'[t] = sig[t]
      /\ UNCHANGED <<pending, signals>>
  BY DEF TypeOK, SessionsOK, SendNotification, Goto
<1>3. Written(x, conn[s])
  BY DEF SendNotification
<1>4. \A t \in Sessions, y \in Signals :
          Relays(t, y)' <=> Relays(t, y) /\ y \notin {x}
  <2>1. \A t \in Sessions : Relays(t, x) => t = s
    BY <1>1 DEF PlaceInv, RelayInv
  <2>2. \A y \in Signals : Relays(s, y) <=> y = x
    BY <1>1 DEF Relays
  <2>3. \A y \in Signals : ~Relays(s, y)'
    BY <1>2 DEF Relays
  <2>4. \A t \in Sessions, y \in Signals : t # s => (Relays(t, y)' <=> Relays(t, y))
    BY <1>2 DEF Relays
  <2> HIDE DEF x
  <2> QED
    BY <2>1, <2>2, <2>3, <2>4
<1> HIDE DEF x
<1>5. {x} \in SUBSET Signals /\ \A y \in {x} : y \in Elements(pending[s]) \/ Relays(s, y)
  BY <1>1
<1>6. \A y \in Signals :
          IF y \in {x}
          THEN \/ place'[y] = "delivered" /\ received'[y] = received[y] + 1
               \/ place'[y] = "dropped" /\ received'[y] = received[y]
          ELSE place'[y] = place[y] /\ received'[y] = received[y]
  BY <1>1, <1>3, WrittenMoves
<1>7. Elements(pending'[s]) = Elements(pending[s]) \ {x} /\ Distinct(pending'[s])
  BY <1>1, <1>2, EmptyElements
<1> QED
  BY <1>2, <1>4, <1>5, <1>6, <1>7, LeaveKeepsPlaces

LEMMA PanicKeepsPlaces ==
    ASSUME TypeOK, PlaceInv, NEW s \in Sessions, WritePanic(s)
    PROVE  PlaceInv'
<1> DEFINE xs == Carried(s)
<1>1. /\ pc[s] \in {"flush", "send", "result"}
      /\ pc'[s] \in {"gone", "cleanup"}
      /\ \A t \in Sessions : t # s => /\ pc'[t] = pc[t]
                                      /\ sig'[t] = sig[t]
                                      /\ pending'[t] = pending[t]
      /\ pending'[s] = <<>>
      /\ UNCHANGED signals
  BY DEF TypeOK, SessionsOK, WritePanic, Writing, Goto
<1>2. Outgoing(s) \subseteq Carried(s) /\ Carried(s) = Outgoing(s) \cup Elements(pending[s])
  BY DEF Carried, Elements
<1>3. PICK through \in SUBSET Outgoing(s) :
          /\ place' = [x \in Signals |->
                          IF x \in through THEN "delivered"
                          ELSE IF x \in Carried(s) THEN "dropped" ELSE place[x]]
          /\ received' = [x \in Signals |->
                             IF x \in through THEN received[x] + 1 ELSE received[x]]
  BY DEF WritePanic
<1>4. /\ \A x \in xs : x \in Elements(pending[s]) \/ Relays(s, x)
      /\ \A x \in Signals : Relays(s, x) => x \in xs
      /\ xs \subseteq Signals
  <2>1. CASE pc[s] = "flush"
    <3>1. pending[s] \in Seq(Signals) /\ pending[s] # <<>> /\ Distinct(pending[s])
      BY <2>1 DEF TypeOK, SessionsOK, PlaceInv, HeldInv
    <3>2. Outgoing(s) = {Head(pending[s])} /\ Head(pending[s]) \in Elements(pending[s])
      BY <2>1, <3>1, TailElements DEF Outgoing
    <3>3. \A x \in Signals : ~Relays(s, x)
      BY <2>1 DEF Relays
    <3> QED
      BY <1>2, <3>2, <3>3, ElementsKnown
  <2>2. CASE pc[s] = "send"
    <3>1. Outgoing(s) = {sig[s]} /\ sig[s] \in Signals /\ Relays(s, sig[s])
      BY <2>2 DEF Outgoing, Relays, TypeOK, SessionsOK
    <3> QED
      BY <1>2, <3>1, ElementsKnown DEF Relays
  <2>3. CASE pc[s] = "result"
    <3>1. Outgoing(s) = {}
      BY <2>3 DEF Outgoing
    <3> QED
      BY <1>2, <2>3, <3>1, ElementsKnown DEF Relays
  <2> QED
    BY <1>1, <2>1, <2>2, <2>3
<1>5. \A x \in Signals :
          IF x \in xs
          THEN \/ place'[x] = "delivered" /\ received'[x] = received[x] + 1
               \/ place'[x] = "dropped" /\ received'[x] = received[x]
          ELSE place'[x] = place[x] /\ received'[x] = received[x]
  BY <1>2, <1>3
<1>6. Elements(pending'[s]) = Elements(pending[s]) \ xs /\ Distinct(pending'[s])
  BY <1>1, <1>2, EmptyElements
<1> HIDE DEF xs
<1>7. \A t \in Sessions, x \in Signals :
          Relays(t, x)' <=> Relays(t, x) /\ x \notin xs
  <2>1. \A x \in Signals : ~Relays(s, x)'
    BY <1>1 DEF Relays
  <2>2. \A t \in Sessions, x \in Signals : t # s => (Relays(t, x)' <=> Relays(t, x))
    BY <1>1 DEF Relays
  <2>3. ASSUME NEW t \in Sessions, NEW x \in xs, t # s PROVE ~Relays(t, x)
    <3>1. CASE Relays(s, x)
      BY <1>4, <2>3, <3>1 DEF PlaceInv, RelayInv
    <3>2. CASE x \in Elements(pending[s])
      <4>1. place[x] = "pending"
        BY <3>2 DEF PlaceInv, HeldInv
      <4> QED
        BY <1>4, <4>1 DEF PlaceInv, RelayInv
    <3> QED
      BY <1>4, <3>1, <3>2
  <2> QED
    BY <1>4, <2>1, <2>2, <2>3
<1> QED
  BY <1>1, <1>4, <1>5, <1>6, <1>7, LeaveKeepsPlaces

\* A request is taken on, or refused: a signal nobody had yet.
LEMMA AcceptKeepsPlaces ==
    ASSUME TypeOK, PlaceInv, NEW s \in Sessions, NEW x \in Signals, Accept(s, x)
    PROVE  PlaceInv'
<1>1. /\ pc[s] = "loop" /\ pc'[s] = "notify" /\ sig'[s] = x
      /\ \A t \in Sessions : t # s => pc'[t] = pc[t] /\ sig'[t] = sig[t]
      /\ UNCHANGED <<pending, signals, received>>
      /\ place[x] = "unsent" /\ place'[x] = "relaying"
      /\ \A y \in Signals : y # x => place'[y] = place[y]
  BY DEF TypeOK, SessionsOK, Accept, Goto
<1>2. /\ \A y \in Signals : ~Relays(s, y)
      /\ \A y \in Signals : Relays(s, y)' <=> y = x
      /\ \A t \in Sessions, y \in Signals : t # s => (Relays(t, y)' <=> Relays(t, y))
  BY <1>1 DEF Relays
<1>3. BoxesInv' /\ HeldInv'
  BY <1>1, ElementsKnown DEF PlaceInv, BoxesInv, HeldInv
<1>4. \A t \in Sessions : ~Relays(t, x)
  BY <1>1 DEF PlaceInv, RelayInv
<1>5. RelayInv'
  BY <1>1, <1>2, <1>4 DEF PlaceInv, RelayInv
<1>6. FoundInv'
  <2> SUFFICES ASSUME NEW y \in Signals
               PROVE  /\ place'[y] = "stored" => y \in Elements(signals[To[y]])
                      /\ place'[y] = "pending" =>
                             \E t \in Sessions : y \in Elements(pending[t])
                      /\ place'[y] = "relaying" => \E t \in Sessions : Relays(t, y)'
                      /\ received[y] = IF place'[y] = "delivered" THEN 1 ELSE 0
    BY <1>1 DEF FoundInv
  <2>1. CASE y = x
    BY <1>1, <1>2, <2>1 DEF PlaceInv, FoundInv
  <2>2. CASE y # x
    BY <1>1, <1>2, <2>2 DEF PlaceInv, FoundInv
  <2> QED
    BY <2>1, <2>2
<1> QED
  BY <1>3, <1>5, <1>6 DEF PlaceInv

LEMMA RejectKeepsPlaces ==
    ASSUME TypeOK, PlaceInv, NEW s \in Sessions, NEW x \in Signals, RejectRequest(s, x)
    PROVE  PlaceInv'
<1>1. /\ pc[s] = "loop" /\ pc'[s] = "answer"
      /\ \A t \in Sessions : t # s => pc'[t] = pc[t]
      /\ UNCHANGED <<sig, pending, signals, received>>
      /\ place[x] = "unsent" /\ place'[x] = "dropped"
      /\ \A y \in Signals : y # x => place'[y] = place[y]
  BY DEF TypeOK, SessionsOK, RejectRequest, Goto, session
<1>2. \A t \in Sessions, y \in Signals : Relays(t, y)' <=> Relays(t, y)
  BY <1>1 DEF Relays
<1>3. BoxesInv' /\ HeldInv'
  BY <1>1, ElementsKnown DEF PlaceInv, BoxesInv, HeldInv
<1>4. RelayInv'
  BY <1>1, <1>2 DEF PlaceInv, RelayInv
<1>5. FoundInv'
  BY <1>1, <1>2 DEF PlaceInv, FoundInv
<1> QED
  BY <1>3, <1>4, <1>5 DEF PlaceInv

\* The process dies: what was on its way is lost, what was received stays so.
LEMMA EndKeepsPlaces ==
    ASSUME TypeOK, PlaceInv, Ended
    PROVE  PlaceInv'
<1>1. /\ \A s \in Sessions : pending'[s] = <<>> /\ pc'[s] \in {"off", "gone"}
      /\ \A p \in PeerIDs : signals'[p] = <<>>
      /\ UNCHANGED received
  BY DEF Ended
<1>2. \A x \in Signals :
          place'[x] = IF place[x] \in {"relaying", "stored", "pending"} THEN "dropped"
                      ELSE place[x]
  BY DEF Ended, Moved
<1>3. BoxesInv' /\ HeldInv'
  BY <1>1, EmptyElements DEF BoxesInv, HeldInv
<1>4. \A s \in Sessions, x \in Signals : ~Relays(s, x)'
  BY <1>1 DEF Relays
<1>5. RelayInv'
  BY <1>4 DEF RelayInv
<1>6. FoundInv'
  BY <1>1, <1>2 DEF PlaceInv, FoundInv
<1> QED
  BY <1>3, <1>5, <1>6 DEF PlaceInv

\* A session that takes a step outside its relay, or stays on it.
LEMMA SameRelays ==
    ASSUME TypeOK, NEW s \in Sessions, NEW label, Goto(s, label),
           \A t \in Sessions : t # s => sig'[t] = sig[t],
           \/ /\ pc[s] \notin {"notify", "send", "store"}
              /\ label \notin {"notify", "send", "store"}
           \/ /\ pc[s] \in {"notify", "send", "store"}
              /\ label \in {"notify", "send", "store"}
              /\ sig'[s] = sig[s]
    PROVE  \A t \in Sessions, x \in Signals : Relays(t, x)' <=> Relays(t, x)
<1>1. pc'[s] = label /\ \A t \in Sessions : t # s => pc'[t] = pc[t]
  BY DEF Goto, TypeOK, SessionsOK
<1>2. \A x \in Signals : Relays(s, x)' <=> Relays(s, x)
  BY <1>1 DEF Relays
<1>3. \A t \in Sessions, x \in Signals : t # s => (Relays(t, x)' <=> Relays(t, x))
  BY <1>1 DEF Relays
<1> QED
  BY <1>2, <1>3

LEMMA ServeKeepsPlaces ==
    ASSUME TypeOK, PlaceInv, NEW s \in Sessions, Serve(s)
    PROVE  PlaceInv'
<1>1. CASE RegisterConn(s)
  BY <1>1, SameRelays, NoMoveKeepsPlaces DEF RegisterConn, session
<1>2. CASE PollSignals(s)
  <2>1. peer[s] \in PeerIDs /\ pending[s] = <<>>
    BY <1>2 DEF TypeOK, SessionsOK, PollSignals
  <2>2. PICK label \in {"loop", "flush"} : Goto(s, label)
    BY <1>2 DEF PollSignals
  <2>3. \A t \in Sessions, x \in Signals : Relays(t, x)' <=> Relays(t, x)
    BY <1>2, <2>2, SameRelays DEF PollSignals
  <2>4. /\ signals' = Emptied(peer[s])
        /\ place' = Moved(InMailbox(peer[s]), "pending")
        /\ pending' = [pending EXCEPT ![s] = signals[peer[s]]]
        /\ received' = received
    BY <1>2 DEF PollSignals
  <2> QED
    BY <2>1, <2>3, <2>4, PollKeepsPlaces
<1>3. CASE FlushOne(s)
  BY <1>3, FlushOneKeepsPlaces
<1>4. CASE Lookup(s)
  <2>1. PICK label \in {"store", "send"} : Goto(s, label)
    BY <1>4 DEF Lookup
  <2>2. \A t \in Sessions, x \in Signals : Relays(t, x)' <=> Relays(t, x)
    BY <1>4, <2>1, SameRelays DEF Lookup
  <2> QED
    BY <1>4, <2>2, NoMoveKeepsPlaces DEF Lookup
<1>5. CASE SendNotification(s)
  BY <1>5, SendKeepsPlaces
<1>6. CASE SendFailed(s)
  BY <1>6, SameRelays, NoMoveKeepsPlaces DEF SendFailed
<1>7. CASE StoreSignal(s)
  <2> DEFINE x == sig[s]
  <2>1. x \in Signals /\ Relays(s, x)
    BY <1>7 DEF TypeOK, SessionsOK, StoreSignal, Relays
  <2>2. /\ pc'[s] = "answer"
        /\ \A t \in Sessions : t # s => pc'[t] = pc[t] /\ sig'[t] = sig[t]
        /\ UNCHANGED <<pending, received>>
        /\ SetSignal(x)
    BY <1>7 DEF TypeOK, SessionsOK, StoreSignal, Goto
  <2>3. \A t \in Sessions, y \in Signals : t # s => (Relays(t, y)' <=> Relays(t, y))
    BY <2>2 DEF Relays
  <2>4. \A y \in Signals : ~Relays(s, y)' /\ (Relays(s, y) <=> y = x)
    BY <2>1, <2>2 DEF Relays
  <2> HIDE DEF x
  <2>5. place[x] = "relaying" /\ \A t \in Sessions : Relays(t, x) => t = s
    BY <2>1 DEF PlaceInv, RelayInv
  <2>6. \A t \in Sessions, y \in Signals : Relays(t, y)' <=> Relays(t, y) /\ y # x
    BY <2>3, <2>4, <2>5
  <2> QED
    BY <2>1, <2>2, <2>5, <2>6, SetSignalKeepsPlaces
<1>8. CASE Answer(s)
  <2>1. PICK label \in {"loop", "result"} : Goto(s, label)
    BY <1>8 DEF Answer
  <2>2. \A t \in Sessions : t # s => sig'[t] = sig[t]
    BY <1>8 DEF Answer, TypeOK, SessionsOK
  <2>3. \A t \in Sessions, x \in Signals : Relays(t, x)' <=> Relays(t, x)
    BY <1>8, <2>1, <2>2, SameRelays DEF Answer
  <2> QED
    BY <1>8, <2>3, NoMoveKeepsPlaces DEF Answer
<1>9. CASE WriteResult(s)
  BY <1>9, SameRelays, NoMoveKeepsPlaces DEF WriteResult
<1>10. CASE ReadFailed(s)
  BY <1>10, SameRelays, NoMoveKeepsPlaces DEF ReadFailed, session
<1>11. CASE Cleanup(s)
  BY <1>11, SameRelays, NoMoveKeepsPlaces DEF Cleanup
<1>12. CASE WritePanic(s)
  BY <1>12, PanicKeepsPlaces
<1> QED
  BY <1>1, <1>2, <1>3, <1>4, <1>5, <1>6, <1>7, <1>8, <1>9, <1>10, <1>11, <1>12
  DEF Serve

LEMMA StepKeepsPlaces ==
    ASSUME TypeOK, PlaceInv, [Next]_vars
    PROVE  PlaceInv'
<1>1. CASE UNCHANGED <<pc, sig, pending, signals, place, received>>
  <2>1. \A s \in Sessions, x \in Signals : Relays(s, x)' <=> Relays(s, x)
    BY <1>1 DEF Relays
  <2> QED
    BY <1>1, <2>1, NoMoveKeepsPlaces
<1>2. ASSUME NEW s \in Sessions, NEW p \in PeerIDs, Upgrade(s, p) PROVE PlaceInv'
  BY <1>2, SameRelays, NoMoveKeepsPlaces DEF Upgrade
<1>3. ASSUME NEW s \in Sessions, NEW x \in Signals,
             \/ handleSignalRelay(s, x) \/ handleConnectToPeer(s, x)
             \/ RejectRequest(s, x)
      PROVE  PlaceInv'
  BY <1>3, AcceptKeepsPlaces, RejectKeepsPlaces
     DEF handleSignalRelay, handleConnectToPeer
<1>4. ASSUME NEW x \in Signals, RestSetSignal(x) PROVE PlaceInv'
  <2>1. /\ place[x] = "unsent" /\ SetSignal(x)
        /\ UNCHANGED <<pc, sig, pending, received>>
    BY <1>4 DEF RestSetSignal, session
  <2>2. \A s \in Sessions, y \in Signals : Relays(s, y)' <=> Relays(s, y)
    BY <2>1 DEF Relays
  <2>3. \A s \in Sessions : ~Relays(s, x)
    BY <2>1 DEF PlaceInv, RelayInv
  <2>4. \A s \in Sessions, y \in Signals : Relays(s, y)' <=> Relays(s, y) /\ y # x
    BY <2>2, <2>3
  <2> QED
    BY <2>1, <2>4, SetSignalKeepsPlaces
<1>5. ASSUME NEW p \in PeerIDs, RestPollSignals(p) \/ RestPollLost(p) PROVE PlaceInv'
  <2>1. \A s \in Sessions, x \in Signals : Relays(s, x)' <=> Relays(s, x)
    BY <1>5 DEF RestPollSignals, RestPollLost, session, Relays
  <2>2. CASE RestPollSignals(p)
    BY <2>1, <2>2, PollKeepsPlaces DEF RestPollSignals, session
  <2>3. CASE RestPollLost(p)
    <3>1. /\ signals' = Emptied(p)
          /\ place' = Moved(InMailbox(p), "dropped")
          /\ UNCHANGED <<pending, received>>
      BY <2>3 DEF RestPollLost, session
    <3>2. received' = [x \in Signals |->
                          IF x \in InMailbox(p) /\ "dropped" = "delivered"
                          THEN received[x] + 1 ELSE received[x]]
      BY <3>1 DEF TypeOK, SessionsOK
    <3> QED
      BY <2>1, <3>1, <3>2, PollKeepsPlaces
  <2> QED
    BY <1>5, <2>2, <2>3
<1>6. ASSUME NEW p \in PeerIDs, Upsert(p) \/ Delete(p) PROVE PlaceInv'
  BY <1>1, <1>6 DEF Upsert, Delete, session
<1>7. ASSUME NEW s \in Sessions, Serve(s) PROVE PlaceInv'
  BY <1>7, ServeKeepsPlaces
<1>8. ASSUME NEW s \in Sessions, Disconnect(s) PROVE PlaceInv'
  BY <1>1, <1>8 DEF Disconnect
<1>9. CASE CloseAll \/ Sweep
  BY <1>1, <1>9 DEF CloseAll, Sweep, CloseAllNext, CloseAllClose, CloseAllDelete,
                    CloseAllReturn, session
<1>10. CASE Fatal \/ Exit
  BY <1>10, EndKeepsPlaces DEF Fatal, Exit
<1>11. CASE UNCHANGED vars
  BY <1>1, <1>11 DEF vars
<1> QED
  BY <1>2, <1>3, <1>4, <1>5, <1>6, <1>7, <1>8, <1>9, <1>10, <1>11 DEF Next

LEMMA PlacesCorrect == Spec => []PlaceInv
<1>1. Init => PlaceInv
  <2> SUFFICES ASSUME Init PROVE PlaceInv
    OBVIOUS
  <2>1. /\ \A p \in PeerIDs : signals[p] = <<>>
        /\ \A s \in Sessions : pending[s] = <<>> /\ pc[s] = "off"
        /\ \A x \in Signals : place[x] = "unsent" /\ received[x] = 0
    BY DEF Init
  <2>2. BoxesInv /\ HeldInv
    BY <2>1, EmptyElements DEF BoxesInv, HeldInv
  <2>3. RelayInv /\ FoundInv
    BY <2>1 DEF RelayInv, FoundInv, Relays
  <2> QED
    BY <2>2, <2>3 DEF PlaceInv
<1>2. TypeOK /\ PlaceInv /\ [Next]_vars => PlaceInv'
  BY StepKeepsPlaces
<1> QED
  BY <1>1, <1>2, TypeCorrect, PTL DEF Spec

\* A set is counted: its one member, or none.
LEMMA AtMostOne ==
    ASSUME NEW S, NEW here \in BOOLEAN,
           here => S # {}, ~here => S = {},
           \A s, t \in S : s = t
    PROVE  Cardinality(S) = IF here THEN 1 ELSE 0
<1>1. CASE here
  <2>1. PICK s \in S : S = {s}
    BY <1>1
  <2> QED
    BY <1>1, <2>1, FS_Singleton
<1>2. CASE ~here
  BY <1>2, FS_EmptySet
<1> QED
  BY <1>1, <1>2

\* A signal is in one place until it is received, and then in none, for any
\* number of peers, sessions and signals: relays, mailboxes, polled batches and
\* receivers together count it once, or not at all when it was refused or lost.
THEOREM SignalsConserved == Spec => []SignalConserved
<1>1. ASSUME TypeOK, PlaceInv PROVE SignalConserved
  <2> SUFFICES ASSUME NEW x \in Signals
               PROVE  /\ \A s \in Holding(x) : Occurrences(pending[s], x) = 1
                      /\ Cardinality(Relaying(x)) + Occurrences(signals[To[x]], x)
                           + Cardinality(Holding(x)) + received[x]
                         = IF place[x] \in {"unsent", "dropped"} THEN 0 ELSE 1
    BY DEF SignalConserved
  <2>1. \A s \in Sessions :
            Occurrences(pending[s], x) = IF x \in Elements(pending[s]) THEN 1 ELSE 0
    BY <1>1, DistinctOccurs DEF TypeOK, SessionsOK, PlaceInv, HeldInv
  <2>2. Holding(x) = {s \in Sessions : x \in Elements(pending[s])}
    BY <2>1 DEF Holding
  <2>3. /\ \A s \in Holding(x) : place[x] = "pending"
        /\ \A s, t \in Holding(x) : s = t
        /\ place[x] = "pending" => Holding(x) # {}
    BY <1>1, <2>2 DEF PlaceInv, HeldInv, FoundInv
  <2>4. Cardinality(Holding(x)) = IF place[x] = "pending" THEN 1 ELSE 0
    <3>1. place[x] # "pending" => Holding(x) = {}
      BY <2>3
    <3> QED
      BY <2>3, <3>1, AtMostOne
  <2>5. Relaying(x) = {s \in Sessions : Relays(s, x)}
    BY DEF Relaying, Relays
  <2>6. /\ \A s \in Relaying(x) : place[x] = "relaying"
        /\ \A s, t \in Relaying(x) : s = t
        /\ place[x] = "relaying" => Relaying(x) # {}
    BY <1>1, <2>5 DEF PlaceInv, RelayInv, FoundInv
  <2>7. Cardinality(Relaying(x)) = IF place[x] = "relaying" THEN 1 ELSE 0
    <3>1. place[x] # "relaying" => Relaying(x) = {}
      BY <2>6
    <3> QED
      BY <2>6, <3>1, AtMostOne
  <2>8. Occurrences(signals[To[x]], x) = IF place[x] = "stored" THEN 1 ELSE 0
    <3>1. To[x] \in PeerIDs
      BY SignalingAssumption
    <3>2. /\ signals[To[x]] \in Seq(Signals) /\ Distinct(signals[To[x]])
          /\ x \in Elements(signals[To[x]]) <=> place[x] = "stored"
      BY <1>1, <3>1 DEF TypeOK, SessionsOK, PlaceInv, BoxesInv, FoundInv
    <3> QED
      BY <3>2, DistinctOccurs
  <2>9. received[x] = IF place[x] = "delivered" THEN 1 ELSE 0
    BY <1>1 DEF PlaceInv, FoundInv
  <2>10. place[x] \in {"unsent", "relaying", "stored", "pending",
                       "delivered", "dropped"}
    BY <1>1 DEF TypeOK, SessionsOK
  <2>11. \A s \in Holding(x) : Occurrences(pending[s], x) = 1
    BY <2>1, <2>2
  <2> QED
    BY <2>4, <2>7, <2>8, <2>9, <2>10, <2>11
<1> QED
  BY <1>1, TypeCorrect, PlacesCorrect, PTL
=============================================================================
