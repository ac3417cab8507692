--------------------------- MODULE PeerTypesProofs ---------------------------
(***************************************************************************)
(* Facts about the data every store shares, for the proofs about them.     *)
(***************************************************************************)
EXTENDS PeerTypes, SequenceTheorems, TLAPS

\* A request's ttl becomes a positive number (the "ttl <= 0" branches).
LEMMA OrDefaultType ==
    ASSUME NEW ttl \in Int, NEW default \in Nat \ {0}
    PROVE  OrDefault(ttl, default) \in Nat \ {0}
BY DEF OrDefault

\* Upsert's record for a new id is a Peer.
LEMMA NewPeerType ==
    ASSUME NEW req \in RegisterRequest, NEW at \in Nat
    PROVE  NewPeer(req, at) \in Peer
<1>1. OrDefault(req.TTLSeconds, DefaultTTL) \in Nat \ {0}
  BY OrDefaultType, ScalarsAssumption DEF RegisterRequest
<1> QED
  BY <1>1, ScalarsAssumption DEF NewPeer, Peer, RegisterRequest, InitialQualityScore

\* A verdict changes the score and the counters and nothing else.
LEMMA ScoredType ==
    ASSUME NEW peer \in Peer, NEW valid \in BOOLEAN
    PROVE  /\ Scored(peer, valid) \in Peer
           /\ Scored(peer, valid).Login = peer.Login
           /\ Scored(peer, valid).SignatureKey = peer.SignatureKey
           /\ Scored(peer, valid).EncryptionKey = peer.EncryptionKey
           /\ Scored(peer, valid).Fake = peer.Fake
           /\ Scored(peer, valid).QualityScore =
                  peer.QualityScore + (IF valid THEN 1 ELSE -1)
           /\ Scored(peer, valid).ValidReports =
                  peer.ValidReports + (IF valid THEN 1 ELSE 0)
           /\ Scored(peer, valid).InvalidReports =
                  peer.InvalidReports + (IF valid THEN 0 ELSE 1)
<1>1. CASE valid
  <2>1. PICK q \in Int, v \in Nat :
            q = peer.QualityScore + 1 /\ v = peer.ValidReports + 1
    BY DEF Peer
  <2>2. Scored(peer, valid) = [peer EXCEPT !.QualityScore = q, !.ValidReports = v]
    BY <1>1, <2>1 DEF Scored
  <2>3. Scored(peer, valid) \in Peer
    BY <2>2 DEF Peer
  <2>4. /\ Scored(peer, valid).QualityScore = q
        /\ Scored(peer, valid).ValidReports = v
        /\ Scored(peer, valid).InvalidReports = peer.InvalidReports
        /\ peer.InvalidReports \in Nat
    BY <2>2 DEF Peer
  <2>5. /\ Scored(peer, valid).Login = peer.Login
        /\ Scored(peer, valid).SignatureKey = peer.SignatureKey
        /\ Scored(peer, valid).EncryptionKey = peer.EncryptionKey
        /\ Scored(peer, valid).Fake = peer.Fake
    BY <2>2 DEF Peer
  <2>6. /\ (IF valid THEN 1 ELSE -1) = 1
        /\ (IF valid THEN 1 ELSE 0) = 1
        /\ (IF valid THEN 0 ELSE 1) = 0
    BY <1>1
  <2> QED
    BY <2>1, <2>3, <2>4, <2>5, <2>6
<1>2. CASE ~valid
  <2>1. PICK q \in Int, v \in Nat :
            q = peer.QualityScore - 1 /\ v = peer.InvalidReports + 1
    BY DEF Peer
  <2>2. Scored(peer, valid) = [peer EXCEPT !.QualityScore = q, !.InvalidReports = v]
    BY <1>2, <2>1 DEF Scored
  <2>3. Scored(peer, valid) \in Peer
    BY <2>2 DEF Peer
  <2>4. /\ Scored(peer, valid).QualityScore = q
        /\ Scored(peer, valid).InvalidReports = v
        /\ Scored(peer, valid).ValidReports = peer.ValidReports
        /\ peer.ValidReports \in Nat
        /\ peer.QualityScore \in Int
    BY <2>2 DEF Peer
  <2>5. /\ Scored(peer, valid).Login = peer.Login
        /\ Scored(peer, valid).SignatureKey = peer.SignatureKey
        /\ Scored(peer, valid).EncryptionKey = peer.EncryptionKey
        /\ Scored(peer, valid).Fake = peer.Fake
    BY <2>2 DEF Peer
  <2> QED
    BY <1>2, <2>1, <2>3, <2>4, <2>5
<1> QED
  BY <1>1, <1>2

\* The key of a peer is a key of the index.
LEMMA KeyType ==
    ASSUME NEW peer \in Peer
    PROVE  Key(peer) \in Keys
BY DEF Key, Keys, Peer

\* Where a login and a key are each one part, the joined string can be split
\* again in one way only, the way getPeerByKey splits it.
LEMMA JoinedKey ==
    ASSUME NEW peer \in Peer, Len(Key(peer)) = 2
    PROVE  /\ peer.Login = <<Head(Key(peer))>>
           /\ peer.SignatureKey = Tail(Key(peer))
<1> DEFINE l == peer.Login
           s == peer.SignatureKey
           k == l \o s
<1>1. l \in Seq(STRING) /\ s \in Seq(STRING) /\ l # <<>> /\ s # <<>>
  BY StringsAssumption DEF Peer
<1>2. Key(peer) = k
  BY DEF Key, KeyString
<1> HIDE DEF l, s
<1>3. Len(l) \in Nat \ {0} /\ Len(s) \in Nat \ {0}
  BY <1>1, EmptySeq
<1>len. k \in Seq(STRING) /\ Len(k) = Len(l) + Len(s)
  BY <1>1, ConcatProperties
<1>4. Len(l) = 1 /\ Len(s) = 1 /\ Len(k) = 2
  <2>1. Len(k) = 2
    BY <1>2 DEF k
  <2>2. \A a, b \in Nat \ {0} : a + b = 2 => a = 1 /\ b = 1
    OBVIOUS
  <2> HIDE DEF k
  <2> QED
    BY <1>3, <1>len, <2>1, <2>2
<1>5. k[1] = l[1] /\ k[2] = s[1]
  BY <1>1, <1>4, ConcatProperties
<1>6. Head(k) = l[1] /\ Tail(k) \in Seq(STRING) /\ Len(Tail(k)) = 1 /\ Tail(k)[1] = s[1]
  <2>1. k # <<>>
    BY <1>4, EmptySeq
  <2> QED
    BY <1>len, <1>4, <1>5, <2>1, HeadTailProperties
<1>7. l = <<l[1]>> /\ Tail(k) = s
  BY <1>1, <1>4, <1>6, SeqEqual
<1> QED
  BY <1>2, <1>6, <1>7 DEF l, s
=============================================================================
