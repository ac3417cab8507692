------------------------ MODULE MemoryDirectoryProofs ------------------------
(***************************************************************************)
(* The in-memory store implements PeerDirectory, for every value of its    *)
(* constants.  PeersChange says what a step may do to the peer table; each *)
(* of its cases is a step of the directory or leaves it alone.  And the    *)
(* ranking of its peers is by merit.                                       *)
(***************************************************************************)
EXTENDS MemoryDirectory, Ranking, MemoryStoreProofs, FiniteSetTheorems

\* The entry of a peer in the table is an entry of the directory.
LEMMA EntryOfType ==
    ASSUME NEW peer \in Peer
    PROVE  /\ EntryOf(peer) \in Directory!Entry
           /\ EntryOf(peer) # None
           /\ Identity(peer) \in Identities
<1>1. Identity(peer) \in Identities
  BY DEF Identity, Identities, Peer
<1>2. peer.QualityScore \in Int /\ peer.ValidReports \in Nat /\ peer.InvalidReports \in Nat
  BY DEF Peer
<1>3. EntryOf(peer) \in Directory!Entry
  BY <1>1, <1>2 DEF EntryOf, Directory!Entry
<1> QED
  BY <1>1, <1>3, AbsentAssumption

\* A peer that keeps its identity and its numbers keeps its entry.
LEMMA EntryOfSame ==
    ASSUME NEW old, NEW new,
           new.SignatureKey = old.SignatureKey,
           new.EncryptionKey = old.EncryptionKey,
           new.Fake = old.Fake,
           new.QualityScore = old.QualityScore,
           new.ValidReports = old.ValidReports,
           new.InvalidReports = old.InvalidReports
    PROVE  EntryOf(new) = EntryOf(old)
BY DEF EntryOf, Identity

\* An entry is its four fields.
LEMMA EntryEqual ==
    ASSUME NEW a \in Directory!Entry, NEW b \in Directory!Entry,
           a.identity = b.identity, a.score = b.score,
           a.valid = b.valid, a.invalid = b.invalid
    PROVE  a = b
BY DEF Directory!Entry

\* What a verdict makes of an entry.
LEMMA JudgedSpec ==
    ASSUME NEW entry \in Directory!Entry, NEW valid \in BOOLEAN
    PROVE  LET new == Directory!Judged(entry, valid)
           IN  /\ new \in Directory!Entry
               /\ new.identity = entry.identity
               /\ new.score = entry.score + (IF valid THEN 1 ELSE -1)
               /\ new.valid = entry.valid + (IF valid THEN 1 ELSE 0)
               /\ new.invalid = entry.invalid + (IF valid THEN 0 ELSE 1)
<1> DEFINE new == Directory!Judged(entry, valid)
<1>1. entry.score \in Int /\ entry.valid \in Nat /\ entry.invalid \in Nat
  BY DEF Directory!Entry
<1>2. CASE valid
  <2>1. PICK q \in Int, v \in Nat : q = entry.score + 1 /\ v = entry.valid + 1
    BY <1>1
  <2>2. new = [entry EXCEPT !.score = q, !.valid = v]
    BY <1>2, <2>1 DEF Directory!Judged
  <2>3. /\ new \in Directory!Entry
        /\ new.identity = entry.identity
        /\ new.score = q /\ new.valid = v /\ new.invalid = entry.invalid
    BY <2>2 DEF Directory!Entry
  <2>4. /\ (IF valid THEN 1 ELSE -1) = 1
        /\ (IF valid THEN 1 ELSE 0) = 1
        /\ (IF valid THEN 0 ELSE 1) = 0
    BY <1>2
  <2> QED
    BY <1>1, <2>1, <2>3, <2>4
<1>3. CASE ~valid
  <2>1. PICK q \in Int, v \in Nat : q = entry.score - 1 /\ v = entry.invalid + 1
    BY <1>1
  <2>2. new = [entry EXCEPT !.score = q, !.invalid = v]
    BY <1>3, <2>1 DEF Directory!Judged
  <2>3. /\ new \in Directory!Entry
        /\ new.identity = entry.identity
        /\ new.score = q /\ new.valid = entry.valid /\ new.invalid = v
    BY <2>2 DEF Directory!Entry
  <2> QED
    BY <1>1, <1>3, <2>1, <2>3
<1> QED
  BY <1>2, <1>3

\* A verdict on a peer is a verdict on its entry.
LEMMA EntryOfScored ==
    ASSUME NEW peer \in Peer, NEW valid \in BOOLEAN
    PROVE  EntryOf(Scored(peer, valid)) = Directory!Judged(EntryOf(peer), valid)
<1> DEFINE new == Scored(peer, valid)
           entry == EntryOf(peer)
           judged == Directory!Judged(entry, valid)
<1>1. /\ new \in Peer
      /\ Identity(new) = Identity(peer)
      /\ new.QualityScore = peer.QualityScore + (IF valid THEN 1 ELSE -1)
      /\ new.ValidReports = peer.ValidReports + (IF valid THEN 1 ELSE 0)
      /\ new.InvalidReports = peer.InvalidReports + (IF valid THEN 0 ELSE 1)
  BY ScoredType DEF Identity
<1>2. EntryOf(new) \in Directory!Entry /\ entry \in Directory!Entry
  BY <1>1, EntryOfType
<1>3. /\ judged \in Directory!Entry
      /\ judged.identity = entry.identity
      /\ judged.score = entry.score + (IF valid THEN 1 ELSE -1)
      /\ judged.valid = entry.valid + (IF valid THEN 1 ELSE 0)
      /\ judged.invalid = entry.invalid + (IF valid THEN 0 ELSE 1)
  BY <1>2, JudgedSpec
<1>4. /\ entry.identity = Identity(peer)
      /\ entry.score = peer.QualityScore
      /\ entry.valid = peer.ValidReports
      /\ entry.invalid = peer.InvalidReports
  BY DEF EntryOf
<1> HIDE DEF new, judged
<1>5. /\ EntryOf(new).identity = Identity(new)
      /\ EntryOf(new).score = new.QualityScore
      /\ EntryOf(new).valid = new.ValidReports
      /\ EntryOf(new).invalid = new.InvalidReports
  BY DEF EntryOf
<1> HIDE DEF entry
<1>6. EntryOf(new) = judged
  BY <1>1, <1>2, <1>3, <1>4, <1>5, EntryEqual
<1> QED
  BY <1>6 DEF new, judged, entry

\* Every step of the store is a step of the directory, or leaves it alone.
LEMMA StepImplements ==
    TypeOK /\ [Next]_vars => [Directory!Next]_Entries
<1> SUFFICES ASSUME TypeOK, [Next]_vars PROVE [Directory!Next]_Entries
  OBVIOUS
<1>t. peers \in [PeerIDs -> Peer \cup {None}]
  BY DEF TypeOK
<1>1. CASE UNCHANGED <<peers, logins, verdicts>>
  BY <1>1 DEF Entries
<1>2. ASSUME NEW w \in Workers, UpsertInsert(w) PROVE Directory!Next
  <2>1. PICK id \in PeerIDs, peer \in Peer :
            /\ peers[id] = None
            /\ peers' = [peers EXCEPT ![id] = peer]
            /\ peer.QualityScore = InitialQualityScore
            /\ peer.ValidReports = 0
            /\ peer.InvalidReports = 0
    BY <1>2, UpsertInsertSpec
  <2>2. Identity(peer) \in Identities
    BY EntryOfType
  <2>3. EntryOf(peer) = [identity |-> Identity(peer), score |-> InitialQualityScore,
                         valid |-> 0, invalid |-> 0]
    BY <2>1 DEF EntryOf
  <2>4. Entries' = [Entries EXCEPT ![id] = EntryOf(peer)]
    BY <1>t, <2>1, NoneAssumption DEF Entries
  <2>5. Directory!Register(id, Identity(peer))
    BY <2>1, <2>3, <2>4 DEF Directory!Register, Entries
  <2> QED
    BY <2>2, <2>5 DEF Directory!Next
<1>3. ASSUME NEW w \in Workers, UpsertMerge(w) PROVE UNCHANGED Entries
  <2>1. PICK id \in PeerIDs, peer \in Peer :
            /\ peers[id] \in Peer
            /\ peers' = [peers EXCEPT ![id] = peer]
            /\ peer.SignatureKey = peers[id].SignatureKey
            /\ peer.EncryptionKey = peers[id].EncryptionKey
            /\ peer.Fake = peers[id].Fake
            /\ peer.QualityScore = peers[id].QualityScore
            /\ peer.ValidReports = peers[id].ValidReports
            /\ peer.InvalidReports = peers[id].InvalidReports
    BY <1>3, UpsertMergeSpec
  <2>2. EntryOf(peer) = EntryOf(peers[id])
    BY <2>1, EntryOfSame
  <2> QED
    BY <1>t, <2>1, <2>2, NoneAssumption DEF Entries
<1>4. ASSUME NEW id \in PeerIDs, Delete(id) PROVE Directory!Next
  <2>1. peers[id] # None /\ peers' = [peers EXCEPT ![id] = None]
    BY <1>4 DEF Delete
  <2>2. Entries[id] # None
    BY <1>t, <2>1, EntryOfType DEF Entries
  <2>3. Entries' = [Entries EXCEPT ![id] = None]
    BY <1>t, <2>1 DEF Entries
  <2>4. Directory!Remove(id)
    BY <2>2, <2>3 DEF Directory!Remove
  <2> QED
    BY <2>4 DEF Directory!Next
<1>5. ASSUME NEW id \in PeerIDs, NEW ttl \in TTLs, Heartbeat(id, ttl)
      PROVE  UNCHANGED Entries
  <2>1. PICK peer \in Peer :
            /\ peers[id] \in Peer
            /\ peers' = [peers EXCEPT ![id] = peer]
            /\ peer.SignatureKey = peers[id].SignatureKey
            /\ peer.EncryptionKey = peers[id].EncryptionKey
            /\ peer.Fake = peers[id].Fake
            /\ peer.QualityScore = peers[id].QualityScore
            /\ peer.ValidReports = peers[id].ValidReports
            /\ peer.InvalidReports = peers[id].InvalidReports
    BY <1>5, HeartbeatSpec
  <2>2. EntryOf(peer) = EntryOf(peers[id])
    BY <2>1, EntryOfSame
  <2> QED
    BY <1>t, <2>1, <2>2, NoneAssumption DEF Entries
<1>6. ASSUME NEW id \in PeerIDs, NEW valid \in BOOLEAN,
             peers[id] # None, Judge(id, valid)
      PROVE  Directory!Next
  <2>1. peers[id] \in Peer
    BY <1>t, <1>6
  <2>2. peers' = [peers EXCEPT ![id] = Scored(peers[id], valid)]
    BY <1>6 DEF Judge
  <2>3. Scored(peers[id], valid) # None
    BY <2>1, ScoredType, NoneAssumption
  <2>4. Entries[id] = EntryOf(peers[id]) /\ Entries[id] # None
    BY <1>6, <2>1, EntryOfType DEF Entries
  <2>5. EntryOf(Scored(peers[id], valid)) = Directory!Judged(Entries[id], valid)
    BY <2>1, <2>4, EntryOfScored
  <2>6. Entries' = [i \in PeerIDs |->
                       IF i \in {id} THEN Directory!Judged(Entries[i], valid)
                       ELSE Entries[i]]
    BY <1>t, <2>2, <2>3, <2>5 DEF Entries
  <2>7. Directory!Judge({id}, valid)
    BY <2>4, <2>6 DEF Directory!Judge, Directory!Present
  <2> QED
    BY <2>7 DEF Directory!Next
<1> QED
  BY <1>1, <1>2, <1>3, <1>4, <1>5, <1>6, PeersChange

\* The peer table is a directory, for any number of peers, requests and
\* verdicts: whatever Upsert, Delete, Heartbeat, ReportChunk and ConfirmChunk
\* do, an entry keeps its identity until Delete, and its score and counters
\* move by one verdict at a time.
THEOREM DirectoryCorrect == Spec => ImplementsDirectory
<1>1. Init => Directory!Init
  BY DEF Init, Directory!Init, Entries
<1>2. TypeOK /\ [Next]_vars => [Directory!Next]_Entries
  BY StepImplements
<1> QED
  BY <1>1, <1>2, TypeCorrect, PTL DEF Spec, Directory!Spec, ImplementsDirectory

-----------------------------------------------------------------------------
(***************************************************************************)
(* The ranking.                                                            *)
(***************************************************************************)
\* Each of the three powers EffectiveScore compares grows with the score, on
\* both sides of zero.
LEMMA SignedGrows ==
    ASSUME NEW s \in Int, NEW t \in Int, NEW exp \in 1 .. 3, s < t
    PROVE  /\ Signed(s, exp) \in Int /\ Signed(t, exp) \in Int
           /\ Signed(s, exp) < Signed(t, exp)
<1>1. CASE exp = 1
  BY <1>1 DEF Signed, Power
<1>2. CASE exp = 2
  <2>1. \A x \in Int : Signed(x, exp) = IF x < 0 THEN -(x * x) ELSE x * x
    BY <1>2 DEF Signed, Power
  <2>2. CASE 0 <= s
    <3>1. s * s \in Int /\ t * t \in Int /\ s * s < t * t
      BY <2>2
    <3> QED
      BY <2>1, <2>2, <3>1
  <2>3. CASE s < 0 /\ 0 <= t
    <3>1. s * s \in Int /\ t * t \in Int /\ s * s > 0 /\ t * t >= 0
      BY <2>3
    <3> QED
      BY <2>1, <2>3, <3>1
  <2>4. CASE t < 0
    <3>1. s * s \in Int /\ t * t \in Int /\ s * s > t * t
      BY <2>4
    <3> QED
      BY <2>1, <2>4, <3>1
  <2> QED
    BY <2>2, <2>3, <2>4
<1>3. CASE exp = 3
  <2>1. \A x \in Int : Signed(x, exp) = x * x * x
    BY <1>3 DEF Signed, Power
  <2>2. s * s * s \in Int /\ t * t * t \in Int /\ s * s * s < t * t * t
    OBVIOUS
  <2> QED
    BY <2>1, <2>2
<1> QED
  BY <1>1, <1>2, <1>3

\* Of two peers with one flag, the one judged better scores higher.
LEMMA MeritScores ==
    ASSUME TypeOK, VerdictLedger, NEW a \in PeerIDs, NEW b \in PeerIDs,
           peers[a] # None, peers[b] # None,
           peers[a].PeerFlag = peers[b].PeerFlag,
           verdicts[a].valid - verdicts[a].invalid > verdicts[b].valid - verdicts[b].invalid
    PROVE  /\ EffectiveScore(peers[a]) \in Int /\ EffectiveScore(peers[b]) \in Int
           /\ EffectiveScore(peers[a]) > EffectiveScore(peers[b])
<1> DEFINE exp == peerFlagExponent(peers[a].PeerFlag)
<1>1. exp \in 1 .. 3
  BY DEF peerFlagExponent
<1>2. /\ verdicts[a] \in [valid : Nat, invalid : Nat]
      /\ verdicts[b] \in [valid : Nat, invalid : Nat]
  BY DEF TypeOK
<1>3. /\ peers[a].QualityScore = InitialQualityScore + verdicts[a].valid - verdicts[a].invalid
      /\ peers[b].QualityScore = InitialQualityScore + verdicts[b].valid - verdicts[b].invalid
  BY DEF VerdictLedger
<1>4. /\ peers[a].QualityScore \in Int /\ peers[b].QualityScore \in Int
      /\ peers[b].QualityScore < peers[a].QualityScore
  BY <1>2, <1>3 DEF InitialQualityScore
<1>5. /\ EffectiveScore(peers[a]) = Signed(peers[a].QualityScore, exp)
      /\ EffectiveScore(peers[b]) = Signed(peers[b].QualityScore, exp)
  BY DEF EffectiveScore
<1> HIDE DEF exp
<1> QED
  BY <1>1, <1>4, <1>5, SignedGrows

\* The sort and the cut: a peer judged better is in the answer, and earlier.
LEMMA BestRanks ==
    ASSUME TypeOK, VerdictLedger, NEW ids \in SUBSET PeerIDs,
           \A id \in ids : peers[id] # None,
           NEW n \in Nat, NEW s \in Best(ids, n), NEW id \in ids, NEW i \in DOMAIN s,
           peers[id].PeerFlag = peers[s[i]].PeerFlag,
           verdicts[id].valid - verdicts[id].invalid
               > verdicts[s[i]].valid - verdicts[s[i]].invalid
    PROVE  \E k \in 1 .. i - 1 : s[k] = id
<1> DEFINE m == IF n < Cardinality(ids) THEN n ELSE Cardinality(ids)
           score(p) == EffectiveScore(peers[p])
<1>1. IsFiniteSet(ids) /\ Cardinality(ids) \in Nat
  BY RankingAssumption, FS_Subset, FS_CardinalityType
<1>2. m \in Nat
  BY <1>1
<1>3. /\ s \in [1 .. m -> ids]
      /\ \A j, k \in 1 .. m : j < k => s[j] # s[k] /\ score(s[j]) >= score(s[k])
      /\ \A p \in ids, j \in 1 .. m :
             p \notin {s[k] : k \in 1 .. m} => score(s[j]) >= score(p)
  BY DEF Best
<1> HIDE DEF m
<1>4. i \in 1 .. m /\ s[i] \in ids
  BY <1>3
<1>5. score(id) \in Int /\ score(s[i]) \in Int /\ score(id) > score(s[i])
  BY <1>4, MeritScores
<1> HIDE DEF score
<1>6. PICK k \in 1 .. m : s[k] = id
  BY <1>3, <1>4, <1>5
<1>7. ~(i < k) /\ k # i
  BY <1>3, <1>4, <1>5, <1>6
<1>8. k \in 1 .. i - 1
  BY <1>2, <1>4, <1>7
<1> QED
  BY <1>6, <1>8

\* The best peers are the best, for any set of peers and any scores: no answer
\* of GetBestPeers or GetBestThickPeers prefers a peer to one with the same
\* flag that more verdicts speak for.
THEOREM RankingCorrect == Spec => []BestByMerit
<1>1. ASSUME TypeOK, VerdictLedger PROVE BestByMerit
  <2>1. ScoresComparable
    <3>1. \A s \in -ScoreBound .. ScoreBound : s \in Int
      BY RankingAssumption
    <3> SUFFICES ASSUME NEW s \in -ScoreBound .. ScoreBound,
                        NEW t \in -ScoreBound .. ScoreBound, NEW exp \in 1 .. 3, s < t
                 PROVE  Signed(s, exp) < Signed(t, exp)
      BY DEF ScoresComparable
    <3> QED
      BY <3>1, SignedGrows
  <2>2. /\ List \in SUBSET PeerIDs /\ Thick \in SUBSET PeerIDs
        /\ \A id \in List : peers[id] # None
        /\ \A id \in Thick : peers[id] # None
    BY DEF List, Thick
  <2>3. Cardinality(PeerIDs) \in Nat
    BY RankingAssumption, FS_CardinalityType
  <2>4. ASSUME NEW n \in 0 .. Cardinality(PeerIDs),
               NEW ids \in {List, Thick}, NEW s, NEW id \in ids, NEW i \in DOMAIN s,
               s \in (IF n <= 0 THEN {<<>>} ELSE Best(ids, n)),
               peers[id].PeerFlag = peers[s[i]].PeerFlag,
               verdicts[id].valid - verdicts[id].invalid
                   > verdicts[s[i]].valid - verdicts[s[i]].invalid
        PROVE  \E k \in 1 .. i - 1 : s[k] = id
    <3>1. n \in Nat
      BY <2>3
    <3>2. s # <<>>
      OBVIOUS
    <3>3. s \in Best(ids, n)
      BY <2>4, <3>2
    <3>4. ids \in SUBSET PeerIDs /\ \A p \in ids : peers[p] # None
      BY <2>2
    <3> QED
      BY <1>1, <2>4, <3>1, <3>3, <3>4, BestRanks
  <2>5. ASSUME NEW n \in 0 .. Cardinality(PeerIDs),
               NEW query \in {<<List, GetBestPeers(n)>>, <<Thick, GetBestThickPeers(n)>>},
               NEW id \in query[1], NEW s \in query[2], NEW i \in DOMAIN s,
               peers[id].PeerFlag = peers[s[i]].PeerFlag,
               verdicts[id].valid - verdicts[id].invalid
                   > verdicts[s[i]].valid - verdicts[s[i]].invalid
        PROVE  \E k \in 1 .. i - 1 : s[k] = id
    <3>1. CASE query = <<List, GetBestPeers(n)>>
      BY <2>4, <2>5, <3>1 DEF GetBestPeers
    <3>2. CASE query = <<Thick, GetBestThickPeers(n)>>
      BY <2>4, <2>5, <3>2 DEF GetBestThickPeers
    <3> QED
      BY <3>1, <3>2
  <2> QED
    BY <2>1, <2>5 DEF BestByMerit
<1> QED
  BY <1>1, TypeCorrect, VerdictsCorrect, PTL
=============================================================================
