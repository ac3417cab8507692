------------------------------- MODULE Ranking -------------------------------
(***************************************************************************)
(* The answers of GET /api/v1/peers, /peers/best and /peers/best/thick:    *)
(* List, GetBestPeers and GetBestThickPeers over the table of MemoryStore, *)
(* and EffectiveScore (internal/store/store.go) that ranks the peers.      *)
(* GetBestPeers of the database store ranks the same way.                  *)
(*                                                                         *)
(* The products of EffectiveScore fit a 64-bit int for scores up to about  *)
(* two million in size; the models stay far below, and integers are        *)
(* unbounded here.                                                         *)
(***************************************************************************)
EXTENDS MemoryStore, FiniteSets

CONSTANT ScoreBound   \* bound: scores the ranking function is tried on

ASSUME RankingAssumption == ScoreBound \in Nat /\ IsFiniteSet(PeerIDs)

peerFlagExponent(flag) ==
    CASE flag = "thick"      -> 2
      [] flag = "very_thick" -> 3
      [] OTHER               -> 1

\* score^exp, for the three exponents there are.
Power(score, exp) ==
    CASE exp = 1 -> score
      [] exp = 2 -> score * score
      [] exp = 3 -> score * score * score

\* An even power keeps the sign of the score.
Signed(score, exp) ==
    IF exp % 2 = 0 /\ score < 0 THEN -Power(score, exp) ELSE Power(score, exp)

EffectiveScore(peer) == Signed(peer.QualityScore, peerFlagExponent(peer.PeerFlag))

\* The peers List returns, in the order of the map.
List == {id \in PeerIDs : /\ peers[id] # None
                          /\ ~isExpired(peers[id], now)
                          /\ ~peers[id].Fake}

Thick == {id \in List : peers[id].PeerFlag \in {"thick", "very_thick"}}

\* Mutant: the cut comes before the sort.
Best_CutFirst(ids, n) ==
    LET m == IF n < Cardinality(ids) THEN n ELSE Cardinality(ids)
        score(id) == EffectiveScore(peers[id])
    IN  {s \in [1 .. m -> ids] :
            \A i, j \in 1 .. m : i < j => s[i] # s[j] /\ score(s[i]) >= score(s[j])}

\* What sort.Slice and the cut to n may make of the peers ids: the sort is not
\* stable and the map has no order, so peers of equal score come in any.
Best(ids, n) ==
    LET m == IF n < Cardinality(ids) THEN n ELSE Cardinality(ids)
        score(id) == EffectiveScore(peers[id])
    IN  {s \in [1 .. m -> ids] :
            /\ \A i, j \in 1 .. m :
                   i < j => s[i] # s[j] /\ score(s[i]) >= score(s[j])
            /\ \A id \in ids, i \in 1 .. m :
                   id \notin {s[k] : k \in 1 .. m} => score(s[i]) >= score(id)}

GetBestPeers(n) == IF n <= 0 THEN {<<>>} ELSE Best(List, n)

GetBestThickPeers(n) == IF n <= 0 THEN {<<>>} ELSE Best(Thick, n)

-----------------------------------------------------------------------------
\* Among peers with one flag a higher quality_score never ranks lower, below
\* zero included, whatever power of it EffectiveScore compares.
ScoresComparable ==
    \A s, t \in -ScoreBound .. ScoreBound, exp \in 1 .. 3 :
        s < t => Signed(s, exp) < Signed(t, exp)

\* The best peers are the best: no answer of either query prefers a peer to
\* one it might have given that has the same flag and was judged better
\* (by the verdicts passed, which is more than the score: the ranking survives
\* registration, merging and deletion).
BestByMerit ==
    /\ ScoresComparable
    /\ \A n \in 0 .. Cardinality(PeerIDs) :
       \A query \in {<<List, GetBestPeers(n)>>, <<Thick, GetBestThickPeers(n)>>} :
       \A id \in query[1], s \in query[2] : \A i \in DOMAIN s :
           LET surplus(p) == verdicts[p].valid - verdicts[p].invalid
           IN  /\ peers[id].PeerFlag = peers[s[i]].PeerFlag
               /\ surplus(id) > surplus(s[i])
               => \E k \in 1 .. i-1 : s[k] = id
=============================================================================
