-------------------------- MODULE ReviewQuorumProofs --------------------------
(***************************************************************************)
(* Proofs about ReviewQuorum for any finite set of at least three          *)
(* reviewers and any confidences: whatever order the votes arrive in, the  *)
(* early decision is the policy's, and it overtakes no vote.               *)
(***************************************************************************)
EXTENDS ReviewQuorum, FiniteSetTheorems, SequenceTheorems, TLAPS

\* The votes received for a side.
For(side) == {n \in votes : Counts(n, side)}

\* A vote is sent once: it is in the channel or counted, never both, never twice.
VotesSentOnce ==
  /\ \A i, j \in 1..Len(votesCh) : votesCh[i] = votesCh[j] => i = j
  /\ \A i \in 1..Len(votesCh) : node[votesCh[i]] = "done" /\ votesCh[i] \notin votes
  /\ \A n \in votes : node[n] = "done"
  /\ \A n \in Nodes : node[n] = "done" => n \in votes \/ \E i \in 1..Len(votesCh) : votesCh[i] = n

\* The counters are the sizes of the two sides.
Tallied == passes = Cardinality(For("pass")) /\ rejects = Cardinality(For("reject"))

\* What each place of the collector knows.
CollectorKnows ==
  /\ collector = "draining" => passes >= 2 \/ rejects >= 2
  /\ collector = "tallying" => votes = Nodes
  /\ collector # "returned" => ~result.reached
  /\ collector = "returned" => /\ result.kind = QuorumPromotion(votes)
                               /\ result.reached /\ ~result.conflict => result.kind # ""

\* The decision compares counters; that they mean distinct reviewers follows only
\* from every vote being received once.
IInv == TypeOK /\ VotesSentOnce /\ Tallied /\ CollectorKnows

\* The reviewers are finitely many, and so are the votes.
LEMMA SidesFinite ==
  ASSUME votes \in SUBSET Nodes, NEW side
  PROVE  IsFiniteSet(For(side)) /\ Cardinality(For(side)) \in Nat
  <1>1. For(side) \subseteq Nodes
    BY DEF For
  <1>2. IsFiniteSet(For(side))
    BY <1>1, FS_Subset, QuorumAssumption
  <1> QED
    BY <1>2, FS_CardinalityType

\* Before any review the invariant holds.
LEMMA InitIInv == Init => IInv
  <1> SUFFICES ASSUME Init PROVE IInv
    OBVIOUS
  <1>1. TypeOK
    <2>1. vote \in [Nodes -> Vote]
      BY DEF Init, Vote
    <2>2. result \in QuorumResult
      BY DEF Init, Decision, QuorumResult
    <2>3. votesCh \in Seq(Nodes)
      BY EmptySeq DEF Init
    <2> QED
      BY <2>1, <2>2, <2>3 DEF Init, TypeOK
  <1>2. VotesSentOnce
    <2>1. Len(votesCh) = 0 /\ votes = {} /\ \A n \in Nodes : node[n] = "calling"
      BY DEF Init
    <2> QED
      BY <2>1 DEF VotesSentOnce
  <1>3. For("pass") = {} /\ For("reject") = {}
    BY DEF Init, For
  <1>4. Tallied
    BY <1>3, FS_EmptySet DEF Init, Tallied
  <1>5. CollectorKnows
    BY DEF Init, CollectorKnows, Decision
  <1> QED
    BY <1>1, <1>2, <1>4, <1>5 DEF IInv

\* Receiving a vote adds it to the side it counts for.
LEMMA ReceiveCounts ==
  ASSUME TypeOK, VotesSentOnce, Tallied, Receive
  PROVE  VotesSentOnce' /\ Tallied' /\ votes' \in SUBSET Nodes /\ passes' \in Nat /\ rejects' \in Nat
         /\ votesCh' \in Seq(Nodes)
  <1> DEFINE n == Head(votesCh)
  <1>1. /\ votesCh \in Seq(Nodes) /\ votesCh # <<>> /\ n = votesCh[1] /\ n \in Nodes
        /\ Len(votesCh) \in Nat \ {0}
    BY DEF TypeOK, Receive
  <1>2. /\ votesCh' = Tail(votesCh) /\ votes' = votes \cup {n}
        /\ passes' = passes + One(Counts(n, "pass"))
        /\ rejects' = rejects + One(Counts(n, "reject"))
        /\ UNCHANGED <<node, vote, result>>
    BY DEF Receive
  <1>3. n \notin votes /\ node[n] = "done"
    BY <1>1 DEF VotesSentOnce
  <1>4. /\ Len(votesCh') = Len(votesCh) - 1 /\ votesCh' \in Seq(Nodes)
        /\ \A i \in 1..Len(votesCh') : votesCh'[i] = votesCh[i + 1]
    BY <1>1, <1>2
  <1>5. VotesSentOnce'
    <2>1. \A i, j \in 1..Len(votesCh') : votesCh'[i] = votesCh'[j] => i = j
      BY <1>1, <1>4 DEF VotesSentOnce
    <2>2. \A i \in 1..Len(votesCh') : node'[votesCh'[i]] = "done" /\ votesCh'[i] \notin votes'
      BY <1>1, <1>2, <1>4 DEF VotesSentOnce
    <2>3. \A m \in votes' : node'[m] = "done"
      BY <1>2, <1>3 DEF VotesSentOnce
    <2>4. ASSUME NEW m \in Nodes, node'[m] = "done", m \notin votes'
          PROVE  \E i \in 1..Len(votesCh') : votesCh'[i] = m
      <3>1. PICK i \in 1..Len(votesCh) : votesCh[i] = m
        BY <1>2, <2>4 DEF VotesSentOnce
      <3>2. i # 1
        BY <1>1, <1>2, <2>4, <3>1
      <3>3. i - 1 \in 1..Len(votesCh') /\ votesCh'[i - 1] = m
        BY <1>1, <1>4, <3>1, <3>2
      <3> QED
        BY <3>3
    <2> QED
      BY <2>1, <2>2, <2>3, <2>4 DEF VotesSentOnce
  <1>6. ASSUME NEW side
        PROVE  Cardinality(For(side)') = Cardinality(For(side)) + One(Counts(n, side))
    <2>1. IsFiniteSet(For(side)) /\ Cardinality(For(side)) \in Nat
      BY SidesFinite DEF TypeOK
    <2>2. CASE Counts(n, side)
      <3>1. For(side)' = For(side) \cup {n} /\ n \notin For(side)
        BY <1>2, <1>3, <2>2 DEF For, Counts
      <3> QED
        BY <2>1, <2>2, <3>1, FS_AddElement DEF One
    <2>3. CASE ~Counts(n, side)
      <3>1. For(side)' = For(side)
        BY <1>2, <2>3 DEF For, Counts
      <3> QED
        BY <2>1, <2>3, <3>1 DEF One
    <2> QED
      BY <2>2, <2>3
  <1>7. Tallied'
    BY <1>2, <1>6 DEF Tallied
  <1> QED
    BY <1>1, <1>2, <1>4, <1>5, <1>7 DEF TypeOK, One

\* The policy applied to the votes received, in terms of the counters.
LEMMA PolicyByCounters ==
  ASSUME IInv
  PROVE  QuorumPromotion(votes) = IF rejects >= 2 /\ passes = 0 THEN "risk"
                                  ELSE IF passes >= 2 /\ rejects = 0 THEN "trusted" ELSE ""
  BY QuorumAssumption DEF IInv, Tallied, For, QuorumPromotion

\* A reviewer's vote is computed before it is sent and not changed afterwards, so
\* the votes received keep counting for the same side.
LEMMA AnswerStep ==
  ASSUME IInv, NEW n \in Nodes, node[n] = "calling", NEW v \in Vote,
         vote' = [vote EXCEPT ![n] = v], node' = [node EXCEPT ![n] = "sending"],
         UNCHANGED <<votesCh, votes, passes, rejects, collector, result>>
  PROVE  IInv'
  <1>t. TypeOK
    BY DEF IInv
  <1>1. TypeOK'
    BY <1>t DEF TypeOK
  <1>2. VotesSentOnce'
    BY <1>t DEF IInv, TypeOK, VotesSentOnce
  <1>3. n \notin votes
    BY DEF IInv, VotesSentOnce
  <1>4. \A m \in votes, side \in {"pass", "reject"} : Counts(m, side)' = Counts(m, side)
    BY <1>t, <1>3 DEF Counts, TypeOK
  <1>5. \A side \in {"pass", "reject"} : For(side)' = For(side)
    BY <1>4 DEF For
  <1>6. Tallied'
    BY <1>5 DEF IInv, Tallied
  <1>7. QuorumPromotion(votes)' = QuorumPromotion(votes)
    BY <1>5 DEF QuorumPromotion, For
  <1>8. CollectorKnows'
    BY <1>7 DEF IInv, CollectorKnows
  <1> QED
    BY <1>1, <1>2, <1>6, <1>8 DEF IInv

\* A decision that agrees with the policy.
LEMMA DecideStep ==
  ASSUME IInv, NEW kind \in {"", "trusted", "risk"}, NEW reached \in BOOLEAN,
         NEW conflict \in BOOLEAN,
         result' = Decision(kind, reached, conflict), collector' = "returned",
         kind = QuorumPromotion(votes), reached /\ ~conflict => kind # "",
         UNCHANGED <<node, vote, votesCh, votes, passes, rejects>>
  PROVE  IInv'
  <1>1. TypeOK'
    BY DEF IInv, TypeOK, Decision, QuorumResult
  <1>2. VotesSentOnce' /\ Tallied'
    BY DEF IInv, VotesSentOnce, Tallied, For, Counts
  <1>3. QuorumPromotion(votes)' = QuorumPromotion(votes)
    BY DEF QuorumPromotion, Counts
  <1>4. CollectorKnows'
    BY <1>3 DEF CollectorKnows, Decision
  <1> QED
    BY <1>1, <1>2, <1>4 DEF IInv

\* Every step of a reviewer goroutine and of the collector preserves the invariant.
LEMMA NextIInv == IInv /\ [Next]_vars => IInv'
  <1> SUFFICES ASSUME IInv, [Next]_vars PROVE IInv'
    OBVIOUS
  <1>t. TypeOK /\ passes \in Nat /\ rejects \in Nat
    BY DEF IInv, TypeOK
  <1>1. ASSUME NEW n \in Nodes, NEW v \in Verdict, ReviewAnswers(n, v) PROVE IInv'
    <2> DEFINE x == [err |-> ~ValidateAIVerdict(v), verdict |-> v]
    <2>1. x \in Vote
      <3>1. CASE ValidateAIVerdict(v)
        BY <3>1 DEF Vote, ValidVerdict, ValidateAIVerdict, Verdict, Results
      <3>2. CASE ~ValidateAIVerdict(v)
        BY <3>2 DEF Vote
      <3> QED
        BY <3>1, <3>2
    <2>2. /\ node[n] = "calling" /\ vote' = [vote EXCEPT ![n] = x]
          /\ node' = [node EXCEPT ![n] = "sending"]
          /\ UNCHANGED <<votesCh, votes, passes, rejects, collector, result>>
      BY <1>1 DEF ReviewAnswers
    <2> HIDE DEF x
    <2> QED
      BY <2>1, <2>2, AnswerStep
  <1>2. ASSUME NEW n \in Nodes, ReviewFails(n) PROVE IInv'
    <2>1. NoVote \in Vote
      BY DEF Vote
    <2> QED
      BY <1>2, <2>1, AnswerStep DEF ReviewFails
  <1>3. ASSUME NEW n \in Nodes, Send(n) PROVE IInv'
    <2>1. /\ node[n] = "sending" /\ votesCh' = Append(votesCh, n)
          /\ node' = [node EXCEPT ![n] = "done"]
          /\ UNCHANGED <<vote, votes, passes, rejects, collector, result>>
      BY <1>3 DEF Send
    <2>2. TypeOK'
      BY <1>t, <2>1 DEF TypeOK
    <2>3. /\ Len(votesCh) \in Nat /\ Len(votesCh') = Len(votesCh) + 1
          /\ votesCh'[Len(votesCh) + 1] = n
          /\ \A i \in 1..Len(votesCh) : votesCh'[i] = votesCh[i] /\ votesCh[i] \in Nodes
      BY <1>t, <2>1 DEF TypeOK
    <2>4. n \notin votes /\ \A i \in 1..Len(votesCh) : votesCh[i] # n
      BY <2>1 DEF IInv, VotesSentOnce
    <2>5. \A i \in 1..Len(votesCh') : i \in 1..Len(votesCh) \/ i = Len(votesCh) + 1
      BY <2>3
    <2>6. /\ node'[n] = "done"
          /\ \A m \in Nodes : m # n => node'[m] = node[m]
      BY <1>t, <2>1 DEF TypeOK
    <2>7. VotesSentOnce'
      <3>1. \A i, j \in 1..Len(votesCh') : votesCh'[i] = votesCh'[j] => i = j
        BY <2>3, <2>4, <2>5 DEF IInv, VotesSentOnce
      <3>2. \A i \in 1..Len(votesCh') : node'[votesCh'[i]] = "done" /\ votesCh'[i] \notin votes'
        BY <2>1, <2>3, <2>4, <2>5, <2>6 DEF IInv, VotesSentOnce
      <3>3. \A m \in votes' : node'[m] = "done"
        BY <1>t, <2>1, <2>6 DEF IInv, VotesSentOnce, TypeOK
      <3>4. \A m \in Nodes : node'[m] = "done" =>
              m \in votes' \/ \E i \in 1..Len(votesCh') : votesCh'[i] = m
        <4> SUFFICES ASSUME NEW m \in Nodes, node'[m] = "done", m \notin votes'
                     PROVE  \E i \in 1..Len(votesCh') : votesCh'[i] = m
          OBVIOUS
        <4>1. CASE m = n
          BY <2>3, <4>1
        <4>2. CASE m # n
          <5>1. PICK i \in 1..Len(votesCh) : votesCh[i] = m
            BY <2>1, <2>6, <4>2 DEF IInv, VotesSentOnce
          <5> QED
            BY <2>3, <5>1
        <4> QED
          BY <4>1, <4>2
      <3> QED
        BY <3>1, <3>2, <3>3, <3>4 DEF VotesSentOnce
    <2>8. Tallied' /\ CollectorKnows'
      BY <2>1 DEF IInv, Tallied, For, Counts, CollectorKnows, QuorumPromotion
    <2> QED
      BY <2>2, <2>7, <2>8 DEF IInv
  <1>4. ASSUME Collect PROVE IInv'
    <2>1. /\ VotesSentOnce' /\ Tallied' /\ votes' \in SUBSET Nodes /\ passes' \in Nat
          /\ rejects' \in Nat /\ votesCh' \in Seq(Nodes)
      BY <1>4, ReceiveCounts DEF IInv, Collect
    <2>2. UNCHANGED <<node, vote, result>>
      BY <1>4 DEF Collect, Receive
    <2>3. collector = "collecting" /\ collector' \in {"draining", "tallying", "collecting"}
      BY <1>4 DEF Collect
    <2>4. TypeOK'
      BY <1>t, <2>1, <2>2, <2>3 DEF TypeOK
    <2>5. CollectorKnows'
      BY <1>4, <2>2, <2>3 DEF Collect, CollectorKnows, IInv
    <2> QED
      BY <2>1, <2>4, <2>5 DEF IInv
  <1>5. ASSUME Drain PROVE IInv'
    <2>1. /\ VotesSentOnce' /\ Tallied' /\ votes' \in SUBSET Nodes /\ passes' \in Nat
          /\ rejects' \in Nat /\ votesCh' \in Seq(Nodes)
      BY <1>5, ReceiveCounts DEF IInv, Drain
    <2>2. UNCHANGED <<node, vote, result, collector>> /\ collector = "draining"
      BY <1>5 DEF Drain, Receive
    <2>3. passes' >= passes /\ rejects' >= rejects
      BY <1>5, <1>t DEF Drain, Receive, One
    <2>4. TypeOK'
      BY <1>t, <2>1, <2>2 DEF TypeOK
    <2>5. CollectorKnows'
      BY <1>t, <2>1, <2>2, <2>3 DEF CollectorKnows, IInv
    <2> QED
      BY <2>1, <2>4, <2>5 DEF IInv
  <1>6. ASSUME DecideStreaming PROVE IInv'
    <2> DEFINE conflict == passes > 0 /\ rejects > 0
               kind == IF conflict THEN "" ELSE IF passes >= 2 THEN "trusted" ELSE "risk"
    <2>1. passes >= 2 \/ rejects >= 2
      BY <1>6 DEF DecideStreaming, IInv, CollectorKnows
    <2>2. kind = QuorumPromotion(votes)
      <3>1. QuorumPromotion(votes) = IF rejects >= 2 /\ passes = 0 THEN "risk"
                                     ELSE IF passes >= 2 /\ rejects = 0 THEN "trusted" ELSE ""
        BY PolicyByCounters
      <3>2. CASE passes = 0
        BY <1>t, <2>1, <3>1, <3>2
      <3>3. CASE rejects = 0
        BY <1>t, <2>1, <3>1, <3>3
      <3>4. CASE passes # 0 /\ rejects # 0
        <4>1. conflict
          BY <1>t, <3>4
        <4>2. kind = ""
          BY <4>1
        <4>3. QuorumPromotion(votes) = ""
          BY <3>1, <3>4
        <4> QED
          BY <4>2, <4>3
      <3> QED
        BY <3>2, <3>3, <3>4
    <2>3. /\ conflict \in BOOLEAN /\ kind \in {"", "trusted", "risk"}
          /\ TRUE /\ ~conflict => kind # ""
      OBVIOUS
    <2>4. /\ result' = Decision(kind, TRUE, conflict) /\ collector' = "returned"
          /\ UNCHANGED <<node, vote, votesCh, votes, passes, rejects>>
      BY <1>6 DEF DecideStreaming
    <2> HIDE DEF kind, conflict
    <2> QED
      BY <2>2, <2>3, <2>4, DecideStep
  <1>7. ASSUME DecideTally PROVE IInv'
    <2> DEFINE kind == QuorumPromotion(votes)
               conflict == passes > 0 /\ rejects > 0
               reached == kind # ""
    <2>1. kind \in {"", "trusted", "risk"} /\ conflict \in BOOLEAN /\ reached \in BOOLEAN
      BY DEF QuorumPromotion
    <2>2. /\ result' = Decision(kind, reached, conflict) /\ collector' = "returned"
          /\ UNCHANGED <<node, vote, votesCh, votes, passes, rejects>>
      BY <1>7 DEF DecideTally
    <2>3. reached => kind # ""
      OBVIOUS
    <2>4. kind = QuorumPromotion(votes)
      OBVIOUS
    <2> HIDE DEF kind, conflict, reached
    <2> QED
      BY <2>1, <2>2, <2>3, <2>4, DecideStep
  <1>8. ASSUME UNCHANGED vars PROVE IInv'
    BY <1>8 DEF vars, IInv, TypeOK, VotesSentOnce, Tallied, For, Counts, CollectorKnows,
                QuorumPromotion
  <1> QED
    BY <1>1, <1>2, <1>3, <1>4, <1>5, <1>6, <1>7, <1>8 DEF Next

\* The inductive invariant holds of ReviewAsyncQuorum.
THEOREM InvariantHolds == SafetySpec => []IInv
  BY InitIInv, NextIInv, PTL DEF SafetySpec

\* Type correctness: an invalid verdict is never kept as a vote without an error.
THEOREM TypeCorrect == SafetySpec => []TypeOK
  BY InvariantHolds, PTL DEF IInv

\* The early decision agrees with QuorumPromotion on the votes received.
THEOREM EarlyDecisionAgrees == SafetySpec => []StreamingAgreesWithPolicy
  <1>1. IInv => StreamingAgreesWithPolicy
    BY DEF IInv, CollectorKnows, StreamingAgreesWithPolicy
  <1> QED
    BY <1>1, InvariantHolds, PTL

\* What is promoted has two valid high-confidence supporters and no opponent.
THEOREM PromotionsSound == SafetySpec => []PromotionSound
  <1>1. ASSUME IInv PROVE PromotionSound
    <2> SUFFICES ASSUME result.reached, ~result.conflict
                 PROVE  /\ result.kind \in {"trusted", "risk"}
                        /\ Cardinality(Supporters(result.kind)) >= 2
                        /\ Opponents(result.kind) = {}
      BY DEF PromotionSound
    <2>1. result.kind = QuorumPromotion(votes) /\ result.kind # ""
      BY <1>1 DEF IInv, CollectorKnows
    <2>2. /\ IsFiniteSet(For("pass")) /\ IsFiniteSet(For("reject"))
          /\ passes = Cardinality(For("pass")) /\ rejects = Cardinality(For("reject"))
      BY <1>1, SidesFinite DEF IInv, TypeOK, Tallied
    <2>3. CASE rejects >= 2 /\ passes = 0 /\ result.kind = "risk"
      <3>1. Supporters("risk") = For("reject") /\ Opponents("risk") = For("pass")
        BY DEF Supporters, Opponents, For
      <3> QED
        BY <2>2, <2>3, <3>1, FS_EmptySet
    <2>4. CASE passes >= 2 /\ rejects = 0 /\ result.kind = "trusted"
      <3>1. Supporters("trusted") = For("pass") /\ Opponents("trusted") = For("reject")
        BY DEF Supporters, Opponents, For
      <3> QED
        BY <2>2, <2>4, <3>1, FS_EmptySet
    <2> QED
      BY <1>1, <2>1, <2>3, <2>4, PolicyByCounters
  <1> QED
    BY <1>1, InvariantHolds, PTL

\* No vote that was on the channel when the collector decided is left out.
THEOREM DecisionsOvertakeNoVote == SafetySpec => NoVoteOvertaken
  <1> DEFINE P == collector # "returned" /\ collector' = "returned" =>
                    \A n \in Nodes : node[n] = "done" => n \in votes'
  <1>1. ASSUME IInv, [Next]_vars PROVE [P]_vars
    <2> SUFFICES ASSUME Next, collector # "returned", collector' = "returned"
                 PROVE  \A n \in Nodes : node[n] = "done" => n \in votes'
      BY <1>1
    <2>1. CASE DecideStreaming
      <3>1. Len(votesCh) = 0 /\ votes' = votes
        BY <2>1 DEF DecideStreaming
      <3> QED
        BY <1>1, <3>1 DEF IInv, VotesSentOnce
    <2>2. CASE DecideTally
      BY <1>1, <2>2 DEF DecideTally, IInv, CollectorKnows
    <2> QED
      BY <2>1, <2>2 DEF Next, ReviewAnswers, ReviewFails, Send, Collect, Drain
  <1> QED
    BY <1>1, InvariantHolds, PTL DEF SafetySpec, NoVoteOvertaken
=============================================================================
