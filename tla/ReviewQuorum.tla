---------------------------- MODULE ReviewQuorum ----------------------------
(***************************************************************************)
(* ReviewAsyncQuorum and QuorumPromotion of internal/audit/quorum.go: one  *)
(* goroutine per configured reviewer answers on a buffered channel, and    *)
(* the collector decides as soon as two same-kind high-confidence votes    *)
(* have arrived.  Slots are distinct, so a vote is identified by its node. *)
(*                                                                         *)
(* The call context is not a variable: a provider whose call is cancelled  *)
(* (by a reached quorum or by the job's deadline) answers with an error or *)
(* with a reply that was already on its way, and every answer is possible  *)
(* at any time here.                                                       *)
(***************************************************************************)
EXTENDS Naturals, Sequences, FiniteSets

CONSTANTS Nodes,          \* the configured reviewers
          Confidences,    \* the confidences a provider may report
          Threshold,      \* DefaultRejectConfidence
          MaxConfidence   \* the upper end of the valid range

ASSUME QuorumAssumption ==
  /\ IsFiniteSet(Nodes)
  /\ Cardinality(Nodes) >= 3     \* asyncRuntime.process requires exactly three
  /\ Confidences \subseteq Nat
  /\ Threshold \in Nat
  /\ MaxConfidence \in Nat

VARIABLES
  node,        \* node[n]: "calling", "sending" (vote computed) or "done"
  vote,        \* vote[n]: the vote goroutine n computed
  votesCh,     \* the buffered channel, oldest vote first
  votes,       \* the nodes whose votes are in result.Votes
  passes, rejects,
  collector,   \* "collecting", "draining", "tallying" or "returned"
  result       \* QuorumResult without the votes

vars == <<node, vote, votesCh, votes, passes, rejects, collector, result>>

Results == {"pass", "reject", "uncertain", "malformed"}

Verdict == [result : Results, confidence : Confidences]

\* The vote of a reviewer that is missing, failed or has not answered.
NoVote == [err |-> TRUE]

ValidVerdict == [result : Results \ {"malformed"},
                 confidence : {c \in Confidences : c <= MaxConfidence}]

Vote == [err : {FALSE}, verdict : ValidVerdict] \cup [err : {TRUE}, verdict : Verdict]
          \cup {NoVote}

QuorumResult == [kind : {"", "trusted", "risk"}, reached : BOOLEAN, conflict : BOOLEAN]

\* ValidateAIVerdict: an unknown result or an out-of-range confidence;
\* "malformed" also stands for a missing reason or category.
ValidateAIVerdict(v) ==
  v.result \in {"pass", "reject", "uncertain"} /\ v.confidence <= MaxConfidence

\* The votes that count towards a side.
Counts(n, side) == /\ ~vote[n].err
                   /\ vote[n].verdict.confidence >= Threshold
                   /\ vote[n].verdict.result = side

One(cond) == IF cond THEN 1 ELSE 0

Decision(kind, reached, conflict) ==
  [kind |-> kind, reached |-> reached, conflict |-> conflict]

\* QuorumPromotion over the votes of the nodes in S, the batch policy the
\* streaming collector has to agree with.
QuorumPromotion(S) ==
  LET for == Cardinality({n \in S : Counts(n, "pass")})
      against == Cardinality({n \in S : Counts(n, "reject")})
  IN IF against >= 2 /\ for = 0 /\ Cardinality(Nodes) >= 3 THEN "risk"
     ELSE IF for >= 2 /\ against = 0 /\ Cardinality(Nodes) >= 3 THEN "trusted"
     ELSE ""

Init ==
  /\ node = [n \in Nodes |-> "calling"]
  /\ vote = [n \in Nodes |-> NoVote]
  /\ votesCh = <<>>
  /\ votes = {}
  /\ passes = 0 /\ rejects = 0
  /\ collector = "collecting"
  /\ result = Decision("", FALSE, FALSE)

\* Reviewer.Review returns a verdict; one that does not validate is an error.
ReviewAnswers(n, v) ==
  /\ node[n] = "calling"
  /\ vote' = [vote EXCEPT ![n] = [err |-> ~ValidateAIVerdict(v), verdict |-> v]]
  /\ node' = [node EXCEPT ![n] = "sending"]
  /\ UNCHANGED <<votesCh, votes, passes, rejects, collector, result>>

\* Reviewer.Review fails, is cancelled or runs out of time, or the node has
\* no reviewer.
ReviewFails(n) ==
  /\ node[n] = "calling"
  /\ vote' = [vote EXCEPT ![n] = NoVote]
  /\ node' = [node EXCEPT ![n] = "sending"]
  /\ UNCHANGED <<votesCh, votes, passes, rejects, collector, result>>

\* Mutant: an unbuffered channel, which needs a collector still reading.
SendUnbuffered(n) ==
  /\ node[n] = "sending"
  /\ votesCh = <<>>
  /\ collector # "returned"
  /\ votesCh' = Append(votesCh, n)
  /\ node' = [node EXCEPT ![n] = "done"]
  /\ UNCHANGED <<vote, votes, passes, rejects, collector, result>>

\* votesCh <- vote on a channel of capacity len(nodes).
Send(n) ==
  /\ node[n] = "sending"
  /\ Len(votesCh) < Cardinality(Nodes)
  /\ votesCh' = Append(votesCh, n)
  /\ node' = [node EXCEPT ![n] = "done"]
  /\ UNCHANGED <<vote, votes, passes, rejects, collector, result>>

\* Take the oldest vote from the channel and count it.
Receive ==
  LET n == Head(votesCh) IN
  /\ votesCh # <<>>
  /\ votesCh' = Tail(votesCh)
  /\ votes' = votes \cup {n}
  /\ passes' = passes + One(Counts(n, "pass"))
  /\ rejects' = rejects + One(Counts(n, "reject"))
  /\ UNCHANGED <<node, vote, result>>

Collect ==
  /\ collector = "collecting"
  /\ Receive
  /\ collector' = IF passes' >= 2 \/ rejects' >= 2 THEN "draining"
                  ELSE IF votes' = Nodes THEN "tallying" ELSE "collecting"

Drain ==
  /\ collector = "draining"
  /\ Receive
  /\ UNCHANGED collector

\* Mutant: decide at the second vote without consuming what is already there.
DecideWithoutDraining ==
  /\ collector = "draining"
  /\ result' = LET conflict == passes > 0 /\ rejects > 0
               IN Decision(IF conflict THEN "" ELSE IF passes >= 2 THEN "trusted" ELSE "risk",
                           TRUE, conflict)
  /\ collector' = "returned"
  /\ UNCHANGED <<node, vote, votesCh, votes, passes, rejects>>

\* Mutant: the side that reached two votes wins, a vote against or not.
DecideIgnoringConflict ==
  /\ collector = "draining"
  /\ votesCh = <<>>
  /\ result' = Decision(IF passes >= 2 THEN "trusted" ELSE "risk", TRUE, FALSE)
  /\ collector' = "returned"
  /\ UNCHANGED <<node, vote, votesCh, votes, passes, rejects>>

\* The select's default branch: nothing else has been produced, decide.
DecideStreaming ==
  /\ collector = "draining"
  /\ votesCh = <<>>
  /\ result' = LET conflict == passes > 0 /\ rejects > 0
               IN Decision(IF conflict THEN "" ELSE IF passes >= 2 THEN "trusted" ELSE "risk",
                           TRUE, conflict)
  /\ collector' = "returned"
  /\ UNCHANGED <<node, vote, votesCh, votes, passes, rejects>>

\* Every node has answered and neither side has two votes.
DecideTally ==
  /\ collector = "tallying"
  /\ result' = Decision(QuorumPromotion(votes), QuorumPromotion(votes) # "",
                        passes > 0 /\ rejects > 0)
  /\ collector' = "returned"
  /\ UNCHANGED <<node, vote, votesCh, votes, passes, rejects>>

Next == \/ \E n \in Nodes, v \in Verdict : ReviewAnswers(n, v)
        \/ \E n \in Nodes : ReviewFails(n) \/ Send(n)
        \/ Collect \/ Drain \/ DecideStreaming \/ DecideTally

SafetySpec == Init /\ [][Next]_vars

\* A review call returns: its HTTP client and the job's context have
\* deadlines.  Goroutines that can run are scheduled.
Fairness ==
  /\ \A n \in Nodes : /\ WF_vars(ReviewFails(n) \/ \E v \in Verdict : ReviewAnswers(n, v))
                      /\ WF_vars(Send(n))
  /\ WF_vars(Collect \/ Drain \/ DecideStreaming \/ DecideTally)

Spec == SafetySpec /\ Fairness
-----------------------------------------------------------------------------
TypeOK ==
  /\ node \in [Nodes -> {"calling", "sending", "done"}]
  /\ vote \in [Nodes -> Vote]
  /\ votesCh \in Seq(Nodes)
  /\ votes \in SUBSET Nodes
  /\ passes \in Nat /\ rejects \in Nat
  /\ collector \in {"collecting", "draining", "tallying", "returned"}
  /\ result \in QuorumResult

Supporters(kind) ==
  {n \in votes : Counts(n, IF kind = "trusted" THEN "pass" ELSE "reject")}

Opponents(kind) ==
  {n \in votes : Counts(n, IF kind = "trusted" THEN "reject" ELSE "pass")}

\* What asyncRuntime.process promotes (Reached and not Conflict) rests on two
\* valid high-confidence votes of that kind from different reviewers, and
\* on no valid vote against among those it then records.
PromotionSound ==
  result.reached /\ ~result.conflict =>
    /\ result.kind \in {"trusted", "risk"}
    /\ Cardinality(Supporters(result.kind)) >= 2
    /\ Opponents(result.kind) = {}

\* The early decision and the batch policy QuorumPromotion agree on the kind
\* for the votes the collector used, whatever order they arrived in.
StreamingAgreesWithPolicy ==
  collector = "returned" => result.kind = QuorumPromotion(votes)

\* A vote that was on the channel before the collector decided is part of
\* the decision, so an opposite vote that came in time makes a conflict.
NoVoteOvertaken ==
  [][collector # "returned" /\ collector' = "returned" =>
       \A n \in Nodes : node[n] = "done" => n \in votes']_vars

\* The collector returns and no reviewer goroutine stays blocked on the
\* channel after it has stopped reading.
EveryGoroutineEnds == <>(collector = "returned" /\ \A n \in Nodes : node[n] = "done")
=============================================================================
