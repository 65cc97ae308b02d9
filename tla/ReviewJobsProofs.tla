--------------------------- MODULE ReviewJobsProofs ---------------------------
(***************************************************************************)
(* Proofs about ReviewJobs for any finite set of fields, any limits and    *)
(* any number of crashes and failed store calls.                           *)
(***************************************************************************)
EXTENDS ReviewJobs, FiniteSetTheorems, SequenceTheorems, TLAPS

\* Between its claim and its last store call the worker has the only running
\* row it works on, and knows the attempts it had before the claim; what it has
\* committed by the place it has reached.
WorkerOK ==
  /\ worker.at # "select" => worker.hash \in Hashes
  /\ worker.at = "claim" => job[worker.hash].attempts = worker.attempts
  /\ worker.at \in {"review", "promote", "fail", "complete", "giveUp"} =>
       /\ job[worker.hash].status = "running"
       /\ job[worker.hash].attempts = worker.attempts + 1
  /\ worker.at \in {"promote", "complete"} => worker.kind \in Kinds
  /\ worker.at = "complete" => /\ worker.hash \in rules[worker.kind]
                               /\ <<worker.hash, worker.kind>> \in promotions

IInv == TypeOK /\ WorkerOK /\ ClaimableHasAttempt /\ PromotedHasRule

\* A row of the table is replaced.
LEMMA OneRow ==
  ASSUME job \in [Hashes -> Row], NEW h \in Hashes, NEW row \in Row, job' = [job EXCEPT ![h] = row]
  PROVE  /\ job' \in [Hashes -> Row] /\ job'[h] = row
         /\ \A g \in Hashes : g # h => job'[g] = job[g]
  OBVIOUS

\* Recovery requeues only rows with an attempt left and touches no settled row.
LEMMA RequeueStaleRow ==
  ASSUME NEW r \in Row, r.attempts <= MaxAttempts, MaxAttempts \in Nat
  PROVE  /\ RequeueStale(r) \in Row
         /\ RequeueStale(r).attempts = r.attempts
         /\ RequeueStale(r).promotion = r.promotion
         /\ r.status # "running" => RequeueStale(r) = r
         /\ RequeueStale(r).status \in {r.status, "completed_no_quorum", "retry_pending"}
         /\ RequeueStale(r).status = "retry_pending" /\ r.status = "running" => r.attempts < MaxAttempts
  <1>1. CASE ~(r.status = "running" /\ r.stale)
    BY <1>1 DEF RequeueStale
  <1>2. CASE r.status = "running" /\ r.stale /\ r.attempts >= MaxAttempts
    BY <1>2 DEF RequeueStale, Row, Statuses, Settled
  <1>3. CASE r.status = "running" /\ r.stale /\ ~(r.attempts >= MaxAttempts)
    <2> DEFINE q == [r EXCEPT !.status = "retry_pending", !.due = TRUE, !.stale = FALSE]
    <2>1. RequeueStale(r) = q
      BY <1>3 DEF RequeueStale
    <2>2. /\ q \in Row /\ q.attempts = r.attempts /\ q.promotion = r.promotion
          /\ q.status = "retry_pending"
      BY DEF Row, Statuses, Claimable
    <2>3. r.attempts \in Nat
      BY DEF Row
    <2>4. ~(r.attempts >= MaxAttempts)
      BY <1>3
    <2>5. r.attempts < MaxAttempts
      BY <2>3, <2>4
    <2> QED
      BY <1>3, <2>1, <2>2, <2>5
  <1> QED
    BY <1>1, <1>2, <1>3

\* The recovery never puts more jobs on the queue than it holds.
LEMMA EnqueueType ==
  ASSUME TypeOK, NEW rows \in [Hashes -> Row], EnqueueRecoverable(rows)
  PROVE  queue' \in Seq(QueuedJob) /\ Len(queue') <= QueueCap
  <1> DEFINE S == Recoverable(rows)
             room == QueueCap - Len(queue)
             n == IF Cardinality(S) < room THEN Cardinality(S) ELSE room
  <1>1. S \subseteq Hashes
    BY DEF Recoverable, ListDue
  <1>2. Cardinality(S) \in Nat
    BY <1>1, FS_Subset, FS_CardinalityType, JobsAssumption
  <1>3. room \in Nat /\ QueueCap \in Nat /\ Len(queue) \in Nat
    BY JobsAssumption DEF TypeOK
  <1>4. n \in Nat /\ n <= room
    BY <1>2, <1>3
  <1>5. PICK s \in [1..n -> S] : queue' = queue \o [i \in 1..n |-> RecoveredJob(rows, s[i])]
    BY DEF EnqueueRecoverable
  <1> DEFINE added == [i \in 1..n |-> RecoveredJob(rows, s[i])]
  <1> HIDE DEF n
  <1>6. \A h \in Hashes : RecoveredJob(rows, h) \in QueuedJob
    BY DEF RecoveredJob, QueuedJob
  <1>7. added \in [1..n -> QueuedJob]
    BY <1>1, <1>5, <1>6
  <1>8. added \in Seq(QueuedJob) /\ Len(added) = n
    BY <1>4, <1>7
  <1> HIDE DEF added
  <1>9. queue' \in Seq(QueuedJob) /\ Len(queue') = Len(queue) + n
    BY <1>5, <1>8, ConcatProperties DEF TypeOK, added
  <1> QED
    BY <1>3, <1>4, <1>9

\* A new row is queued and has every attempt left.
LEMMA NewRowType ==
  ASSUME NEW id \in Nat, NEW sample \in BOOLEAN, NEW content \in BOOLEAN
  PROVE  /\ NewRow(id, sample, content) \in Row
         /\ NewRow(id, sample, content).status = "queued"
         /\ NewRow(id, sample, content).attempts = 0
  BY DEF NewRow, Row, Statuses, Claimable

\* The tables of a new or an upgraded installation satisfy the invariant.
LEMMA InitIInv == Init => IInv
  <1> SUFFICES ASSUME Init PROVE IInv
    OBVIOUS
  <1>2. NoRow \in Row /\ NoRow.status = "absent" /\ NoRow.attempts = 0
    BY DEF NoRow, NewRow, Row, Statuses
  <1>3. PICK id \in [Legacy -> 1..Cardinality(Legacy)] :
          job = [h \in Hashes |-> IF h \in Legacy THEN NewRow(id[h], FALSE, FALSE) ELSE NoRow]
    BY DEF Init
  <1>4. \A h \in Hashes : /\ job[h] \in Row /\ job[h].status \in {"queued", "absent"}
                          /\ job[h].attempts = 0
    <2> TAKE h \in Hashes
    <2>1. CASE h \in Legacy
      <3>1. id[h] \in Nat
        <4>1. Cardinality(Legacy) \in Nat
          BY FS_Subset, FS_CardinalityType, JobsAssumption
        <4> QED
          BY <1>3, <2>1, <4>1
      <3>2. job[h] = NewRow(id[h], FALSE, FALSE)
        BY <1>3, <2>1
      <3> QED
        BY <3>1, <3>2, NewRowType
    <2>2. CASE h \notin Legacy
      BY <1>2, <1>3, <2>2
    <2> QED
      BY <2>1, <2>2
  <1>5. TypeOK
    <2>1. job \in [Hashes -> Row]
      BY <1>3, <1>4
    <2>2. worker \in Worker
      BY DEF Init, Idle, Worker, Places
    <2>3. queue \in Seq(QueuedJob) /\ Len(queue) <= QueueCap
      BY EmptySeq, JobsAssumption DEF Init
    <2>4. rules \in [Kinds -> SUBSET Hashes] /\ promotions \in SUBSET (Hashes \X Kinds)
      BY DEF Init
    <2>5. voted \in SUBSET Hashes /\ snapshot \in SUBSET Hashes /\ faults \in 0..MaxFaults
      BY JobsAssumption DEF Init
    <2>6. nodesReady \in BOOLEAN /\ traffic \in BOOLEAN
      BY DEF Init
    <2> QED
      BY <2>1, <2>2, <2>3, <2>4, <2>5, <2>6 DEF TypeOK
  <1>6. WorkerOK
    BY DEF Init, WorkerOK, Idle
  <1>7. ClaimableHasAttempt /\ PromotedHasRule
    BY <1>4, JobsAssumption DEF ClaimableHasAttempt, PromotedHasRule
  <1> QED
    BY <1>5, <1>6, <1>7 DEF IInv

\* Steps that leave the tables and the worker alone, or lose the worker's place.
LEMMA TablesUntouched ==
  ASSUME IInv, UNCHANGED store, worker' \in Worker,
         worker' \in {worker, Idle},
         queue' \in Seq(QueuedJob), Len(queue') <= QueueCap,
         nodesReady' \in BOOLEAN, snapshot' \in SUBSET Hashes, traffic' \in BOOLEAN,
         faults' \in 0..MaxFaults
  PROVE  IInv'
  <1>1. job' = job /\ rules' = rules /\ promotions' = promotions /\ voted' = voted
    BY DEF store
  <1>2. TypeOK'
    BY <1>1 DEF IInv, TypeOK
  <1>3. WorkerOK'
    <2>1. CASE worker' = worker
      BY <1>1, <2>1 DEF IInv, WorkerOK
    <2>2. CASE worker' = Idle
      BY <2>2 DEF WorkerOK, Idle
    <2> QED
      BY <2>1, <2>2
  <1> QED
    BY <1>1, <1>2, <1>3 DEF IInv, ClaimableHasAttempt, PromotedHasRule

\* A step that replaces the row of h, keeps every rule and moves the worker.
LEMMA RowStep ==
  ASSUME IInv, NEW h \in Hashes, NEW row \in Row, job' = [job EXCEPT ![h] = row],
         row.attempts <= MaxAttempts,
         row.status \in Claimable => row.attempts < MaxAttempts,
         row.status = "promoted" => /\ row.promotion \in Kinds
                                    /\ h \in rules[row.promotion]
                                    /\ <<h, row.promotion>> \in promotions,
         rules' \in [Kinds -> SUBSET Hashes], promotions' \in SUBSET (Hashes \X Kinds),
         \A k \in Kinds : rules[k] \subseteq rules'[k],
         promotions \subseteq promotions',
         worker' \in Worker, WorkerOK',
         voted' \in SUBSET Hashes, faults' \in 0..MaxFaults,
         UNCHANGED <<queue, nodesReady, snapshot, traffic>>
  PROVE  IInv'
  <1>1. /\ job' \in [Hashes -> Row] /\ job'[h] = row
        /\ \A g \in Hashes : g # h => job'[g] = job[g]
    BY OneRow DEF IInv, TypeOK
  <1>2. TypeOK'
    BY <1>1 DEF IInv, TypeOK
  <1>3. ClaimableHasAttempt'
    BY <1>1 DEF IInv, ClaimableHasAttempt
  <1>4. PromotedHasRule'
    BY <1>1 DEF IInv, PromotedHasRule
  <1> QED
    BY <1>2, <1>3, <1>4 DEF IInv

\* A step of the worker that changes no table but, perhaps, the votes.
LEMMA WorkerMoves ==
  ASSUME IInv, UNCHANGED <<job, rules, promotions>>, worker' \in Worker, WorkerOK',
         queue' \in Seq(QueuedJob), Len(queue') <= QueueCap,
         voted' \in SUBSET Hashes, snapshot' \in SUBSET Hashes, faults' \in 0..MaxFaults,
         UNCHANGED <<nodesReady, traffic>>
  PROVE  IInv'
  BY DEF IInv, TypeOK, ClaimableHasAttempt, PromotedHasRule

\* Every step of the request path and every failure preserves the invariant.
LEMMA EnvironmentIInv ==
  ASSUME IInv,
         \/ \E h \in Hashes : Submit(h) \/ BecomeDue(h) \/ BecomeStale(h)
         \/ SetTraffic \/ \E ready \in BOOLEAN : SetNodes(ready)
         \/ Crash
  PROVE  IInv'
  <1>t. TypeOK /\ WorkerOK /\ ClaimableHasAttempt /\ PromotedHasRule
    BY DEF IInv
  <1>q. /\ queue \in Seq(QueuedJob) /\ Len(queue) <= QueueCap /\ worker \in Worker
        /\ nodesReady \in BOOLEAN /\ snapshot \in SUBSET Hashes /\ traffic \in BOOLEAN
        /\ faults \in 0..MaxFaults /\ voted \in SUBSET Hashes
        /\ rules \in [Kinds -> SUBSET Hashes] /\ promotions \in SUBSET (Hashes \X Kinds)
        /\ job \in [Hashes -> Row]
    BY <1>t DEF TypeOK
  <1>w. Idle \in Worker
    BY DEF Idle, Worker, Places
  <1>f. faults < MaxFaults /\ faults' = faults + 1 => faults' \in 0..MaxFaults
    BY <1>q, JobsAssumption
  <1>1. ASSUME NEW h \in Hashes, Submit(h) PROVE IInv'
    <2> DEFINE j == [hash |-> h, content |-> TRUE]
    <2>1. j \in QueuedJob
      BY DEF QueuedJob
    <2>2. queue' = enqueue(queue, j)
      BY <1>1 DEF Submit
    <2>3. queue' \in Seq(QueuedJob) /\ Len(queue') <= QueueCap
      <3>1. CASE Len(queue) < QueueCap
        <4>1. queue' = Append(queue, j)
          BY <2>2, <3>1 DEF enqueue
        <4>2. Len(queue) \in Nat /\ QueueCap \in Nat
          BY <1>q, JobsAssumption
        <4> HIDE DEF j
        <4> QED
          BY <1>q, <2>1, <3>1, <4>1, <4>2
      <3>2. CASE ~(Len(queue) < QueueCap)
        BY <1>q, <2>2, <3>2 DEF enqueue
      <3> QED
        BY <3>1, <3>2
    <2>4. faults' \in 0..MaxFaults
      BY <1>1, <1>q, <1>f DEF Submit
    <2> QED
      BY <1>1, <1>q, <2>3, <2>4, TablesUntouched DEF Submit
  <1>2. ASSUME NEW h \in Hashes, BecomeDue(h) PROVE IInv'
    <2> DEFINE row == [job[h] EXCEPT !.due = TRUE]
    <2>1. /\ row \in Row /\ row.attempts = job[h].attempts /\ row.status = job[h].status
          /\ row.promotion = job[h].promotion
      BY <1>q DEF Row
    <2>2. job' = [job EXCEPT ![h] = row]
      BY <1>2, <1>q DEF BecomeDue
    <2>3. UNCHANGED <<rules, promotions, voted, queue, worker, nodesReady, snapshot, traffic, faults>>
      BY <1>2 DEF BecomeDue
    <2> HIDE DEF row
    <2>4. job'[h] = row /\ \A g \in Hashes : g # h => job'[g] = job[g]
      BY <1>q, <2>1, <2>2
    <2>5. WorkerOK'
      BY <1>t, <2>1, <2>3, <2>4 DEF WorkerOK
    <2>6. /\ row.attempts <= MaxAttempts
          /\ row.status \in Claimable => row.attempts < MaxAttempts
          /\ row.status = "promoted" => /\ row.promotion \in Kinds /\ h \in rules[row.promotion]
                                        /\ <<h, row.promotion>> \in promotions
      BY <1>t, <2>1 DEF ClaimableHasAttempt, PromotedHasRule
    <2> QED
      BY <1>q, <2>1, <2>2, <2>3, <2>5, <2>6, RowStep
  <1>3. ASSUME NEW h \in Hashes, BecomeStale(h) PROVE IInv'
    <2> DEFINE row == [job[h] EXCEPT !.stale = TRUE]
    <2>1. /\ row \in Row /\ row.attempts = job[h].attempts /\ row.status = job[h].status
          /\ row.promotion = job[h].promotion
      BY <1>q DEF Row
    <2>2. job' = [job EXCEPT ![h] = row]
      BY <1>3, <1>q DEF BecomeStale
    <2>3. UNCHANGED <<rules, promotions, voted, queue, worker, nodesReady, snapshot, traffic, faults>>
      BY <1>3 DEF BecomeStale
    <2> HIDE DEF row
    <2>4. job'[h] = row /\ \A g \in Hashes : g # h => job'[g] = job[g]
      BY <1>q, <2>1, <2>2
    <2>5. WorkerOK'
      BY <1>t, <2>1, <2>3, <2>4 DEF WorkerOK
    <2>6. /\ row.attempts <= MaxAttempts
          /\ row.status \in Claimable => row.attempts < MaxAttempts
          /\ row.status = "promoted" => /\ row.promotion \in Kinds /\ h \in rules[row.promotion]
                                        /\ <<h, row.promotion>> \in promotions
      BY <1>t, <2>1 DEF ClaimableHasAttempt, PromotedHasRule
    <2> QED
      BY <1>q, <2>1, <2>2, <2>3, <2>5, <2>6, RowStep
  <1>4. ASSUME SetTraffic PROVE IInv'
    <2>1. traffic' \in BOOLEAN
      BY <1>4 DEF SetTraffic
    <2> QED
      BY <1>4, <1>q, <2>1, TablesUntouched DEF SetTraffic
  <1>5. ASSUME NEW ready \in BOOLEAN, SetNodes(ready) PROVE IInv'
    BY <1>5, <1>q, TablesUntouched DEF SetNodes
  <1>6. ASSUME Crash PROVE IInv'
    <2>1. AllRules \in SUBSET Hashes
      BY <1>q DEF AllRules, Kinds
    <2>2. queue' \in Seq(QueuedJob) /\ Len(queue') <= QueueCap /\ faults' \in 0..MaxFaults
      BY <1>6, <1>f, EmptySeq, JobsAssumption DEF Crash
    <2>3. /\ UNCHANGED store /\ worker' = Idle /\ nodesReady' \in BOOLEAN
          /\ snapshot' \in SUBSET Hashes /\ traffic' \in BOOLEAN
      BY <1>6, <1>q, <2>1 DEF Crash
    <2> QED
      BY <1>w, <2>2, <2>3, TablesUntouched
  <1> QED
    BY <1>1, <1>2, <1>3, <1>4, <1>5, <1>6

\* The types of the state, as the steps below use them.
LEMMA Types ==
  ASSUME IInv
  PROVE  /\ queue \in Seq(QueuedJob) /\ Len(queue) <= QueueCap /\ worker \in Worker
         /\ snapshot \in SUBSET Hashes /\ nodesReady \in BOOLEAN /\ traffic \in BOOLEAN
         /\ faults \in 0..MaxFaults /\ voted \in SUBSET Hashes
         /\ rules \in [Kinds -> SUBSET Hashes] /\ promotions \in SUBSET (Hashes \X Kinds)
         /\ job \in [Hashes -> Row]
         /\ MaxAttempts \in Nat
         /\ faults < MaxFaults /\ faults' = faults + 1 => faults' \in 0..MaxFaults
  BY JobsAssumption DEF IInv, TypeOK

\* Whatever part of the recovery fails, it preserves the invariant.
LEMMA RecoveryIInv ==
  ASSUME IInv, RecoverDue \/ RecoverDueFails
  PROVE  IInv'
  <1>t. TypeOK /\ ClaimableHasAttempt /\ PromotedHasRule
    BY DEF IInv
  <1> DEFINE requeued == [h \in Hashes |-> RequeueStale(job[h])]
  <1>1. \A h \in Hashes : /\ job[h] \in Row /\ job[h].attempts <= MaxAttempts
    BY <1>t, Types DEF ClaimableHasAttempt
  <1>2. requeued \in [Hashes -> Row]
    BY <1>1, Types, RequeueStaleRow
  <1>3. /\ worker.at = "select" /\ job' \in {job, requeued} /\ faults' \in 0..MaxFaults
        /\ UNCHANGED <<rules, promotions, voted, worker, nodesReady, snapshot, traffic>>
    BY Types DEF RecoverDue, RecoverDueFails
  <1>4. job' \in [Hashes -> Row]
    BY <1>2, <1>3, Types
  <1>5. queue' \in Seq(QueuedJob) /\ Len(queue') <= QueueCap
    <2>1. CASE EnqueueRecoverable(job')
      BY <1>t, <1>4, <2>1, EnqueueType
    <2>2. CASE EnqueueRecoverable(job)
      BY <1>t, <2>2, EnqueueType, Types
    <2>3. CASE UNCHANGED queue
      BY <2>3, Types
    <2> QED
      BY <2>1, <2>2, <2>3 DEF RecoverDue, RecoverDueFails
  <1>6. TypeOK'
    BY <1>3, <1>4, <1>5, Types DEF TypeOK
  <1>7. WorkerOK'
    BY <1>3 DEF WorkerOK
  <1>8. \A h \in Hashes :
          /\ job'[h].attempts = job[h].attempts /\ job'[h].promotion = job[h].promotion
          /\ job'[h].status \in {job[h].status, "completed_no_quorum", "retry_pending"}
          /\ job[h].status # "running" => job'[h].status = job[h].status
          /\ job'[h].status = "retry_pending" /\ job[h].status = "running"
               => job[h].attempts < MaxAttempts
    <2>1. CASE job' = job
      BY <2>1
    <2>2. CASE job' = requeued
      <3> TAKE h \in Hashes
      <3>1. job'[h] = RequeueStale(job[h])
        BY <2>2
      <3>2. job[h] \in Row /\ job[h].attempts <= MaxAttempts
        BY <1>1
      <3> QED
        BY <3>1, <3>2, Types, RequeueStaleRow
    <2> QED
      BY <1>3, <2>1, <2>2
  <1>9. ClaimableHasAttempt'
    BY <1>8, <1>t DEF ClaimableHasAttempt, Claimable
  <1>10. PromotedHasRule'
    BY <1>3, <1>8, <1>t DEF PromotedHasRule
  <1> QED
    BY <1>6, <1>7, <1>9, <1>10 DEF IInv

\* Every store call of process preserves the invariant.
LEMMA WorkerIInv ==
  ASSUME IInv, Dequeue \/ WorkerStep \/ StoreFails
  PROVE  IInv'
  <1>t. TypeOK /\ WorkerOK /\ ClaimableHasAttempt /\ PromotedHasRule
    BY DEF IInv
  <1> USE Types
  <1>w. Idle \in Worker /\ Idle.at = "select"
    BY DEF Idle, Worker, Places
  <1> DEFINE h == worker.hash
  <1>1. ASSUME Dequeue PROVE IInv'
    <2>1. Head(queue) \in QueuedJob /\ Tail(queue) \in Seq(QueuedJob)
          /\ Len(Tail(queue)) <= QueueCap
      <3>1. queue # <<>> /\ QueueCap \in Nat
        BY <1>1, JobsAssumption DEF Dequeue
      <3>2. Len(Tail(queue)) = Len(queue) - 1 /\ Len(queue) \in Nat
        BY <3>1
      <3> QED
        BY <3>1, <3>2
    <2> DEFINE w == [Idle EXCEPT !.at = "create", !.hash = Head(queue).hash,
                                 !.content = Head(queue).content]
    <2>2. w \in Worker /\ w.at = "create" /\ w.hash \in Hashes
      BY <2>1 DEF QueuedJob, Idle, Worker, Places
    <2>3. /\ worker' \in {w, worker} /\ worker.at = "select" /\ UNCHANGED store
          /\ queue' = Tail(queue) /\ UNCHANGED <<nodesReady, snapshot, traffic, faults>>
      BY <1>1 DEF Dequeue
    <2> HIDE DEF w
    <2>4. worker' \in Worker /\ WorkerOK'
      BY <2>2, <2>3 DEF WorkerOK
    <2> QED
      BY <2>1, <2>3, <2>4, WorkerMoves DEF store
  <1>2. ASSUME CreateReviewJob PROVE IInv'
    <2>1. worker.at = "create" /\ h \in Hashes /\ job[h] \in Row /\ worker.content \in BOOLEAN
      BY <1>2, <1>t DEF CreateReviewJob, WorkerOK, Worker
    <2> DEFINE id == Cardinality({g \in Hashes : job[g].status # "absent"}) + 1
               filled == [job[h] EXCEPT !.sample = TRUE, !.content = @ \/ worker.content,
                                        !.stale = FALSE]
               row == IF job[h].status = "absent" THEN NewRow(id, TRUE, worker.content) ELSE filled
               next == [worker EXCEPT !.at = "claim", !.attempts = row.attempts,
                                      !.content = row.content \/ h \notin Sampled]
    <2>2. id \in Nat
      <3>1. {g \in Hashes : job[g].status # "absent"} \subseteq Hashes
        OBVIOUS
      <3>2. Cardinality({g \in Hashes : job[g].status # "absent"}) \in Nat
        BY <3>1, FS_Subset, FS_CardinalityType, JobsAssumption
      <3> QED
        BY <3>2
    <2>3. /\ NewRow(id, TRUE, worker.content) \in Row
          /\ NewRow(id, TRUE, worker.content).status = "queued"
          /\ NewRow(id, TRUE, worker.content).attempts = 0
      BY <2>1, <2>2, NewRowType
    <2>4. /\ filled \in Row /\ filled.status = job[h].status
          /\ filled.attempts = job[h].attempts /\ filled.promotion = job[h].promotion
      BY <2>1 DEF Row
    <2>5. /\ job' = [job EXCEPT ![h] = row]
          /\ worker' = IF row.status \in Settled THEN Idle ELSE next
          /\ UNCHANGED <<rules, promotions, voted, queue, nodesReady, snapshot, traffic, faults>>
      BY <1>2 DEF CreateReviewJob
    <2> HIDE DEF id, filled
    <2>6. row \in Row /\ row.attempts \in Nat
      <3>1. row \in Row
        BY <2>3, <2>4
      <3> QED
        BY <3>1 DEF Row
    <2>7. /\ row.attempts <= MaxAttempts
          /\ row.status \in Claimable => row.attempts < MaxAttempts
          /\ row.status = "promoted" => /\ row.promotion \in Kinds /\ h \in rules[row.promotion]
                                        /\ <<h, row.promotion>> \in promotions
      <3>1. CASE job[h].status = "absent"
        <4>1. row = NewRow(id, TRUE, worker.content)
          BY <3>1
        <4> HIDE DEF row
        <4>2. row.attempts = 0 /\ row.status # "promoted"
          BY <2>3, <4>1
        <4>3. 0 <= MaxAttempts /\ 0 < MaxAttempts
          BY JobsAssumption
        <4> QED
          BY <4>2, <4>3
      <3>2. CASE job[h].status # "absent"
        BY <1>t, <2>1, <2>4, <3>2 DEF ClaimableHasAttempt, PromotedHasRule
      <3> QED
        BY <3>1, <3>2
    <2> HIDE DEF row
    <2>8. next \in Worker /\ next.at = "claim" /\ next.hash = h /\ next.attempts = row.attempts
      BY <2>6 DEF Worker, Places
    <2> HIDE DEF next
    <2>9. job'[h] = row
      BY <2>1, <2>5
    <2>10. worker' \in Worker /\ WorkerOK'
      BY <1>w, <2>1, <2>5, <2>8, <2>9 DEF WorkerOK
    <2> HIDE DEF h
    <2> QED
      BY <2>1, <2>5, <2>6, <2>7, <2>10, RowStep
  <1>h. worker.at # "select" => h \in Hashes /\ job[h] \in Row /\ job[h].attempts \in Nat
    BY <1>t DEF WorkerOK, Row
  <1>m. ASSUME NEW place \in Places
        PROVE  /\ [worker EXCEPT !.at = place] \in Worker
               /\ [worker EXCEPT !.at = place].at = place
               /\ [worker EXCEPT !.at = place].hash = worker.hash
               /\ [worker EXCEPT !.at = place].attempts = worker.attempts
               /\ [worker EXCEPT !.at = place].kind = worker.kind
    BY DEF Worker
  <1>3. ASSUME ClaimReviewJob PROVE IInv'
    <2> DEFINE claimed == /\ job[h].status \in Claimable /\ job[h].due
                          /\ job[h].attempts < MaxAttempts
               row == [job[h] EXCEPT !.status = "running", !.attempts = @ + 1, !.stale = FALSE]
    <2>1. worker.at = "claim" /\ job[h].attempts = worker.attempts
      BY <1>3, <1>t DEF ClaimReviewJob, WorkerOK
    <2>2. CASE claimed
      <3>1. /\ row \in Row /\ row.status = "running" /\ row.attempts = job[h].attempts + 1
        <4> DEFINE r == job[h]
                   n == r.attempts + 1
        <4>1. n \in Nat /\ r \in Row
          BY <1>h, <2>1
        <4>2. row = [r EXCEPT !.status = "running", !.attempts = n, !.stale = FALSE]
          BY <4>1 DEF Row
        <4> HIDE DEF r, n, row
        <4>3. row \in Row /\ row.status = "running" /\ row.attempts = n
          BY <4>1, <4>2 DEF Row, Statuses
        <4> QED
          BY <4>3 DEF r, n
      <3>2. /\ job' = [job EXCEPT ![h] = row] /\ worker' = [worker EXCEPT !.at = "review"]
            /\ UNCHANGED <<rules, promotions, voted, queue, nodesReady, snapshot, traffic, faults>>
        BY <1>3, <1>h, <2>1, <2>2 DEF ClaimReviewJob
      <3>3. row.attempts <= MaxAttempts /\ row.status \notin Claimable /\ row.status # "promoted"
        BY <1>h, <2>1, <2>2, <3>1 DEF Claimable
      <3> HIDE DEF row
      <3>4. job'[h] = row
        BY <1>h, <2>1, <3>2
      <3>5. "review" \in Places
        BY DEF Places
      <3>6. worker' \in Worker /\ WorkerOK'
        BY <1>h, <1>m, <2>1, <3>1, <3>2, <3>4, <3>5 DEF WorkerOK
      <3> HIDE DEF h
      <3> QED
        BY <1>h, <2>1, <3>1, <3>2, <3>3, <3>6, RowStep
    <2>3. CASE ~claimed
      <3>1. /\ worker' = Idle
            /\ UNCHANGED <<job, rules, promotions, voted, queue, nodesReady, snapshot, traffic, faults>>
        BY <1>3, <2>3 DEF ClaimReviewJob
      <3> QED
        BY <1>w, <3>1, TablesUntouched DEF store
    <2> QED
      BY <2>2, <2>3
  <1>4. ASSUME NEW kind \in Kinds \cup {""}, Review(kind) PROVE IInv'
    <2> DEFINE place == IF kind = "" THEN "giveUp" ELSE "promote"
               w == [worker EXCEPT !.at = place, !.kind = kind]
    <2>1. worker.at = "review" /\ worker' = w
          /\ UNCHANGED <<job, rules, promotions, queue, nodesReady, snapshot, traffic>>
      BY <1>4 DEF Review
    <2>2. /\ w \in Worker /\ w.at = place /\ w.hash = h /\ w.attempts = worker.attempts
          /\ w.kind = kind
      BY DEF Worker, Places
    <2>3. place \in {"giveUp", "promote"} /\ (place = "promote" => kind \in Kinds)
      OBVIOUS
    <2>4. voted' \in SUBSET Hashes /\ faults' \in 0..MaxFaults
      BY <1>4, <1>h DEF Review
    <2> HIDE DEF w, place
    <2>5. WorkerOK'
      BY <1>t, <1>h, <2>1, <2>2, <2>3 DEF WorkerOK
    <2> QED
      BY <2>1, <2>2, <2>4, <2>5, WorkerMoves
  <1>5. ASSUME PromoteHash PROVE IInv'
    <2> DEFINE k == worker.kind
               row == [job[h] EXCEPT !.content = FALSE]
    <2>1. worker.at = "promote" /\ k \in Kinds /\ h \in Hashes
      BY <1>5, <1>t, <1>h DEF PromoteHash, WorkerOK
    <2>2. /\ row \in Row /\ row.status = job[h].status /\ row.attempts = job[h].attempts
          /\ row.promotion = job[h].promotion
      BY <1>h, <2>1 DEF Row
    <2>3. /\ job' = [job EXCEPT ![h] = row] /\ rules' = [rules EXCEPT ![k] = @ \cup {h}]
          /\ promotions' = promotions \cup {<<h, k>>}
          /\ worker' = [worker EXCEPT !.at = "complete"]
          /\ UNCHANGED <<voted, queue, nodesReady, snapshot, traffic, faults>>
      BY <1>5, <1>h, <2>1 DEF PromoteHash
    <2> HIDE DEF row
    <2>4. job[h].status = "running" /\ job[h].attempts = worker.attempts + 1 /\ job'[h] = row
      BY <1>t, <1>h, <2>1, <2>3 DEF WorkerOK
    <2>5. /\ row.attempts <= MaxAttempts /\ row.status \notin Claimable
          /\ row.status # "promoted"
      BY <1>t, <2>1, <2>2, <2>4 DEF ClaimableHasAttempt, Claimable
    <2>6. /\ rules' \in [Kinds -> SUBSET Hashes] /\ h \in rules'[k]
          /\ \A l \in Kinds : rules[l] \subseteq rules'[l]
          /\ promotions' \in SUBSET (Hashes \X Kinds) /\ <<h, k>> \in promotions'
          /\ promotions \subseteq promotions'
      BY <2>1, <2>3
    <2>7. "complete" \in Places
      BY DEF Places
    <2>8. worker' \in Worker /\ WorkerOK'
      BY <1>m, <2>1, <2>2, <2>3, <2>4, <2>6, <2>7 DEF WorkerOK
    <2> HIDE DEF h, k
    <2> QED
      BY <2>1, <2>2, <2>3, <2>5, <2>6, <2>8, RowStep
  <1>6. ASSUME PromoteRefused PROVE IInv'
    <2>1. "fail" \in Places
      BY DEF Places
    <2>2. /\ worker.at = "promote" /\ worker' = [worker EXCEPT !.at = "fail"]
          /\ UNCHANGED <<job, rules, promotions, voted, queue, nodesReady, snapshot, traffic, faults>>
      BY <1>6 DEF PromoteRefused, store
    <2>3. worker' \in Worker /\ WorkerOK'
      BY <1>t, <1>m, <2>1, <2>2 DEF WorkerOK
    <2> QED
      BY <2>2, <2>3, WorkerMoves
  <1>c. ASSUME NEW status \in Settled, NEW kind \in Kinds \cup {""},
               NEW next \in {Idle, [worker EXCEPT !.at = "reload"]},
               worker.at \in {"fail", "complete", "giveUp"},
               status = "promoted" => worker.at = "complete" /\ kind = worker.kind,
               CompleteReviewJob(status, kind, next)
        PROVE  IInv'
    <2> DEFINE row == [job[h] EXCEPT !.status = status, !.promotion = kind]
    <2>1. h \in Hashes /\ job[h].status = "running" /\ job[h] \in Row
      BY <1>t, <1>h, <1>c DEF WorkerOK
    <2>2. /\ row \in Row /\ row.status = status /\ row.attempts = job[h].attempts
          /\ row.promotion = kind
      BY <1>c, <2>1 DEF Row, Statuses
    <2>3. /\ job' = [job EXCEPT ![h] = row] /\ worker' = next
          /\ UNCHANGED <<rules, promotions, voted, queue, nodesReady, snapshot, traffic, faults>>
      BY <1>c, <2>1 DEF CompleteReviewJob
    <2> HIDE DEF row
    <2>4. /\ row.attempts <= MaxAttempts /\ row.status \notin Claimable
      BY <1>t, <1>c, <2>1, <2>2 DEF ClaimableHasAttempt, Claimable, Settled
    <2>5. row.status = "promoted" => /\ row.promotion \in Kinds /\ h \in rules[row.promotion]
                                     /\ <<h, row.promotion>> \in promotions
      BY <1>t, <1>c, <2>2 DEF WorkerOK
    <2>6. "reload" \in Places
      BY DEF Places
    <2>7. /\ next \in Worker /\ next.at \in {"select", "reload"}
          /\ (next.at = "reload" => next.hash = h)
      BY <1>w, <1>m, <1>c, <2>6
    <2>8. worker' \in Worker /\ WorkerOK'
      BY <2>1, <2>3, <2>7 DEF WorkerOK
    <2> HIDE DEF h
    <2> QED
      BY <2>1, <2>2, <2>3, <2>4, <2>5, <2>8, RowStep
  <1>7. ASSUME CompletePromoted PROVE IInv'
    <2>1. worker.at = "complete" /\ worker.kind \in Kinds /\ "promoted" \in Settled
      BY <1>7, <1>t DEF CompletePromoted, WorkerOK, Settled
    <2>2. CompleteReviewJob("promoted", worker.kind, [worker EXCEPT !.at = "reload"])
      BY <1>7 DEF CompletePromoted
    <2> QED
      BY <1>c, <2>1, <2>2
  <1>8. ASSUME CompleteFailed PROVE IInv'
    <2>1. /\ worker.at = "fail" /\ "failed" \in Settled /\ "failed" # "promoted"
          /\ CompleteReviewJob("failed", "", Idle)
      BY <1>8 DEF CompleteFailed, Settled
    <2> QED
      BY <1>c, <2>1
  <1>9. ASSUME GiveUp PROVE IInv'
    <2>1. /\ worker.at = "giveUp" /\ h \in Hashes /\ job[h].status = "running"
          /\ job[h].attempts = worker.attempts + 1 /\ job[h] \in Row
      BY <1>9, <1>t, <1>h DEF GiveUp, WorkerOK
    <2>2. CASE CompleteReviewJob("completed_no_quorum", "", Idle)
      <3>1. "completed_no_quorum" \in Settled /\ "completed_no_quorum" # "promoted"
        BY DEF Settled
      <3> QED
        BY <1>c, <2>1, <2>2, <3>1
    <2>3. CASE /\ worker.attempts + 1 < MaxAttempts
               /\ job' = [job EXCEPT ![worker.hash].status = "retry_pending",
                                     ![worker.hash].due = FALSE, ![worker.hash].stale = FALSE]
               /\ worker' = Idle
               /\ UNCHANGED <<rules, promotions, voted, queue, nodesReady, snapshot, traffic, faults>>
      <3> DEFINE row == [job[h] EXCEPT !.status = "retry_pending", !.due = FALSE, !.stale = FALSE]
      <3>1. row \in Row /\ row.status = "retry_pending" /\ row.attempts = job[h].attempts
        BY <2>1 DEF Row, Statuses, Claimable
      <3>2. job' = [job EXCEPT ![h] = row]
        BY <2>1, <2>3
      <3> HIDE DEF row
      <3>3. /\ row.attempts < MaxAttempts /\ row.attempts <= MaxAttempts
            /\ row.status # "promoted"
        BY <1>t, <2>1, <2>3, <3>1 DEF ClaimableHasAttempt
      <3>4. WorkerOK'
        BY <1>w, <2>3 DEF WorkerOK
      <3> HIDE DEF h
      <3> QED
        BY <1>w, <2>1, <2>3, <3>1, <3>2, <3>3, <3>4, RowStep
    <2> QED
      BY <1>9, <2>2, <2>3 DEF GiveUp
  <1>10. ASSUME Reload PROVE IInv'
    <2>1. AllRules \in SUBSET Hashes
      BY DEF AllRules, Kinds
    <2>2. /\ worker' = Idle /\ snapshot' = AllRules /\ UNCHANGED store
          /\ UNCHANGED <<queue, nodesReady, traffic, faults>>
      BY <1>10 DEF Reload
    <2> QED
      BY <1>w, <2>1, <2>2, TablesUntouched
  <1>11. ASSUME StoreFails PROVE IInv'
    <2>1. faults' \in 0..MaxFaults /\ UNCHANGED store
          /\ UNCHANGED <<queue, nodesReady, snapshot, traffic>>
      BY <1>11 DEF StoreFails
    <2>2. CASE worker.at = "promote"
      <3>1. worker' = [worker EXCEPT !.at = "fail"] /\ "fail" \in Places
        BY <1>11, <2>2 DEF StoreFails, Places
      <3>2. worker' \in Worker /\ WorkerOK'
        BY <1>t, <1>m, <2>1, <2>2, <3>1 DEF WorkerOK, store
      <3> QED
        BY <2>1, <3>2, WorkerMoves DEF store
    <2>3. CASE worker.at = "complete"
      <3>1. worker' = [worker EXCEPT !.at = "reload"] /\ "reload" \in Places
        BY <1>11, <2>3 DEF StoreFails, Places
      <3>2. worker' \in Worker /\ WorkerOK'
        BY <1>t, <1>m, <2>1, <2>3, <3>1 DEF WorkerOK, store
      <3> QED
        BY <2>1, <3>2, WorkerMoves DEF store
    <2>4. CASE worker.at \notin {"promote", "complete"}
      <3>1. worker' = Idle
        BY <1>11, <2>4 DEF StoreFails
      <3> QED
        BY <1>w, <2>1, <3>1, TablesUntouched
    <2> QED
      BY <2>2, <2>3, <2>4
  <1> QED
    BY <1>1, <1>2, <1>3, <1>4, <1>5, <1>6, <1>7, <1>8, <1>9, <1>10, <1>11 DEF WorkerStep

\* The three lemmas above cover every step of the pipeline.
LEMMA NextIInv == IInv /\ [Next]_vars => IInv'
  <1>1. ASSUME IInv, Next PROVE IInv'
    BY <1>1, EnvironmentIInv, RecoveryIInv, WorkerIInv DEF Next
  <1>2. ASSUME IInv, UNCHANGED vars PROVE IInv'
    BY <1>2 DEF vars, store, IInv, TypeOK, WorkerOK, ClaimableHasAttempt, PromotedHasRule
  <1> QED
    BY <1>1, <1>2

\* The invariant holds at every step of the pipeline, whatever crashes or fails.
THEOREM InvariantHolds == SafetySpec => []IInv
  BY InitIInv, NextIInv, PTL DEF SafetySpec

\* The tables, the queue within its capacity and the worker keep their types.
THEOREM TypeCorrect == SafetySpec => []TypeOK
  <1>1. IInv => TypeOK
    BY DEF IInv
  <1> QED
    BY <1>1, InvariantHolds, PTL

\* No job is stranded: a row waiting to be claimed always has an attempt left,
\* for any maximum and any number of crashes between the claim and the retry.
THEOREM NoStrandedJob == SafetySpec => []ClaimableHasAttempt
  <1>1. IInv => ClaimableHasAttempt
    BY DEF IInv
  <1> QED
    BY <1>1, InvariantHolds, PTL

\* A job marked promoted has its rule and its promotion record committed.
THEOREM PromotionsBacked == SafetySpec => []PromotedHasRule
  <1>1. IInv => PromotedHasRule
    BY DEF IInv
  <1> QED
    BY <1>1, InvariantHolds, PTL

\* What a step may do to settled rows.
SettledKept ==
  \A h \in Hashes : job[h].status \in Settled => job'[h].status = job[h].status

\* The worker writes only a row it has claimed or has just created.
LEMMA OneRowSettled ==
  ASSUME job \in [Hashes -> Row], NEW h \in Hashes, NEW row, job' = [job EXCEPT ![h] = row],
         job[h].status \in Settled => row.status = job[h].status
  PROVE  SettledKept
  BY DEF SettledKept

\* No step reopens a settled row.
LEMMA NextSettled ==
  ASSUME IInv, Next
  PROVE  SettledKept
  <1>t. WorkerOK /\ ClaimableHasAttempt
    BY DEF IInv
  <1> USE Types
  <1> DEFINE h == worker.hash
  <1>r. "running" \notin Settled /\ "absent" \notin Settled /\ Claimable \cap Settled = {}
    BY DEF Settled, Claimable
  <1>u. ASSUME job' = job PROVE SettledKept
    BY <1>u DEF SettledKept
  <1>1. ASSUME NEW g \in Hashes, BecomeDue(g) PROVE SettledKept
    <2> DEFINE row == [job[g] EXCEPT !.due = TRUE]
    <2>1. job' = [job EXCEPT ![g] = row]
      BY <1>1 DEF BecomeDue
    <2>2. row.status = job[g].status
      BY DEF Row
    <2> HIDE DEF row
    <2> QED
      BY <2>1, <2>2, OneRowSettled
  <1>2. ASSUME NEW g \in Hashes, BecomeStale(g) PROVE SettledKept
    <2> DEFINE row == [job[g] EXCEPT !.stale = TRUE]
    <2>1. job' = [job EXCEPT ![g] = row]
      BY <1>2 DEF BecomeStale
    <2>2. row.status = job[g].status
      BY DEF Row
    <2> HIDE DEF row
    <2> QED
      BY <2>1, <2>2, OneRowSettled
  <1>3. ASSUME RecoverDue \/ RecoverDueFails PROVE SettledKept
    <2>1. job' = job \/ job' = [g \in Hashes |-> RequeueStale(job[g])]
      BY <1>3 DEF RecoverDue, RecoverDueFails
    <2>2. ASSUME job' = [g \in Hashes |-> RequeueStale(job[g])] PROVE SettledKept
      <3>1. \A g \in Hashes : job[g].status # "running" => job'[g] = job[g]
        BY <1>t, <2>2, RequeueStaleRow DEF ClaimableHasAttempt
      <3> QED
        BY <1>r, <3>1 DEF SettledKept
    <2> QED
      BY <1>u, <2>1, <2>2
  <1>4. ASSUME CreateReviewJob PROVE SettledKept
    <2>1. h \in Hashes
      BY <1>4, <1>t DEF CreateReviewJob, WorkerOK
    <2> DEFINE filled == [job[h] EXCEPT !.sample = TRUE, !.content = @ \/ worker.content,
                                        !.stale = FALSE]
    <2>2. filled.status = job[h].status
      BY <2>1 DEF Row
    <2>3. PICK row : /\ job' = [job EXCEPT ![h] = row]
                     /\ job[h].status # "absent" => row = filled
      BY <1>4 DEF CreateReviewJob
    <2> HIDE DEF filled
    <2>4. job[h].status \in Settled => row.status = job[h].status
      BY <1>r, <2>2, <2>3
    <2> HIDE DEF h
    <2> QED
      BY <2>1, <2>3, <2>4, OneRowSettled
  <1>5. ASSUME ClaimReviewJob PROVE SettledKept
    <2>1. h \in Hashes
      BY <1>5, <1>t DEF ClaimReviewJob, WorkerOK
    <2>2. CASE job[h].status \in Claimable
      <3>1. \A g \in Hashes : g # h => job'[g] = job[g]
        BY <1>5, <2>1 DEF ClaimReviewJob
      <3> QED
        BY <1>r, <2>2, <3>1 DEF SettledKept
    <2>3. CASE job[h].status \notin Claimable
      BY <1>5, <1>u, <2>3 DEF ClaimReviewJob
    <2> QED
      BY <2>2, <2>3
  <1>6. ASSUME PromoteHash \/ CompletePromoted \/ CompleteFailed \/ GiveUp PROVE SettledKept
    <2>1. h \in Hashes /\ job[h].status = "running"
      BY <1>6, <1>t DEF PromoteHash, CompletePromoted, CompleteFailed, GiveUp, WorkerOK
    <2>2. \A g \in Hashes : g # h => job'[g] = job[g]
      BY <1>6, <2>1
      DEF PromoteHash, CompletePromoted, CompleteFailed, GiveUp, CompleteReviewJob
    <2> QED
      BY <1>r, <2>1, <2>2 DEF SettledKept
  <1>7. ASSUME \/ \E g \in Hashes : Submit(g)
               \/ \E ready \in BOOLEAN : SetNodes(ready)
               \/ SetTraffic \/ Dequeue \/ PromoteRefused \/ Reload \/ StoreFails \/ Crash
               \/ \E kind \in Kinds \cup {""} : Review(kind)
        PROVE  SettledKept
    <2>1. job' = job
      BY <1>7 DEF Submit, SetNodes, SetTraffic, Dequeue, PromoteRefused, Reload, StoreFails,
                  Crash, Review, store
    <2> QED
      BY <1>u, <2>1
  <1> QED
    BY <1>1, <1>2, <1>3, <1>4, <1>5, <1>6, <1>7 DEF Next, WorkerStep

\* A settled job is never reopened, by a duplicate, a retry or the recovery.
THEOREM SettledForGood == SafetySpec => SettledIsFinal
  <1>1. IInv /\ [Next]_vars =>
          [\A h \in Hashes : job[h].status \in Settled => job'[h].status = job[h].status]_vars
    BY NextSettled DEF SettledKept
  <1> QED
    BY <1>1, InvariantHolds, PTL DEF SafetySpec, SettledIsFinal
-----------------------------------------------------------------------------
(* Promotions without faults.                                              *)

\* The places at which the worker has its row running.
Busy == {"review", "promote", "fail", "complete", "giveUp"}

\* Only the worker's own row is running, so the recovery finds nothing to
\* requeue behind its back; a hash is promoted by the job that settles as
\* promoted, once, with its votes stored.
PromotionState ==
  /\ \A h \in Hashes : job[h].status = "running" => worker.hash = h /\ worker.at \in Busy
  /\ \A h \in Hashes, k \in Kinds : <<h, k>> \in promotions =>
       /\ h \in voted
       /\ job[h].status = "promoted" \/ (worker.at = "complete" /\ worker.hash = h)
       /\ \A l \in Kinds : <<h, l>> \in promotions => k = l
  /\ worker.at \in {"promote", "complete"} => worker.hash \in voted

PromotionInv == faults = 0 => PromotionState

\* Nothing is running and nothing is promoted at first.
LEMMA InitPromotion == Init => PromotionInv
  <1> SUFFICES ASSUME Init PROVE PromotionState
    BY DEF PromotionInv
  <1>1. promotions = {} /\ worker.at = "select"
    BY DEF Init, Idle
  <1>2. PICK id \in [Legacy -> 1..Cardinality(Legacy)] :
          job = [h \in Hashes |-> IF h \in Legacy THEN NewRow(id[h], FALSE, FALSE) ELSE NoRow]
    BY DEF Init
  <1>3. \A h \in Hashes : job[h].status \in {"queued", "absent"}
    BY <1>2 DEF NewRow, NoRow
  <1> QED
    BY <1>1, <1>3 DEF PromotionState

\* A step that keeps the status of every row, the promotions and the votes, with
\* the worker where it is or between two jobs.
LEMMA StatusKept ==
  ASSUME IInv, PromotionState,
         \A h \in Hashes : job'[h].status = job[h].status,
         promotions' = promotions, voted' = voted,
         worker' = worker \/ (worker.at \notin Busy /\ worker'.at \notin Busy)
  PROVE  PromotionState'
  BY DEF PromotionState, Busy

\* A step of the worker on its row h.
LEMMA StatusStep ==
  ASSUME IInv, PromotionState, NEW h \in Hashes, NEW status, worker.hash = h,
         job'[h].status = status, \A g \in Hashes : g # h => job'[g] = job[g],
         job[h].status # "promoted",
         promotions' = promotions, voted \subseteq voted',
         worker.at # "complete" \/ status = "promoted",
         status = "running" => worker'.hash = h /\ worker'.at \in Busy \ {"complete"},
         worker.at \notin Busy \/ job[h].status = "running" \/ worker'.hash = h,
         worker'.at = "promote" => worker'.hash \in voted',
         worker'.at # "complete"
  PROVE  PromotionState'
  BY DEF PromotionState, Busy

\* Every store call of process, if it does not fail.
LEMMA WorkerPromotion ==
  ASSUME IInv, PromotionState, WorkerStep, faults' = 0
  PROVE  PromotionState'
  <1> DEFINE h == worker.hash
  <1>t. /\ TypeOK /\ WorkerOK /\ job \in [Hashes -> Row] /\ worker \in Worker
        /\ promotions \in SUBSET (Hashes \X Kinds)
    BY Types DEF IInv
  <1>h. worker.at # "select" => h \in Hashes
    BY <1>t DEF WorkerOK
  <1>i. Idle.at = "select"
    BY DEF Idle
  <1>n. faults' # faults + 1
    <2>1. faults \in Nat
      BY Types
    <2> QED BY <2>1
  <1>1. CASE CreateReviewJob
    <2>1. worker.at = "create" /\ promotions' = promotions /\ voted' = voted
      BY <1>1 DEF CreateReviewJob
    <2>2. worker'.at \in {"select", "claim"}
      BY <1>1, <1>t, <1>i DEF CreateReviewJob, Worker
    <2>3. CASE job[h].status = "absent"
      <3>1. /\ job'[h].status = "queued"
            /\ \A g \in Hashes : g # h => job'[g] = job[g]
        BY <1>1, <1>t, <1>h, <2>1, <2>3 DEF CreateReviewJob, NewRow
      <3> HIDE DEF h
      <3> QED
        BY <1>h, <2>1, <2>2, <2>3, <3>1, StatusStep DEF Busy, h
    <2>4. CASE job[h].status # "absent"
      <3> DEFINE filled == [job[h] EXCEPT !.sample = TRUE, !.content = @ \/ worker.content,
                                          !.stale = FALSE]
      <3>1. filled.status = job[h].status
        BY <1>t, <1>h, <2>1 DEF Row
      <3>2. job' = [job EXCEPT ![h] = filled]
        BY <1>1, <2>4 DEF CreateReviewJob
      <3> HIDE DEF filled
      <3>3. \A g \in Hashes : job'[g].status = job[g].status
        BY <1>t, <1>h, <2>1, <3>1, <3>2
      <3> QED
        BY <2>1, <2>2, <3>3, StatusKept DEF Busy
    <2> QED BY <2>3, <2>4
  <1>2. CASE ClaimReviewJob
    <2>1. worker.at = "claim" /\ promotions' = promotions /\ voted' = voted
      BY <1>2 DEF ClaimReviewJob
    <2>2. CASE job' = job /\ worker' = Idle
      BY <1>i, <2>1, <2>2, StatusKept DEF Busy
    <2>3. CASE /\ job[h].status \in Claimable
               /\ job' = [job EXCEPT ![h].status = "running", ![h].attempts = @ + 1,
                                     ![h].stale = FALSE]
               /\ worker' = [worker EXCEPT !.at = "review"]
      <3>1. /\ job'[h].status = "running" /\ job[h].status # "promoted"
            /\ \A g \in Hashes : g # h => job'[g] = job[g]
        BY <1>t, <1>h, <2>1, <2>3 DEF Row, Claimable
      <3>2. worker'.at = "review" /\ worker'.hash = h
        BY <1>t, <2>3 DEF Worker
      <3> HIDE DEF h
      <3> QED
        BY <1>h, <2>1, <3>1, <3>2, StatusStep DEF Busy, h
    <2> QED BY <1>2, <2>2, <2>3 DEF ClaimReviewJob
  <1>r. worker.at \in Busy => job[h].status = "running"
    BY <1>t DEF WorkerOK, Busy
  <1>3. ASSUME NEW kind \in Kinds \cup {""}, Review(kind) PROVE PromotionState'
    <2>1. worker.at = "review" /\ promotions' = promotions /\ job' = job
      BY <1>3 DEF Review
    <2>2. worker'.at \in {"giveUp", "promote"} /\ worker'.hash = h
      BY <1>3, <1>t DEF Review, Worker
    <2>3. voted' = voted \cup {h}
      BY <1>3, <1>n DEF Review
    <2>4. job'[h].status = "running" /\ job[h].status # "promoted"
      BY <1>r, <2>1 DEF Busy
    <2> HIDE DEF h
    <2> QED
      BY <1>h, <2>1, <2>2, <2>3, <2>4, StatusStep DEF Busy, h
  <1>4. CASE PromoteRefused
    <2>1. worker.at = "promote" /\ promotions' = promotions /\ job' = job /\ voted' = voted
      BY <1>4 DEF PromoteRefused, store
    <2>2. worker'.at = "fail" /\ worker'.hash = h
      BY <1>4, <1>t DEF PromoteRefused, Worker
    <2>3. job'[h].status = "running" /\ job[h].status # "promoted"
      BY <1>r, <2>1 DEF Busy
    <2> HIDE DEF h
    <2> QED
      BY <1>h, <2>1, <2>2, <2>3, StatusStep DEF Busy, h
  <1>5. CASE PromoteHash
    <2>1. /\ worker.at = "promote" /\ voted' = voted /\ h \in Hashes /\ worker.kind \in Kinds
          /\ promotions' = promotions \cup {<<h, worker.kind>>}
          /\ job[h].status = "running" /\ h \in voted
      BY <1>5, <1>h, <1>r, <1>t DEF PromoteHash, Busy, WorkerOK, PromotionState
    <2>2. worker'.at = "complete" /\ worker'.hash = h
      BY <1>5, <1>t DEF PromoteHash, Worker
    <2>3. \A g \in Hashes : job'[g].status = job[g].status
      BY <1>5, <1>t, <2>1 DEF PromoteHash, Row
    <2>4. \A k \in Kinds : <<h, k>> \notin promotions
      BY <2>1 DEF PromotionState
    <2> HIDE DEF h
    <2>5. \A g \in Hashes, k \in Kinds : <<g, k>> \in promotions' =>
            \/ g # h /\ <<g, k>> \in promotions
            \/ g = h /\ k = worker.kind
      BY <2>1, <2>4
    <2>6. \A g \in Hashes : job'[g].status = "running" => worker'.hash = g /\ worker'.at \in Busy
      BY <2>1, <2>2, <2>3 DEF PromotionState, Busy, h
    <2>7. \A g \in Hashes, k \in Kinds : <<g, k>> \in promotions' =>
            /\ g \in voted'
            /\ job'[g].status = "promoted" \/ (worker'.at = "complete" /\ worker'.hash = g)
            /\ \A l \in Kinds : <<g, l>> \in promotions' => k = l
      BY <2>1, <2>2, <2>3, <2>5 DEF PromotionState
    <2> QED
      BY <2>1, <2>2, <2>6, <2>7 DEF PromotionState
  <1>6. CASE CompletePromoted
    <2>1. worker.at = "complete" /\ promotions' = promotions /\ voted' = voted
      BY <1>6 DEF CompletePromoted, CompleteReviewJob
    <2>2. worker'.at = "reload"
      BY <1>6, <1>t DEF CompletePromoted, CompleteReviewJob, Worker
    <2>3. job[h].status = "running"
      BY <1>r, <2>1 DEF Busy
    <2>4. job'[h].status = "promoted" /\ \A g \in Hashes : g # h => job'[g] = job[g]
      BY <1>6, <1>t, <1>h, <2>1 DEF CompletePromoted, CompleteReviewJob, Row
    <2> HIDE DEF h
    <2> QED
      BY <1>h, <2>1, <2>2, <2>3, <2>4, StatusStep DEF Busy, h
  <1>7. CASE CompleteFailed \/ GiveUp
    <2>1. worker.at \in {"fail", "giveUp"} /\ promotions' = promotions /\ voted' = voted
          /\ worker'.at = "select"
      BY <1>7, <1>i DEF CompleteFailed, GiveUp, CompleteReviewJob
    <2>2. job[h].status = "running"
      BY <1>r, <2>1 DEF Busy
    <2>3. /\ job'[h].status \in {"failed", "retry_pending", "completed_no_quorum"}
          /\ \A g \in Hashes : g # h => job'[g] = job[g]
      BY <1>7, <1>t, <1>h, <2>1 DEF CompleteFailed, GiveUp, CompleteReviewJob, Row
    <2>4. PICK status : job'[h].status = status
      OBVIOUS
    <2> HIDE DEF h
    <2> QED
      BY <1>h, <2>1, <2>2, <2>3, <2>4, StatusStep DEF Busy, h
  <1>8. CASE Reload
    <2>1. /\ worker.at = "reload" /\ worker'.at = "select"
          /\ promotions' = promotions /\ job' = job /\ voted' = voted
      BY <1>8, <1>i DEF Reload, store
    <2> QED
      BY <2>1, StatusKept DEF Busy
  <1> QED
    BY <1>1, <1>2, <1>3, <1>4, <1>5, <1>6, <1>7, <1>8 DEF WorkerStep

\* No step without a fault promotes a hash twice.
LEMMA NextPromotion == IInv /\ PromotionInv /\ [Next]_vars => PromotionInv'
  <1> SUFFICES ASSUME IInv, PromotionInv, [Next]_vars, faults' = 0
               PROVE  PromotionState'
    BY DEF PromotionInv
  <1>f. faults \in Nat
    BY Types
  <1>n. faults' # faults + 1
    BY <1>f
  <1>z. faults = 0
    BY <1>n DEF Next, Submit, BecomeDue, BecomeStale, SetNodes, SetTraffic, RecoverDue,
       RecoverDueFails, Dequeue, WorkerStep, StoreFails, Crash, CreateReviewJob, ClaimReviewJob,
       Review, PromoteHash, PromoteRefused, CompletePromoted, CompleteFailed, GiveUp, Reload,
       CompleteReviewJob, vars
  <1>s. PromotionState
    BY <1>z DEF PromotionInv
  <1>t. job \in [Hashes -> Row] /\ WorkerOK
    BY Types DEF IInv
  <1>1. ASSUME NEW h \in Hashes, BecomeDue(h) \/ BecomeStale(h) PROVE PromotionState'
    <2>1. \A g \in Hashes : job'[g].status = job[g].status
      <3>1. CASE BecomeDue(h)
        BY <1>t, <3>1 DEF BecomeDue, Row
      <3>2. CASE BecomeStale(h)
        BY <1>t, <3>2 DEF BecomeStale, Row
      <3> QED BY <1>1, <3>1, <3>2
    <2> QED
      BY <1>1, <1>s, <2>1, StatusKept DEF BecomeDue, BecomeStale
  <1>2. CASE RecoverDue
    <2>1. \A h \in Hashes : job[h].status # "running"
      BY <1>2, <1>s DEF RecoverDue, PromotionState, Busy
    <2>2. \A h \in Hashes : job'[h].status = job[h].status
      BY <1>2, <2>1 DEF RecoverDue, RequeueStale
    <2> QED
      BY <1>2, <1>s, <2>2, StatusKept DEF RecoverDue
  <1>3. CASE Dequeue
    <2>1. worker' = worker \/ (worker.at = "select" /\ worker'.at = "create")
      BY <1>3 DEF Dequeue, Idle
    <2> QED
      BY <1>3, <1>s, <2>1, StatusKept DEF Dequeue, store, Busy
  <1>4. CASE WorkerStep
    BY <1>4, <1>s, WorkerPromotion
  <1>5. CASE \/ \E h \in Hashes : Submit(h)
             \/ \E ready \in BOOLEAN : SetNodes(ready)
             \/ SetTraffic \/ UNCHANGED vars
    <2>1. UNCHANGED <<store, worker>>
      BY <1>5 DEF Submit, SetNodes, SetTraffic, vars, store
    <2> QED
      BY <1>s, <2>1, StatusKept DEF store
  <1>6. CASE RecoverDueFails \/ StoreFails \/ Crash
    BY <1>6, <1>n DEF RecoverDueFails, StoreFails, Crash
  <1> QED
    BY <1>1, <1>2, <1>3, <1>4, <1>5, <1>6 DEF Next

\* As long as nothing fails, duplicates in the queue, retries and the recovery
\* promote a hash at most once, with its votes on record, and a job that ends
\* without promotion has promoted nothing (process, PromoteHash,
\* RequeueStaleReviewJobs).
THEOREM PromotedOnce == SafetySpec => []IdempotentWithoutFaults
  <1>1. IInv /\ PromotionInv => IdempotentWithoutFaults
    <2> SUFFICES ASSUME IInv, PromotionState, NEW h \in Hashes
                 PROVE  Idempotent(h) /\ (\A k \in Kinds : <<h, k>> \in promotions => h \in voted)
      BY DEF PromotionInv, IdempotentWithoutFaults
    <2>1. \A k \in Kinds : <<h, k>> \in promotions => job[h].status \in {"promoted", "running"}
      BY DEF PromotionState, IInv, WorkerOK
    <2> QED
      BY <2>1 DEF PromotionState, Idempotent
  <1>2. SafetySpec => []PromotionInv
    BY InitPromotion, NextPromotion, InvariantHolds, PTL DEF SafetySpec
  <1> QED
    BY <1>1, <1>2, InvariantHolds, PTL
=============================================================================
