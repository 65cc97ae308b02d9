------------------------------ MODULE ReviewJobs ------------------------------
(***************************************************************************)
(* The asynchronous review pipeline: asyncRuntime of                       *)
(* cmd/nocyber-guard/main.go and the review_jobs, review_votes,            *)
(* rule_promotions and *_hashes tables of internal/storage/store.go it     *)
(* drives.  Requests put jobs on a bounded in-memory queue; one worker     *)
(* takes them, or recovers persisted ones on its ticker, and carries each  *)
(* through separately committed store calls.  The process may crash before *)
(* any of them and any of them may fail.                                   *)
(*                                                                         *)
(* One worker goroutine runs process and recoverDue, and nothing else      *)
(* writes the job tables, so recoverDue's statements are one step.  Rules  *)
(* an administrator adds or removes are not followed here (Reload.tla).    *)
(* Times are abstracted to the comparisons the statements make: due says   *)
(* that next_attempt_at has passed, stale that updated_at is older than    *)
(* two minutes.  A row is not stale while the worker is processing it:     *)
(* process has 35 seconds.                                                 *)
(***************************************************************************)
EXTENDS Naturals, Sequences, FiniteSets

CONSTANTS
  Hashes,        \* selected fields, identified by their SHA-256 (the job key)
  Sampled,       \* those too long to be reviewed whole
  Legacy,        \* jobs an older version left queued, without a stored sample
  None,          \* no hash
  MaxAttempts,   \* 3
  QueueCap,      \* capacity of ar.queue
  ListLimit,     \* LIMIT of ListDueReviewJobs
  MaxFaults      \* bound: crashes, failed store calls and late submissions

ASSUME JobsAssumption ==
  /\ IsFiniteSet(Hashes)
  /\ Sampled \subseteq Hashes
  /\ Legacy \subseteq Hashes
  /\ None \notin Hashes
  /\ MaxAttempts \in Nat \ {0}
  /\ QueueCap \in Nat /\ ListLimit \in Nat /\ MaxFaults \in Nat

VARIABLES
  job,         \* job[h]: the row of review_jobs with job_key h
  rules,       \* rules[kind]: the hashes promoted to that library
  promotions,  \* rule_promotions: <<h, kind>>
  voted,       \* the jobs whose last completed review left its votes in review_votes
  queue,       \* ar.queue
  worker,      \* where the worker goroutine is
  nodesReady,  \* exactly three usable nodes were configured at the last reload
  snapshot,    \* the hashes the request path finds in its rule snapshot
  traffic,     \* clients are sending requests
  faults       \* crashes, failed store calls and late submissions so far

store == <<job, rules, promotions, voted>>
vars == <<store, queue, worker, nodesReady, snapshot, traffic, faults>>

Kinds == {"trusted", "risk"}
Settled == {"promoted", "completed_no_quorum", "failed"}
Claimable == {"queued", "retry_pending"}
Statuses == {"absent", "running"} \cup Claimable \cup Settled

Row == [id : Nat, status : Statuses, attempts : Nat, due : BOOLEAN, stale : BOOLEAN,
        sample : BOOLEAN, content : BOOLEAN, promotion : Kinds \cup {""}]

\* The row INSERT OR IGNORE adds.
NewRow(id, sample, content) ==
  [id |-> id, status |-> "queued", attempts |-> 0, due |-> TRUE, stale |-> FALSE,
   sample |-> sample, content |-> content, promotion |-> ""]

NoRow == [NewRow(0, FALSE, FALSE) EXCEPT !.status = "absent"]

\* An in-memory job always carries the reviewer's input; content says that it
\* carries the exact field (RuleContent) as well.
QueuedJob == [hash : Hashes, content : BOOLEAN]

Places == {"select", "create", "claim", "review", "promote", "fail", "complete",
           "reload", "giveUp"}

Worker == [at : Places, hash : Hashes \cup {None}, content : BOOLEAN, attempts : Nat,
           kind : Kinds \cup {""}]

Idle == [at |-> "select", hash |-> None, content |-> FALSE, attempts |-> 0, kind |-> ""]

AllRules == rules["trusted"] \cup rules["risk"]

Init ==
  /\ \E id \in [Legacy -> 1..Cardinality(Legacy)] :
       /\ \A g, h \in Legacy : id[g] = id[h] => g = h
       /\ job = [h \in Hashes |-> IF h \in Legacy THEN NewRow(id[h], FALSE, FALSE) ELSE NoRow]
  /\ rules = [k \in Kinds |-> {}]
  /\ promotions = {}
  /\ voted = {}
  /\ queue = <<>>
  /\ worker = Idle
  /\ nodesReady = FALSE
  /\ snapshot = {}
  /\ traffic = TRUE
  /\ faults = 0
-----------------------------------------------------------------------------
(* The request path, the configuration, time and failures.                 *)

\* enqueue: a non-blocking send, which drops the job when the queue is full.
enqueue(q, j) == IF Len(q) < QueueCap THEN Append(q, j) ELSE q

\* auditorAdapter.Evaluate offers a job for a field whose hash is in no library
\* of the request's snapshot.  It may also offer one for a hash in a library: the
\* request has pinned an older snapshot, or its blocked event could not be
\* committed and it failed open.
Submit(h) ==
  /\ traffic
  /\ \/ h \notin snapshot /\ UNCHANGED faults
     \/ h \in snapshot /\ faults < MaxFaults /\ faults' = faults + 1
  /\ queue' = enqueue(queue, [hash |-> h, content |-> TRUE])
  /\ UNCHANGED <<store, worker, nodesReady, snapshot, traffic>>

\* Clients come and go.
SetTraffic ==
  /\ traffic' = ~traffic
  /\ UNCHANGED <<store, queue, worker, nodesReady, snapshot, faults>>

\* runtime.reload hands the usable nodes to setNodes.
SetNodes(ready) ==
  /\ nodesReady # ready
  /\ nodesReady' = ready
  /\ UNCHANGED <<store, queue, worker, snapshot, traffic, faults>>

BecomeDue(h) ==
  /\ ~job[h].due
  /\ job' = [job EXCEPT ![h].due = TRUE]
  /\ UNCHANGED <<rules, promotions, voted, queue, worker, nodesReady, snapshot, traffic, faults>>

BecomeStale(h) ==
  /\ job[h].status = "running" /\ ~job[h].stale
  /\ worker.hash # h
  /\ job' = [job EXCEPT ![h].stale = TRUE]
  /\ UNCHANGED <<rules, promotions, voted, queue, worker, nodesReady, snapshot, traffic, faults>>

\* The process dies and restarts: the queue and the worker's place are lost,
\* the first reload reads the rule libraries again; the worker starts
\* before it, without nodes.
Crash ==
  /\ faults < MaxFaults
  /\ faults' = faults + 1
  /\ queue' = <<>>
  /\ worker' = Idle
  /\ nodesReady' = FALSE
  /\ snapshot' = AllRules
  /\ UNCHANGED <<store, traffic>>
-----------------------------------------------------------------------------
(* The worker: recovery.                                                   *)

\* Mutant: stale jobs are requeued whatever attempts they have left.
RequeueStaleAlways(r) ==
  IF r.status = "running" /\ r.stale
  THEN [r EXCEPT !.status = "retry_pending", !.due = TRUE, !.stale = FALSE]
  ELSE r

\* Mutant: only jobs without an attempt left are recovered.
RequeueStaleLastOnly(r) ==
  IF r.status = "running" /\ r.stale /\ r.attempts >= MaxAttempts
  THEN [r EXCEPT !.status = "completed_no_quorum", !.stale = FALSE]
  ELSE r

\* RequeueStaleReviewJobs, row by row.
RequeueStale(r) ==
  IF r.status = "running" /\ r.stale
  THEN IF r.attempts >= MaxAttempts
       THEN [r EXCEPT !.status = "completed_no_quorum", !.stale = FALSE]
       ELSE [r EXCEPT !.status = "retry_pending", !.due = TRUE, !.stale = FALSE]
  ELSE r

\* ListDueReviewJobs: the ListLimit oldest due rows ...
ListDue(rows) ==
  LET due == {h \in Hashes : rows[h].status \in Claimable /\ rows[h].due}
  IN {h \in due : Cardinality({g \in due : rows[g].id < rows[h].id}) < ListLimit}

\* ... of which those with a stored sample can be put back on the queue.
Recoverable(rows) == {h \in ListDue(rows) : rows[h].sample}

\* The field itself comes from the row, or is the sample if that is the whole
\* field.
RecoveredJob(rows, h) == [hash |-> h, content |-> rows[h].content \/ h \notin Sampled]

\* Offer the recoverable rows in the order of their ids until the queue is full.
EnqueueRecoverable(rows) ==
  LET S == Recoverable(rows)
      room == QueueCap - Len(queue)
      n == IF Cardinality(S) < room THEN Cardinality(S) ELSE room
  IN \E s \in [1..n -> S] :
       /\ \A i, k \in 1..n : i < k => rows[s[i]].id < rows[s[k]].id
       /\ \A h \in S : (\E i \in 1..n : s[i] = h) \/ (\A i \in 1..n : rows[s[i]].id < rows[h].id)
       /\ queue' = queue \o [i \in 1..n |-> RecoveredJob(rows, s[i])]

\* recoverDue, at start and on every tick.
RecoverDue ==
  /\ worker.at = "select"
  /\ job' = [h \in Hashes |-> RequeueStale(job[h])]
  /\ EnqueueRecoverable(job')
  /\ UNCHANGED <<rules, promotions, voted, worker, nodesReady, snapshot, traffic, faults>>

\* A failed requeue is only logged; a failed listing ends the recovery.
RecoverDueFails ==
  /\ worker.at = "select"
  /\ faults < MaxFaults
  /\ faults' = faults + 1
  /\ \/ /\ UNCHANGED job
        /\ EnqueueRecoverable(job)
     \/ /\ job' = [h \in Hashes |-> RequeueStale(job[h])]
        /\ UNCHANGED queue
  /\ UNCHANGED <<rules, promotions, voted, worker, nodesReady, snapshot, traffic>>
-----------------------------------------------------------------------------
(* The worker: process.                                                    *)

\* Without exactly three nodes the job is dropped from memory.
Dequeue ==
  LET j == Head(queue) IN
  /\ worker.at = "select"
  /\ queue # <<>>
  /\ queue' = Tail(queue)
  /\ worker' = IF nodesReady
               THEN [Idle EXCEPT !.at = "create", !.hash = j.hash, !.content = j.content]
               ELSE worker
  /\ UNCHANGED <<store, nodesReady, snapshot, traffic, faults>>

\* Mutant: INSERT OR REPLACE instead of INSERT OR IGNORE.
CreateReplacing ==
  LET h == worker.hash
      row == NewRow(job[h].id, TRUE, worker.content)
  IN /\ worker.at = "create"
     /\ job' = [job EXCEPT ![h] = row]
     /\ worker' = [worker EXCEPT !.at = "claim", !.content = TRUE]
     /\ UNCHANGED <<rules, promotions, voted, queue, nodesReady, snapshot, traffic, faults>>

\* CreateReviewJob and the reload of the stored sample and field: a new row, or
\* the existing one with what it lacked filled in.
CreateReviewJob ==
  LET h == worker.hash
      fresh == job[h].status = "absent"
      id == Cardinality({g \in Hashes : job[g].status # "absent"}) + 1
      row == IF fresh THEN NewRow(id, TRUE, worker.content)
             ELSE [job[h] EXCEPT !.sample = TRUE, !.content = @ \/ worker.content,
                                 !.stale = FALSE]
  IN /\ worker.at = "create"
     /\ job' = [job EXCEPT ![h] = row]
     /\ worker' = IF row.status \in Settled THEN Idle
                  ELSE [worker EXCEPT !.at = "claim", !.attempts = row.attempts,
                                      !.content = row.content \/ h \notin Sampled]
     /\ UNCHANGED <<rules, promotions, voted, queue, nodesReady, snapshot, traffic, faults>>

\* ClaimReviewJob: one conditional UPDATE, the only way a row starts running.
ClaimReviewJob ==
  LET h == worker.hash
      claimed == job[h].status \in Claimable /\ job[h].due /\ job[h].attempts < MaxAttempts
  IN /\ worker.at = "claim"
     /\ IF claimed
        THEN /\ job' = [job EXCEPT ![h].status = "running", ![h].attempts = @ + 1,
                                   ![h].stale = FALSE]
             /\ worker' = [worker EXCEPT !.at = "review"]
        ELSE /\ worker' = Idle
             /\ UNCHANGED job
     /\ UNCHANGED <<rules, promotions, voted, queue, nodesReady, snapshot, traffic, faults>>

\* ReviewAsyncQuorum (ReviewQuorum.tla) reaches a kind, or no quorum or a
\* conflict (""), and the votes are written; a failed write is only logged.
Review(kind) ==
  /\ worker.at = "review"
  /\ worker' = [worker EXCEPT !.at = IF kind = "" THEN "giveUp" ELSE "promote", !.kind = kind]
  /\ \/ /\ voted' = voted \cup {worker.hash}
        /\ UNCHANGED faults
     \/ /\ faults < MaxFaults
        /\ faults' = faults + 1
        /\ voted' = voted \ {worker.hash}
  /\ UNCHANGED <<job, rules, promotions, queue, nodesReady, snapshot, traffic>>

\* PromoteHash: rule, promotion record and erasure of the job's copy of the
\* field in one transaction; refused without the field.
PromoteHash ==
  LET h == worker.hash
      k == worker.kind
  IN /\ worker.at = "promote"
     /\ worker.content
     /\ rules' = [rules EXCEPT ![k] = @ \cup {h}]
     /\ promotions' = promotions \cup {<<h, k>>}
     /\ job' = [job EXCEPT ![h].content = FALSE]
     /\ worker' = [worker EXCEPT !.at = "complete"]
     /\ UNCHANGED <<voted, queue, nodesReady, snapshot, traffic, faults>>

\* Mutant: the error of PromoteHash is ignored.
PromoteRefusedIgnored ==
  /\ worker.at = "promote"
  /\ ~worker.content
  /\ worker' = [worker EXCEPT !.at = "complete"]
  /\ UNCHANGED <<store, queue, nodesReady, snapshot, traffic, faults>>

\* PromoteHash returns an error: the caller marks the job failed.
PromoteRefused ==
  /\ worker.at = "promote"
  /\ ~worker.content
  /\ worker' = [worker EXCEPT !.at = "fail"]
  /\ UNCHANGED <<store, queue, nodesReady, snapshot, traffic, faults>>

\* CompleteReviewJob(id, status, promotion).
CompleteReviewJob(status, kind, next) ==
  /\ job' = [job EXCEPT ![worker.hash].status = status, ![worker.hash].promotion = kind]
  /\ worker' = next
  /\ UNCHANGED <<rules, promotions, voted, queue, nodesReady, snapshot, traffic, faults>>

CompletePromoted ==
  /\ worker.at = "complete"
  /\ CompleteReviewJob("promoted", worker.kind, [worker EXCEPT !.at = "reload"])

CompleteFailed ==
  /\ worker.at = "fail"
  /\ CompleteReviewJob("failed", "", Idle)

\* No quorum: retry later, or settle after the last attempt.  worker.attempts
\* is record.Attempts, read before the claim.
GiveUp ==
  /\ worker.at = "giveUp"
  /\ \/ /\ worker.attempts + 1 < MaxAttempts
        /\ job' = [job EXCEPT ![worker.hash].status = "retry_pending",
                              ![worker.hash].due = FALSE, ![worker.hash].stale = FALSE]
        /\ worker' = Idle
        /\ UNCHANGED <<rules, promotions, voted, queue, nodesReady, snapshot, traffic, faults>>
     \/ /\ worker.attempts + 1 >= MaxAttempts
        /\ CompleteReviewJob("completed_no_quorum", "", Idle)

\* onPromotion: runtime.reload publishes the rules to later requests.
Reload ==
  /\ worker.at = "reload"
  /\ snapshot' = AllRules
  /\ worker' = Idle
  /\ UNCHANGED <<store, queue, nodesReady, traffic, faults>>

\* A store call of process fails (the database, or the job's 35 seconds are
\* over).  Creating or claiming: process returns.  Promoting: the job is marked
\* failed.  Completing, retrying and reloading: the error is ignored.
StoreFails ==
  /\ worker.at \notin {"select", "review"}
  /\ faults < MaxFaults
  /\ faults' = faults + 1
  /\ worker' = CASE worker.at = "promote" -> [worker EXCEPT !.at = "fail"]
                 [] worker.at = "complete" -> [worker EXCEPT !.at = "reload"]
                 [] OTHER -> Idle
  /\ UNCHANGED <<store, queue, nodesReady, snapshot, traffic>>

WorkerStep ==
  \/ CreateReviewJob \/ ClaimReviewJob
  \/ \E kind \in Kinds \cup {""} : Review(kind)
  \/ PromoteHash \/ PromoteRefused \/ CompletePromoted \/ CompleteFailed \/ GiveUp \/ Reload

Next ==
  \/ \E h \in Hashes : Submit(h) \/ BecomeDue(h) \/ BecomeStale(h)
  \/ \E ready \in BOOLEAN : SetNodes(ready)
  \/ SetTraffic \/ RecoverDue \/ RecoverDueFails \/ Dequeue \/ WorkerStep \/ StoreFails \/ Crash

SafetySpec == Init /\ [][Next]_vars

\* Go's select picks among the ready cases at random, so neither the queue nor
\* the ticker is ignored for ever (strong fairness: each is ready only while
\* the worker is at the select).  Time passes.  The administrator eventually
\* leaves three usable nodes configured.  Requests, crashes and store failures
\* are not assumed to happen.
Fairness ==
  /\ SF_vars(RecoverDue) /\ SF_vars(Dequeue) /\ WF_vars(WorkerStep)
  /\ \A h \in Hashes : WF_vars(BecomeDue(h)) /\ WF_vars(BecomeStale(h))

Spec == SafetySpec /\ Fairness
-----------------------------------------------------------------------------
TypeOK ==
  /\ job \in [Hashes -> Row]
  /\ rules \in [Kinds -> SUBSET Hashes]
  /\ promotions \in SUBSET (Hashes \X Kinds)
  /\ voted \in SUBSET Hashes
  /\ queue \in Seq(QueuedJob) /\ Len(queue) <= QueueCap
  /\ worker \in Worker
  /\ nodesReady \in BOOLEAN
  /\ snapshot \in SUBSET Hashes
  /\ traffic \in BOOLEAN
  /\ faults \in 0..MaxFaults

\* No job is stranded: a row that waits to be claimed can be claimed, because
\* whatever requeues it (a retry computed from the attempts read before the
\* claim, or the stale-job recovery after a crash) leaves it an attempt.
ClaimableHasAttempt ==
  \A h \in Hashes : /\ job[h].attempts <= MaxAttempts
                    /\ job[h].status \in Claimable => job[h].attempts < MaxAttempts

\* A job says "promoted" only with its rule committed to that library and its
\* promotion recorded, whatever crashed or failed on the way.
PromotedHasRule ==
  \A h \in Hashes : job[h].status = "promoted" =>
    /\ job[h].promotion \in Kinds
    /\ h \in rules[job[h].promotion]
    /\ <<h, job[h].promotion>> \in promotions

\* A settled job is never reopened: not by another request with the same
\* field, a duplicate in the queue, a late retry or the recovery.
SettledIsFinal ==
  [][\A h \in Hashes : job[h].status \in Settled => job'[h].status = job[h].status]_vars

\* Promotion is idempotent: one job promotes its hash to at most one library,
\* and once settled its status says so.
Idempotent(h) ==
  /\ \A k, l \in Kinds : <<h, k>> \in promotions /\ <<h, l>> \in promotions => k = l
  /\ job[h].status \in {"completed_no_quorum", "failed"} =>
        \A k \in Kinds : <<h, k>> \notin promotions

\* As long as no store call has failed and the process has not crashed,
\* duplicates in the queue, retries and recovery promote a hash at most once,
\* and only with its votes on record.
IdempotentWithoutFaults ==
  faults = 0 => \A h \in Hashes :
    Idempotent(h) /\ (\A k \in Kinds : <<h, k>> \in promotions => h \in voted)

JobSettles(h) == (job[h].status # "absent" /\ job[h].sample) ~> job[h].status \in Settled

\* Every persisted job with a stored sample is eventually settled once three
\* nodes stay configured and the traffic pauses: crashes, failed store calls, a
\* full queue and exhausted attempts delay it but lose nothing.
EveryJobSettles ==
  (<>[]nodesReady /\ <>[]~traffic) => \A h \in Hashes : JobSettles(h)

\* The same while traffic goes on: the stale-job recovery settles the jobs a
\* crash or an expired context left running.
StaleJobsRecovered == <>[]nodesReady => \A h \in Hashes : JobSettles(h)
=============================================================================
