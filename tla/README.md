# TLA+ verification of NoCyber Guard

NoCyber Guard is a reverse proxy that audits LLM requests before it forwards
them. These modules model its concurrent and failure-handling core, the `.cfg`
files check them with TLC on small instances, and `*Proofs.tla` holds theorems
checked by TLAPS for every value of the constants. `PROJECT.json` maps each
definition to the lines it models and lists the hazards the properties are for.

    tlc -config MCLimits.cfg MCLimits          # one run
    tlapm LimitsProofs.tla                     # one proof module

## 1. Inventory

| Component | Source | State | Operations | Hard behaviour |
|---|---|---|---|---|
| AI concurrency gate | `internal/audit/bulkhead.go` | `active`, `limit`, `changed` channel | `Acquire`, release, `SetLimit` | waiters woken by closing a channel, a limit moved under load, timeouts |
| Vote quorum | `internal/audit/quorum.go` | three goroutines, a buffered channel, two counters | `ReviewAsyncQuorum`, `QuorumPromotion` | votes in any order, early decision, late answers |
| Review jobs | `asyncRuntime` in `cmd/nocyber-guard/main.go`, job tables in `internal/storage/store.go` | `review_jobs`, `review_votes`, `rule_promotions`, bounded queue | enqueue, recover, claim, review, promote, complete, retry | separate commits, crashes, retries, stale rows, duplicates |
| Runtime reload | `runtime.reload`, `OnReload`, handlers of `internal/admin/server.go`, `SetUpstream` | published `runtimeState`, reviewers, upstream, `reloadMu` | load, save with version, reload, set upstream | overlapping writes and reloads, partial failure, cancelled contexts |
| Request path | `internal/proxy/proxy.go`, `auditorAdapter`, `internal/audit/engine.go` | pinned state per request, gate, event queue, evidence | route, capture, evaluate, block or forward, record; shutdown | reload during a request, full queue, failed evidence, late handlers at shutdown |
| Update agent | `cmd/nocyber-updater/main.go` | env file, state file, container, operation status | update, rollback, restore | crash between steps, failed restore, two callers |
| AI rate limiter | `internal/audit/rate_limit.go` | counters per key and window | `Allow` | window roll-over, sweep at capacity, goroutines that enter late |
| Admin authentication | `internal/admin/server.go`, sessions in `store.go` | login failures, sessions | login, logout, `requireAuth` | check and count in separate critical sections, session read before the request runs |
| Event store | `internal/storage/store.go`, `startCleanup` in `main.go` | events, evidence, write-ahead log | record, expire, trim, delete, checkpoint | busy checkpoints, failed statements, crashes |
| Rule library | `internal/storage/store.go`, `loadRules` | two hash tables, snapshot | add, promote, update, backfill, delete, load | administrators against promotions, traffic and the load |
| Parser, text cuts, reviewer's answers, forwarded addresses | `internal/audit`, `internal/proxy`, `main.go` | none | pure functions | boundaries, ambiguity, two readers of one header |
| Migrations | `internal/storage/store.go` | schema, rewritten rows | V2 (events), V4 (plaintext of rules) | SQL that repeats Go, unproven plaintext |
| Configuration, console, installer | `internal/config`, `frontend`, `deploy`, `install.sh` | files | one-time or presentation | none within a model checker's reach |

Interactions. The proxy pins the `runtimeState` that `reload` last published and
passes the request to `Engine.Evaluate`, which consults the rule snapshot, the
rate limiter, the concurrency gate and the reviewer, and records an event (a
bounded channel for allowed requests, a transaction with evidence for blocked
ones). An allowed request with an unknown field offers a job to `asyncRuntime`,
whose worker runs the quorum, promotes the hash and triggers `reload`. An
administrator's save commits to SQLite and triggers the same `reload`, then
`SetUpstream`. The update agent is a separate process that recreates the whole
Guard container: to Guard it is a crash.

What makes each part correct:

- gate: never more admissions than the limit in force, exact accounting, no
  waiter sleeping through a free slot;
- quorum: two independent valid votes and none against, independent of order;
  no goroutine leaked;
- jobs: none lost, none stranded, settled ones final, a promoted one has its
  rule, one promotion per field;
- reload: no write silently lost, none undone by an older reload, no deadlock;
- request path: refuse only with committed evidence, otherwise answer (fail
  open); judge by pinned rules; leak no slot; drain events before the store closes;
- updater: one task at a time, success only of what runs, a healthy container
  left behind, always free again;
- limiters and sessions: an exact bound on what late or parallel goroutines get
  through, nothing served after a logout;
- storage: plaintext proves its rule, first traces stay, a risk rule is never
  hidden by a load, expired plaintext leaves the disk;
- pure functions: the text audited is the one the contract names, shortening
  keeps whole characters, an audited body is forwarded unchanged, no verdict
  from an ambiguous answer, no hop passed on that cannot be authenticated.

## 2. Modules

| Module | Models |
|---|---|
| `Semaphore` | Abstract: a resizable counting semaphore. |
| `Bulkhead` | `ConcurrencyGate`, one action per critical section: `Start` enters `Acquire`, `Acquire` takes a slot or captures the channel, `Wake` is a receive from the closed channel, `GiveUp` the two context branches, `Release` the returned closure, `SetLimit`. `notifyLocked` (close and replace the channel) turns every waiting request into a woken one. |
| `ReviewQuorum` | The goroutines (`ReviewAnswers`, `ReviewFails`, `Send`), the collector (`Collect`, `Drain`, `DecideStreaming`, `DecideTally`) and the batch policy `QuorumPromotion`. |
| `ReviewJobs` | The job rows and the worker; each separately committed store call is an action, the queue is the channel. `due` and `stale` are the truth values of the time comparisons in the SQL. |
| `Reload` | Tables identified by their number of writes; handlers as writers with a program counter; the queries of `reload` one by one under `reloadMu`; the unlocked tail of `OnReload`. |
| `AuditGate` | Abstract: a pending request is blocked (`Convict` commits its evidence, then `Refuse`), forwarded (`Pass`) or torn down (`Abort`), for good; only one with evidence is refused. |
| `RequestPath` | Handlers with a program counter (`Route` observes unreviewed protocols and selects what is audited, an observed request on a protected path too), the event queue and its writer, the shutdown sequence of `main` (deferred calls last first). |
| `Updater` | Calls as goroutines with a program counter, the env and state files, the container, faults. |
| `Clock` | The clock the two limiters share. |
| `RateLimit` | `BeginCall` reads the clock, `Allow` is the critical section; the table of buckets is a function. `granted` (reviews with a stamp before a time) and `dropped` (credentials that lost a bucket to the sweep) are histories. |
| `AdminAuth` | Admin handlers with a state: `allow`, the password check (`LoginFails`, `Login`, `LoginSucceeds`), `Present`, `Admit` or `Deny` by `requireAuth`, `Serve` or `Logout`. |
| `RuleLibrary` | Two tables from ids to rows; each statement is an action, the two of an update with plaintext (`BeginUpdate`, `FinishUpdate`) and the two queries of a load (`ListTrusted`, `ListRisk`) are apart; `Open` migrates. |
| `Retention` | Events, evidence and `disk`, the evidence whose plaintext is still in the database file or its log; the statements of a cleanup, administrators' deletions, days, crashes. |
| `Parser` | `ParseResponses` and the choice of the field over JSON values, and the contract it is checked against. |
| `TextCuts` | Sample, evidence and User-Agent as cuts of a text, a sequence of bytes that start a rune, start a control rune or continue one; a cut is a pair of byte offsets, as in the code. `captureBody` and `decodeAuditBody`. |
| `AnswerScan` | The scan for the one object in a model's answer, and the grammar of nested braces and strings it is checked against. |
| `ReviewVerdict` | Format fallback, strict and compatible reading of the fields of that object. |
| `Forwarding` | The forwarded chain (`setXForwarded`) and the client address (`clientIP`). |
| `EventContract` | `DeriveEventContract` and the SQL of the migration V2. |
| `Inputs` | Composes `TextCuts`, `ReviewVerdict`, `Forwarding` and `EventContract`: a behaviour is one call of one of their functions with an input from a set given as a constant. `MCInputs` adds the calls of `Parser` and `AnswerScan`. |

`RequestPath` leaves the review limiter, the parser and the decoding of bodies
to the modules above as nondeterministic outcomes. It abstracts the gate to
`inUse` (its implementation is `Bulkhead`), the reload to `Publish` (`Reload`) and leaves the offered job to `ReviewJobs`,
whose review is one step (`ReviewQuorum`). `Reload` takes every write of a table
for one version; `RuleLibrary` looks into the rule tables.

Abstractions throughout: a field is its hash; message texts, headers and bodies
are left out; a time is the comparison made with it; a store call is atomic,
because each is one SQLite statement or transaction. A *fault* (crash, failed
call) may happen at any step until the bound `MaxFaults` is used up. Outcomes
that depend on data not modelled (what a body contains, what a provider
answers) are nondeterministic. Definitions commented *Mutant* are plausible
wrong versions of the code; `PROJECT.json` says which property each one breaks
when it takes the place of the real definition.

## 3. Runs

| Run | Instance | Shows |
|---|---|---|
| `quorum` | 3 reviewers, confidences below, at the threshold and invalid | Promotions are sound, early decision and batch policy agree, no vote overtaken, every goroutine ends. |
| `jobs` | 2 fields, 2 attempts, queue of 1, 2 faults | No stranded job, a promoted job has its rule, settled jobs stay settled, promotion idempotent and with its votes on record without faults; every job settles once traffic pauses and three nodes stay configured. |
| `reload` | 2 administrators, 1 promotion, 2 node slots | A stale table means a pending or reported write; nothing goes back to an older version; no lost update; every handler ends. |
| `request_path` | 2 requests, 3 runtime states, 1 slot, 1 queue place | Evidence before refusal, pinned rules, slots freed, orderly shutdown, an answer even if the writer is stuck; refinement of `AuditGate`. |
| `updater` | 3 calls, 3 digests (1 unhealthy), 2 faults | Success is reported of the image that runs, apart from the shortcut after a fault; without faults a healthy container is left and offered for rollback; the operation ends. |
| `limits` | gate: 4 requests, limits 0, 1, 3 (default 2); review limiter: 2 goroutines, 3 keys for 2 buckets, limit 2, window 3, 7 instants; login: 3 handlers, 2 failures, 1 token, 4 instants | No admission beyond the limit, no lost wake-up while the limit moves; the gate refines `Semaphore`. A credential gets at most `2 * Limit - 1` reviews in any span of a window, plus one for each other goroutine that is late, and `(N + 1) * Limit - 1` with `N` goroutines once a sweep removed its bucket (both numbers are reached); guesses exceed the login limit by the attempts in flight at most; nothing is served after a logout unless its row could not be deleted. |
| `storage` | 2 hashes with their plaintexts, 2 traces, 3 ids, 1 administrator; 2 events, evidence of 2 days, retention of 1 or 3 days, 2 missed days | Plaintext proves its rule, content and first trace stay, a risk rule present all through a load is loaded as such; expired plaintext is on disk only until a cleanup completes, and one does. |
| `inputs` | JSON nested up to 5 levels with wrong shapes at every level, answers of 6 characters, all texts of up to 6 bytes and limits from -1 to 7 with a marker of 2, bodies of 4 bytes with every failure, objects with fields missing, doubled or of a wrong type, 6 statuses for each of three formats, chains of 4 hops, every reason | Parser and scan agree with their reference definitions; cuts, body replay, verdicts and the migrated classification are faithful; the upstream is told of no unauthenticated hop, and where every entry of the chain is an address the limits are charged to the client it is told of. |

Runs that end in a counterexample, each a disagreement between the code and what
the repository says of it (`findings`):

| Run | Counterexample |
|---|---|
| `jobs_stale` | Requests that keep repeating the field of a job left `running` refresh its `updated_at`, so the stale-job recovery never takes it. |
| `reload_upstream` | `SetUpstream` runs outside `reloadMu`: an older saved upstream overwrites a newer one after both saves answered 200. |
| `updater_tag` | `writeImage` refuses a tag, so after a failed update of a tag-pinned installation the unhealthy image stays. |
| `inputs_address` | On the chain `outside, malformed` from a trusted peer, `clientIP` passes over the malformed hop and charges the entry to its left, which `setXForwarded` discards because it "cannot be authenticated" (`proxy.go:174`). |

Further observations, not stated as runs:

- A failed write of votes is only logged and the promotion goes on
  (`main.go:210`), although the comment at `main.go:579` promises it only after a
  complete vote is persisted; `IdempotentWithoutFaults` says what holds without faults.
- After a crash between `PromoteHash` and `CompleteReviewJob` the hash is reviewed
  again and may be promoted to the other library, or its job may end without quorum
  with the rule in force: `Idempotent` does not hold once `faults > 0`.
- `recoverDue` skips rows without a usable sample and never settles them. With
  as many of them as `ListDueReviewJobs` returns, younger jobs are never listed:
  with `ListLimit = 1` instead of 2 the run `jobs` refutes `EveryJobSettles`.
- `RecordReviewVote` upserts by node, so after a retry the table may mix votes of
  two attempts; nothing reads them back into a decision. Due times are compared as
  RFC3339Nano strings without fixed width, wrong within one second at most.
- An update to the image the env file already names succeeds without looking at the
  container (`current == digest`). `SuccessIsReal` names the cases where that is wrong:
  after a fault (a crash before the container was recreated, a failed restore) and on an
  installation that started from a tag, where a failed update leaves its image named.
  `LeavesHealthyContainer` speaks of behaviours without faults only, and of a rollback
  that starts from a stale read only that its target has been healthy.
- A path of an unsupported protocol that is listed in `protected_paths` is recorded as
  unreviewed and allowed, and then audited: one request may have that event and a
  committed block. `BlockedHasEvidence` excludes the events of the audit itself.
- Adding or promoting a hash enables a rule that an administrator had disabled.
- When the table of the review limiter is full, the sweep removes expired buckets.
  A goroutine that read the clock before and takes the mutex after it finds none and
  opens one that started in the past and expires early: a credential can get
  a third bucket's worth of reviews out of one window, where two are the most
  otherwise. It takes bursts of reviews within the delay of the late goroutine.
- `logout` answers 204 also when the session row could not be deleted.
- A rule moved from one table to the other during a load can be missing from
  that snapshot until the administrator's own reload.
- The migration V2 would call a blocked event with a bypass reason a bypass,
  unlike `DeriveEventContract`; no version writes such an event.

Why the bounds are enough. *Bulkhead*: four requests fill three slots and leave
one waiting, and the limit shrinks below the use. *ReviewQuorum*: the code requires
exactly three nodes. *ReviewJobs*: two fields interact only through queue,
list and worker, and one in each role (sampled or whole, with or without stored
sample) is present; two attempts have a first and a last; two faults allow a
fault during the recovery from another. *Reload*: any violation involves one
writer that is overtaken and one or two that overtake it. *RequestPath*: two
requests compete for one slot and one queue place. *Updater*: two calls race
for the operation while a third one reads stale state. *RateLimit*: seven
instants hold two windows and the span across them, three keys overflow two
buckets. The three parts of `MCLimits` do not
interact; its symmetry is among the goroutines of the limiters, which rest while the
gate, the subject of the temporal property, moves. *AdminAuth*: three handlers are one more than the limit of failures.
*RuleLibrary*: one rule is deleted and another added under a pending update; the
modes `edit` and `load` of `MCStorage` keep apart what does not interact.
*Retention*: evidence outlives its event and the other way round, and two missed
days tell "late" from "later". *Pure functions*: each outcome of each function
is reached by inputs within the bounds, and limits run below, at and above the lengths. `CHECK_DEADLOCK FALSE` is
set where everything may be finished: all votes counted, all handlers answered,
the process shut down, all calls ended, the clock at its bound, all
ids handed out, the one call of `inputs` made.

Fairness. Goroutines that can run are scheduled (weak fairness of their steps).
`ReviewJobs`: Go's `select` picks among ready cases at random, hence strong
fairness of tick and dequeue; time passes (`BecomeDue`, `BecomeStale`). `Reload`:
`sync.Mutex` hands itself to a starving waiter, hence strong fairness of `Lock`.
`RequestPath`: only the steps of `Evaluate` are fair, each has a timeout; clients,
upstreams and the event writer may be stuck for ever. `Updater`: every command
has a deadline. `Retention`: days pass and the process is restarted (weak fairness);
no statement of the cleanup fails, is busy or is cut off by a crash for ever (strong
fairness: it is tried anew every day). Faults, requests and administrators are never assumed to act;
where a property needs a pause in traffic or three configured nodes it says so.

## 4. Proofs

Each proof module extends its components, states an inductive invariant (`IInv`,
or one per component where a module has several), proves that the initial states
satisfy it and that every action preserves it (one step or lemma per action), and
derives the theorems. Each invariant was model-checked on the instance of its run
first. The theorems hold for every value of the constants that satisfies the
component's named assumption.

| Module | Assumption | Inductive invariant | Theorems |
|---|---|---|---|
| `ReviewQuorumProofs` | finitely many reviewers, at least three; natural confidences | `TypeOK`, `VotesSentOnce`, `Tallied`, `CollectorKnows` | types, `StreamingAgreesWithPolicy`, `PromotionSound`, `NoVoteOvertaken` |
| `ReviewJobsProofs` | finitely many fields, at least one attempt | `TypeOK`, `WorkerOK`, `ClaimableHasAttempt`, `PromotedHasRule`; `PromotionInv` | types, `ClaimableHasAttempt`, `PromotedHasRule`, `SettledIsFinal`, `IdempotentWithoutFaults` |
| `ReloadProofs` | administrators and promotions are disjoint, a node save fills at least one slot | `TypeOK`, `PlacesOK`, `BufferNewer`, `BufferStaleMeansPending`, `BasedOnOlder`, `StaleMeansPending`, `NoLostUpdate` | types, `StaleMeansPending`, `NoLostUpdate`, `NeverOlder` |
| `RequestPathProofs` | at least one runtime state, natural numbers of slots and queue places | `TypeOK`, `NoReasonYet`, `JudgedByPinnedRules`, `EvidenceFits`, `AllowedFits`, `DrainedInTime`, `PanicOnlyAfterGrace`, `ShutdownDrainsEvents`, `SlotsOK` | types, `BlockedHasEvidence`, `JudgedByPinnedRules`, `SlotsFreed`, `PanicOnlyAfterGrace`, `ShutdownDrainsEvents`, refinement of `AuditGate` |
| `UpdaterProofs` | the initial image is healthy and the placeholder is no image | `TypeOK`, `OneTaskAtATime`, `TargetsPinned`, `Established`; `HealthInv` | types, `OneTaskAtATime`, `LeavesHealthyContainer`, `SuccessIsReal` |
| `StorageProofs` | finitely many hashes; retention periods are natural | `RetentionInv`; `RuleInv` | types, `ErasedInTime`; `ContentProven`, `FirstTraceKept`, `RiskRulesLoaded` |
| `LimitsProofs` | gate: the requested limits are integers, the default is positive; finitely many goroutines and handlers; positive limit and window | gate: `IInv`, that is `TypeOK`, finitely many holders, `HoldersCounted`, `NoLostWakeup`; `AuthInv`; `RateInv`, `BudgetInv` | types, `HoldersCounted`, `NoLostWakeup`, `AdmittedWithinLimit`, refinement of `Semaphore`; types, `GuessesBounded`, `LoggedOutStaysOut`; types, `ReviewBudget` |
| `InputsProofs` | texts are sequences of bytes and limits integers, reads fail inside a body or behind it, a blocked event has a reason that blocks | `CallInv` | `CutsFaithful`, `BodyReplayed`, `VerdictAgrees`, `ClientAddressHonest`, `ContractAgrees` |

Why the strengthenings are needed:

- *Gate.* `Release` keeps the counter from becoming negative only because it
  equals the number of holders, and that equality needs the holders to be finite.
- *Quorum.* The code compares two counters. That two passes are two different
  reviewers follows from every vote being sent once and received once
  (`VotesSentOnce`) and from the counters being the sizes of the two sides
  (`Tallied`). `CollectorKnows` carries the early stop to the decision after the
  channel has been drained.
- *Jobs.* The retry is computed from the attempts read before the claim, so the
  invariant must relate that copy to the row (`WorkerOK`); it also says that only
  a running row is ever completed, which is why a settled one stays settled, and
  that the rule is committed when the worker comes to mark the job promoted.
  `PromotionInv` says at which places of the worker a promotion of its field may
  already exist while nothing has failed.
- *Reload.* The queries of a reload are separate, so a write may fall between
  them. `BufferNewer` says that what was read is not older than what is published,
  because only the holder of `reloadMu` publishes; `BufferStaleMeansPending`
  that whatever changed after it was read has a writer still to come.
- *Request path.* A refusal comes several steps after the verdict: the invariant
  ties every reason to the place of the handler that carries it (`NoReasonYet`,
  `EvidenceFits`, `AllowedFits`), so that the one that refuses has passed the commit
  of its evidence. `SlotsOK` counts the handlers under review through every exit of
  `Evaluate`. `DrainedInTime` orders the deferred calls of `main`.
- *Updater.* What a task established at one step (file written, container
  recreated, health seen) still holds at the next because no other task runs.
  `HealthInv` adds what is healthy at each step of an update that fails and is
  undone; it is also what makes the shortcut's report true without faults.
- *Retention.* Between the statement that expires evidence and the one that
  truncates the log the plaintext is gone from the table and not from the disk:
  the invariant says for each position of the cleanup what may be left, and
  that a process that is down runs none.
- *Rule tables.* An administrator's second statement writes to an id read before.
  The id is below the next one to be handed out, so it names the same hash or no row.
  Every writer only fills in what is missing (`LegalWrite`). `FirstTraceKept` assumes
  `CollisionFree`: no two plaintexts of one hash.
- *Login.* An attempt in flight was let through with fewer failures on record than
  the limit. A row of an ended session exists only if it could not be deleted, and
  no token is issued twice.
- *Review limiter.* A window meets the buckets one after the other, so the bound
  on the current bucket says nothing of those that are gone. `BudgetInv` bounds
  the grants inside each window by the bucket's count and by the goroutines still on
  their way with an earlier stamp, each of which can add one bucket after a sweep
  (`Loose`); as long as no sweep took the bucket, two of them never overlap (`Tight`).
  The sums are kept as running totals per stamp (`granted`), so that a window's
  grants are a difference.
- *Pure functions.* There is no state to strengthen: `CallInv` says that the input
  comes from its set, and each property follows from a theorem about the function
  for every input (`EverySampleFaithful`, `EveryEvidenceFaithful`,
  `EveryAgentFaithful`, `EveryBodyReplayed`, `EveryReadingFaithful`,
  `EveryReviewFaithful`, `ForwardedAddressHonest`, `EveryContractAgrees`). Induction
  over the data is replaced by extreme elements. The byte where rune `r` starts is the
  least position with more than `r` starts up to it (`RankReached`), so exactly `r`
  runes lie before `byteOffsetAtRune` (`OffsetCounts`), front and back cannot overlap,
  and their runes add up to the limit (`KeptCount`). The ends of the evidence
  are the greatest and the least boundary of an interval. The User-Agent lies inside
  the bytes up to the last rune kept; a rune left out is over the limit with the
  printable bytes before it. Chains are cut at the last untrusted hop, bodies where the
  read-ahead ends. Four different keys out of four required ones are all of them, by
  counting (`StrictIsComplete`), which is why strict and compatible reading agree.

Only model-checked:

- all liveness properties and the refinement of `Semaphore` with its fairness
  (`ImplementsSemaphore`): they need fairness and `ENABLED`, which the proof
  system does not handle; the safety part of that refinement is proved;
- `ScannersAgree` (parser and scan): its reference definitions are recursive over
  nested data, which the proof system does not support; a proof would be an
  induction over that data.

The type invariants of the proved components are theorems and not repeated in the runs.

## 5. Plan

1. Done: gate, quorum, jobs, reload, request path, updater, limiters and sessions,
   rule library, evidence retention, the pure functions against reference
   definitions.
2. Done: the safety properties of all state machines are theorems, as are the two
   refinements (the gate's without fairness) and the properties of the pure
   functions that are not recursive.
3. Left: the release check of the update agent; parser and scan for inputs of any
   depth, once the proof system supports induction over nested data.

## 6. Not modelled

Configuration loading (environment read once, each check one comparison),
migrations that only create tables and columns, the matchers of client profiles
(regular expressions and substrings of a User-Agent), the first administrator and
password hashing, listings and the overview (they only read), the release check
and the status report of the update agent, the console (presentation), installer and
scripts (shell around the system), HTTP and wire formats.
