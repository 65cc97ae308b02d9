----------------------------- MODULE RequestPath -----------------------------
(***************************************************************************)
(* The data plane: proxy.Server.Handler (internal/proxy/proxy.go),         *)
(* auditorAdapter (cmd/nocyber-guard/main.go), Engine.Evaluate             *)
(* (internal/audit/engine.go), the bounded queue and the writer of audit   *)
(* events, and the shutdown sequence of main.  Requests run concurrently   *)
(* with each other, with reloads and with the shutdown.                    *)
(*                                                                         *)
(* A generation is a published runtimeState, reduced to what Evaluate      *)
(* branches on.  What a request carries, whether its field is the ruled    *)
(* one and what the reviewer and the rate limiter answer is chosen         *)
(* nondeterministically.  The offer of an asynchronous review at the end   *)
(* of Evaluate never blocks and is Submit of ReviewJobs.                   *)
(***************************************************************************)
EXTENDS Naturals, Sequences, FiniteSets

CONSTANTS Requests,
          Generations,  \* runtime states that may be published
          Slots,        \* limit of the AI gate
          EventCap,     \* capacity of rt.events
          None          \* the event writer is waiting

Kinds == {"unreviewed", "allowed"}

\* An allow event: of the observation that routing makes of a protocol it does
\* not review, or of the way the audit let the request through.
AllowEvents == Requests \X Kinds

\* A generation: auditing enabled, the library of the ruled field, an AI
\* endpoint configured.
ASSUME PathAssumption ==
  /\ Generations \subseteq [enabled : BOOLEAN, kind : {"none", "trusted", "risk"},
                            reviewer : BOOLEAN]
  /\ Generations # {}
  /\ Slots \in Nat /\ EventCap \in Nat
  /\ None \notin AllowEvents

VARIABLES
  live,      \* rt.state
  req,       \* each request: where it is, its pinned state, its reason
  inUse,     \* slots of the AI gate in use
  events,    \* rt.events: the queued allow events
  writing,   \* the event the writer is committing
  log,       \* the committed allow events
  evidence,  \* requests with a committed blocked event and its evidence
  phase,     \* progress of the shutdown
  graceOver  \* the 20 seconds of Shutdown passed with requests in flight

vars == <<live, req, inUse, events, writing, log, evidence, phase, graceOver>>
storeVars == <<log, evidence>>
shutdownVars == <<phase, graceOver>>

Answered == {"blocked", "forwarded", "panicked"}
Places == {"idle", "route", "capture", "evaluate", "acquire", "review", "block", "finish",
           "backfill", "deny", "forward"} \cup Answered

Reasons == {"", "bypass", "risk_hash_match", "trusted_hash_match", "ai_unavailable",
            "ai_rate_limited", "ai_bulkhead", "ai_fail_open", "ai_pass", "ai_reject",
            "storage_fail_open"}

InFlight == {r \in Requests : req[r].at \notin {"idle"} \cup Answered}

\* The requests between acquire and the deferred release.
Reviewing == {r \in Requests :
  \/ req[r].at = "review"
  \/ req[r].at \in {"block", "finish"} /\ req[r].reason \in {"ai_pass", "ai_fail_open", "ai_reject"}}

Closed == phase \in {"eventsClosed", "storeClosed"}

Init ==
  /\ live \in Generations
  /\ req = [r \in Requests |-> [at |-> "idle", gen |-> live, reason |-> ""]]
  /\ inUse = 0
  /\ events = <<>> /\ writing = None
  /\ log = {} /\ evidence = {}
  /\ phase = "serving" /\ graceOver = FALSE
-----------------------------------------------------------------------------
(* Steps of a request.                                                     *)

Goto(r, place, reason) == req' = [req EXCEPT ![r].at = place, ![r].reason = reason]

\* Mutant: the send waits for room in the queue.
RecordAuditEventBlocking(e) == Len(events) < EventCap /\ events' = Append(events, e)

\* RecordAuditEvent: a send that drops the event when the queue is full.
RecordAuditEvent(e) == events' = IF Len(events) < EventCap THEN Append(events, e) ELSE events

\* Record an allow event and go on.  Sending on a closed channel panics; net/http
\* ends the request.
RecordThen(r, kind, place, reason) ==
  IF Closed THEN Goto(r, "panicked", reason) /\ UNCHANGED events
  ELSE Goto(r, place, reason) /\ RecordAuditEvent(<<r, kind>>)

\* Mutant: the slot is released only after a review that allowed the request.
ReleaseAfterReviewOnly(r) == inUse' = IF req[r].at = "review" THEN inUse - 1 ELSE inUse

\* defer release(), whichever way Evaluate is left.
Release(r) == inUse' = IF r \in Reviewing THEN inUse - 1 ELSE inUse

\* The request has its reason; it still is inside Evaluate.
Decided(r, place, reason) ==
  /\ Goto(r, place, reason)
  /\ UNCHANGED <<live, inUse, events, writing, storeVars, shutdownVars>>

\* net/http accepts a request while the server is not shutting down.
Arrive(r) ==
  /\ phase = "serving"
  /\ req[r].at = "idle"
  /\ Goto(r, "route", "")
  /\ UNCHANGED <<live, inUse, events, writing, storeVars, shutdownVars>>

\* Pinned to the current state, the request goes on to the audit.
Select(r) == live.enabled /\ req' = [req EXCEPT ![r].at = "capture", ![r].gen = live]

\* WebSocket upgrades and paths of unsupported protocols are observed.  Then what
\* ShouldAudit selects is audited, an observed path too if it is one of the
\* protected_paths, and the rest (every WebSocket upgrade) is forwarded.
Route(r) ==
  /\ req[r].at = "route"
  /\ \/ RecordThen(r, "unreviewed", "forward", "bypass")
     \/ ~Closed /\ Select(r) /\ RecordAuditEvent(<<r, "unreviewed">>)
     \/ Goto(r, "forward", "") /\ UNCHANGED events
     \/ Select(r) /\ UNCHANGED events
  /\ UNCHANGED <<live, inUse, writing, storeVars, shutdownVars>>

\* captureBody and decodeAuditBody: an unreadable, oversized or undecodable body
\* is observed and forwarded.
CaptureBody(r) ==
  /\ req[r].at = "capture"
  /\ \/ RecordThen(r, "allowed", "forward", "bypass")
     \/ Goto(r, "evaluate", "") /\ UNCHANGED events
  /\ UNCHANGED <<live, inUse, writing, storeVars, shutdownVars>>

\* Mutant: Evaluate loads the current state again.
requestStateUnpinned(r) == live

\* requestState: the state pinned to the request's context.
requestState(r) == req[r].gen

\* Engine.Evaluate up to the gate: bypasses, the rule snapshot, the missing
\* reviewer and the rate limiter.
Evaluate(r) ==
  LET g == requestState(r) IN
  /\ req[r].at = "evaluate"
  /\ \/ Decided(r, "finish", "bypass")
     \/ g.kind = "risk" /\ Decided(r, "block", "risk_hash_match")
     \/ g.kind = "trusted" /\ Decided(r, "finish", "trusted_hash_match")
     \/ ~g.reviewer /\ Decided(r, "finish", "ai_unavailable")
     \/ g.reviewer /\ (Decided(r, "finish", "ai_rate_limited") \/ Decided(r, "acquire", ""))

\* ConcurrencyGate.Acquire (Bulkhead.tla), the queue timeout included.
Acquire(r) ==
  /\ req[r].at = "acquire"
  /\ \/ /\ inUse < Slots
        /\ inUse' = inUse + 1
        /\ Goto(r, "review", "")
        /\ UNCHANGED <<live, events, writing, storeVars, shutdownVars>>
     \/ Decided(r, "finish", "ai_bulkhead")

\* Only a valid reject with enough confidence blocks; an error, a timeout, an
\* invalid or an unsure verdict allows.
Review(r) ==
  /\ req[r].at = "review"
  /\ \/ \E reason \in {"ai_pass", "ai_fail_open"} : Decided(r, "finish", reason)
     \/ Decided(r, "block", "ai_reject")

\* RecordBlockedEvent: the event and its evidence in one transaction.
RecordBlockedEvent(r) == phase # "storeClosed" /\ evidence' = evidence \cup {r}

\* Mutant: the error of RecordBlockedEvent is ignored.
FinishBlockAnyway(r) ==
  /\ req[r].at = "block"
  /\ RecordBlockedEvent(r) \/ UNCHANGED evidence
  /\ Goto(r, IF req[r].reason = "risk_hash_match" THEN "backfill" ELSE "deny", req[r].reason)
  /\ Release(r)
  /\ UNCHANGED <<live, events, writing, log, shutdownVars>>

\* finishBlock: the request is blocked only if RecordBlockedEvent commits.
FinishBlock(r) ==
  /\ req[r].at = "block"
  /\ \/ /\ RecordBlockedEvent(r)
        /\ Goto(r, IF req[r].reason = "risk_hash_match" THEN "backfill" ELSE "deny", req[r].reason)
        /\ Release(r)
        /\ UNCHANGED <<live, events, writing, log, shutdownVars>>
     \/ Decided(r, "finish", req[r].reason)

\* What Engine.finish records as the reason: that of the decision, or that the
\* evidence of a block could not be stored.
FinalReason(r) == IF req[r].reason \in {"risk_hash_match", "ai_reject"} THEN "storage_fail_open"
                  ELSE req[r].reason

\* Engine.finish and the rest of auditorAdapter.Evaluate for an allowed request.
Finish(r) ==
  /\ req[r].at = "finish"
  /\ RecordThen(r, "allowed",
                IF req[r].reason = "trusted_hash_match" THEN "backfill" ELSE "forward",
                FinalReason(r))
  /\ Release(r)
  /\ UNCHANGED <<live, writing, storeVars, shutdownVars>>

\* Mutant: a failed StoreHashContext fails open.
StoreHashContextFailOpen(r) ==
  /\ req[r].at = "backfill"
  /\ \/ Goto(r, IF req[r].reason = "risk_hash_match" THEN "deny" ELSE "forward", req[r].reason)
     \/ Goto(r, "forward", req[r].reason)
  /\ UNCHANGED <<live, inUse, events, writing, storeVars, shutdownVars>>

\* StoreHashContext: its failure is only logged.
StoreHashContext(r) ==
  /\ req[r].at = "backfill"
  /\ Goto(r, IF req[r].reason = "risk_hash_match" THEN "deny" ELSE "forward", req[r].reason)
  /\ UNCHANGED <<live, inUse, events, writing, storeVars, shutdownVars>>

\* writeBlocked, or ReverseProxy.ServeHTTP until the response is complete.
Answer(r) ==
  /\ \/ req[r].at = "deny" /\ Goto(r, "blocked", req[r].reason)
     \/ req[r].at = "forward" /\ Goto(r, "forwarded", req[r].reason)
  /\ UNCHANGED <<live, inUse, events, writing, storeVars, shutdownVars>>
-----------------------------------------------------------------------------
(* Reloads, the event writer and the shutdown.                             *)

\* runtime.reload publishes another state (Reload.tla).
Publish(g) ==
  /\ g # live /\ phase # "storeClosed"
  /\ live' = g
  /\ UNCHANGED <<req, inUse, events, writing, storeVars, shutdownVars>>

WriterTakes ==
  /\ writing = None /\ events # <<>>
  /\ writing' = Head(events)
  /\ events' = Tail(events)
  /\ UNCHANGED <<live, req, inUse, storeVars, shutdownVars>>

\* A failed write is only logged.
WriterCommits ==
  /\ writing # None
  /\ log' \in {log, log \cup {writing}}
  /\ writing' = None
  /\ UNCHANGED <<live, req, inUse, events, evidence, shutdownVars>>

Shutdown ==
  /\ phase = "serving"
  /\ phase' = "draining"
  /\ UNCHANGED <<live, req, inUse, events, writing, storeVars, graceOver>>

\* Mutant: Shutdown's result is not waited for.
ShutdownReturnsAtOnce ==
  /\ phase = "draining"
  /\ phase' = "stopping"
  /\ UNCHANGED <<live, req, inUse, events, writing, storeVars, graceOver>>

\* http.Server.Shutdown returns when no request is in flight or after 20 s.
ShutdownReturns ==
  /\ phase = "draining"
  /\ phase' = "stopping"
  /\ graceOver' = (InFlight # {})
  /\ UNCHANGED <<live, req, inUse, events, writing, storeVars>>

\* The deferred calls of main, last first: stopCleanup, stopEventWriter ...
CloseEvents ==
  /\ phase = "stopping"
  /\ phase' = "eventsClosed"
  /\ UNCHANGED <<live, req, inUse, events, writing, storeVars, graceOver>>

\* Mutant: the store is closed before the writer has ended.
CloseStoreEarly ==
  /\ phase = "eventsClosed"
  /\ phase' = "storeClosed"
  /\ UNCHANGED <<live, req, inUse, events, writing, storeVars, graceOver>>

\* ... which waits for the writer, then asyncRunner.close and store.Close.
CloseStore ==
  /\ phase = "eventsClosed"
  /\ events = <<>> /\ writing = None
  /\ phase' = "storeClosed"
  /\ UNCHANGED <<live, req, inUse, events, writing, storeVars, graceOver>>

\* What a request does once its body has arrived, up to its fate.
Decide(r) == \/ Evaluate(r) \/ Acquire(r) \/ Review(r) \/ FinishBlock(r) \/ Finish(r)
             \/ StoreHashContext(r)

Next == \/ \E r \in Requests : Arrive(r) \/ Route(r) \/ CaptureBody(r) \/ Decide(r) \/ Answer(r)
        \/ \E g \in Generations : Publish(g)
        \/ WriterTakes \/ WriterCommits
        \/ Shutdown \/ ShutdownReturns \/ CloseEvents \/ CloseStore

SafetySpec == Init /\ [][Next]_vars

\* Handlers are scheduled, and every wait inside Evaluate has a timeout (the
\* gate's, the reviewer's, SQLite's).  The client may take for ever to send its
\* body, the upstream to answer, and the writer to commit.
Spec == SafetySpec /\ \A r \in Requests : WF_vars(Decide(r))
-----------------------------------------------------------------------------
TypeOK ==
  /\ live \in Generations
  /\ req \in [Requests -> [at : Places, gen : Generations, reason : Reasons]]
  /\ inUse \in 0..Slots
  /\ events \in Seq(AllowEvents) /\ Len(events) <= EventCap
  /\ writing \in AllowEvents \cup {None}
  /\ log \subseteq AllowEvents /\ evidence \subseteq Requests
  /\ phase \in {"serving", "draining", "stopping", "eventsClosed", "storeClosed"}
  /\ graceOver \in BOOLEAN

\* The allow events that are committed, being written or queued.
Recorded == log \cup {writing} \cup {events[i] : i \in 1..Len(events)}

\* A client is refused only when the event and the evidence that justify it are
\* committed, and no event says that the audit let a request so convicted through.
\* (That its protocol is not reviewed may have been recorded of it, by Route.)
BlockedHasEvidence ==
  /\ \A r \in Requests : req[r].at \in {"deny", "blocked"} => r \in evidence
  /\ \A r \in evidence : <<r, "allowed">> \notin Recorded

\* A request is judged by the rules of the state that selected it for auditing,
\* even if a reload publishes others while its body is being read.
JudgedByPinnedRules ==
  \A r \in Requests :
    /\ req[r].reason = "risk_hash_match" => req[r].gen.kind = "risk"
    /\ req[r].reason = "trusted_hash_match" => req[r].gen.kind = "trusted"

\* Every way out of Evaluate gives its slot back: failed evidence, a panic on the
\* closed event queue, a timeout.
SlotsFreed == inUse = Cardinality(Reviewing)

\* A handler meets the closed event queue only if it outlived Shutdown's 20 s.
PanicOnlyAfterGrace == \A r \in Requests : req[r].at = "panicked" => graceOver

\* The store is closed only after the writer has handled every queued event.
ShutdownDrainsEvents == phase = "storeClosed" => events = <<>> /\ writing = None

\* A request whose body has arrived is forwarded or refused, even if the event
\* writer has stopped for ever with its queue full.
AnswersDespiteWriter ==
  \A r \in Requests : req[r].at = "evaluate" ~> req[r].at \in {"forward", "deny"} \cup Answered

Fate(r) == IF req[r].at = "blocked" THEN "blocked"
           ELSE IF req[r].at \in {"forward", "forwarded"} THEN "forwarded"
           ELSE IF req[r].at = "panicked" THEN "aborted" ELSE "pending"

Gate == INSTANCE AuditGate WITH fate <- [r \in Requests |-> Fate(r)]

\* The data plane implements the fail-open gate.
ImplementsAuditGate == Gate!Spec
=============================================================================
