-------------------------- MODULE RequestPathProofs --------------------------
(***************************************************************************)
(* Proofs about RequestPath for any set of requests, any runtime states,   *)
(* any limit of the AI gate and any capacity of the event queue.  Requests *)
(* need not be finite: that finitely many of them hold a slot is part of   *)
(* the invariant.                                                          *)
(***************************************************************************)
EXTENDS RequestPath, FiniteSetTheorems, SequenceTheorems, TLAPS

\* The queued events.
Queued == {events[i] : i \in 1..Len(events)}

\* What is kept of a request, and what it means for one to hold a slot or to
\* be on its way to a refusal with the evidence stored.
Row == [at : Places, gen : Generations, reason : Reasons]

HoldsSlot(row) ==
  \/ row.at = "review"
  \/ row.at \in {"block", "finish"} /\ row.reason \in {"ai_pass", "ai_fail_open", "ai_reject"}

Convicted(row) == \/ row.at \in {"deny", "blocked"}
                  \/ row.at = "backfill" /\ row.reason = "risk_hash_match"

Judged(row) == /\ row.reason = "risk_hash_match" => row.gen.kind = "risk"
               /\ row.reason = "trusted_hash_match" => row.gen.kind = "trusted"

\* A request has no reason before it is pinned to a state.
NoReasonYet == \A r \in Requests : req[r].at = "route" => req[r].reason = ""

\* Exactly the requests on their way to a refusal have evidence: a failed
\* RecordBlockedEvent leaves none behind.
EvidenceFits == \A r \in Requests : r \in evidence <=> Convicted(req[r])

\* That the audit let a request through is recorded only when it can no longer
\* be convicted.
AllowedFits ==
  \A r \in Requests : <<r, "allowed">> \in Recorded =>
    r \notin evidence /\ req[r].at \in {"backfill", "forward", "forwarded"}

\* The grace period cannot be over before Shutdown has returned, and after it
\* has returned in time no request is in flight.
DrainedInTime ==
  /\ phase \in {"serving", "draining"} => ~graceOver
  /\ phase \in {"stopping", "eventsClosed", "storeClosed"} /\ ~graceOver => InFlight = {}

SlotsOK == IsFiniteSet(Reviewing) /\ SlotsFreed

IInv == /\ TypeOK /\ NoReasonYet /\ JudgedByPinnedRules /\ EvidenceFits /\ AllowedFits
        /\ DrainedInTime /\ PanicOnlyAfterGrace /\ ShutdownDrainsEvents /\ SlotsOK
-----------------------------------------------------------------------------
(* What one step of a request may do, and that it preserves the invariant. *)

\* The slots after request r has become row.
SlotMove(r, row) ==
  \/ (HoldsSlot(row) <=> HoldsSlot(req[r])) /\ inUse' = inUse
  \/ HoldsSlot(row) /\ ~HoldsSlot(req[r]) /\ inUse < Slots /\ inUse' = inUse + 1
  \/ ~HoldsSlot(row) /\ HoldsSlot(req[r]) /\ inUse' = inUse - 1

\* The event queue after request r has become row.
EventMove(r, row) ==
  \/ events' = events
  \/ \E kind \in Kinds :
       /\ events' = Append(events, <<r, kind>>) /\ Len(events) < EventCap /\ ~Closed
       /\ kind = "allowed" =>
            r \notin evidence' /\ row.at \in {"backfill", "forward", "forwarded"}

\* A recorded request can only go on to be forwarded.
AllowedMove(r, row) ==
  req[r].at \in {"backfill", "forward", "forwarded"} /\ r \notin evidence =>
    r \notin evidence' /\ row.at \in {"backfill", "forward", "forwarded"}

\* A request starts only while the server accepts, and panics only after the
\* grace period.
InTimeMove(r, row) ==
  /\ req[r].at \in {"idle"} \cup Answered => row.at \in Answered \/ phase \in {"serving", "draining"}
  /\ row.at = "panicked" => graceOver

RequestMove(r, row) ==
  /\ req' = [req EXCEPT ![r] = row]
  /\ row.at = "route" => row.reason = ""
  /\ Judged(row)
  /\ evidence' \in {evidence, evidence \cup {r}} /\ (r \in evidence' <=> Convicted(row))
  /\ SlotMove(r, row) /\ EventMove(r, row) /\ AllowedMove(r, row) /\ InTimeMove(r, row)
  /\ UNCHANGED <<live, writing, log, phase, graceOver>>

\* The slots in use stay the requests between acquire and release.
LEMMA SlotsStep ==
  ASSUME IInv, NEW r \in Requests, NEW row \in Row, RequestMove(r, row)
  PROVE  SlotsOK' /\ inUse' \in 0..Slots
  <1>1. /\ req' \in [Requests -> Row] /\ req'[r] = row
        /\ \A s \in Requests : s # r => req'[s] = req[s]
    BY DEF RequestMove, IInv, TypeOK, Row
  <1>2. /\ Reviewing = {s \in Requests : HoldsSlot(req[s])}
        /\ Reviewing' = {s \in Requests : HoldsSlot(req'[s])}
    BY DEF Reviewing, HoldsSlot
  <1>3. /\ IsFiniteSet(Reviewing) /\ inUse = Cardinality(Reviewing)
        /\ inUse \in 0..Slots /\ Slots \in Nat
    BY PathAssumption DEF IInv, SlotsOK, SlotsFreed, TypeOK
  <1>4. CASE (HoldsSlot(row) <=> HoldsSlot(req[r])) /\ inUse' = inUse
    <2>1. Reviewing' = Reviewing BY <1>1, <1>2, <1>4
    <2>2. QED BY <1>3, <1>4, <2>1 DEF SlotsOK, SlotsFreed
  <1>5. CASE HoldsSlot(row) /\ ~HoldsSlot(req[r]) /\ inUse < Slots /\ inUse' = inUse + 1
    <2>1. Reviewing' = Reviewing \cup {r} /\ r \notin Reviewing BY <1>1, <1>2, <1>5
    <2>2. IsFiniteSet(Reviewing') /\ Cardinality(Reviewing') = Cardinality(Reviewing) + 1
      BY <1>3, <2>1, FS_AddElement
    <2>3. QED BY <1>3, <1>5, <2>2 DEF SlotsOK, SlotsFreed
  <1>6. CASE ~HoldsSlot(row) /\ HoldsSlot(req[r]) /\ inUse' = inUse - 1
    <2>1. Reviewing' = Reviewing \ {r} /\ r \in Reviewing BY <1>1, <1>2, <1>6
    <2>2. IsFiniteSet(Reviewing') /\ Cardinality(Reviewing') = Cardinality(Reviewing) - 1
      BY <1>3, <2>1, FS_RemoveElement
    <2>3. Cardinality(Reviewing) # 0 BY <1>3, <2>1, FS_EmptySet
    <2>4. QED BY <1>3, <1>6, <2>2, <2>3 DEF SlotsOK, SlotsFreed
  <1>7. QED BY <1>4, <1>5, <1>6 DEF RequestMove, SlotMove

\* What one step of request r may add to the queue.
MayQueue(r, row, e) ==
  \/ e = <<r, "unreviewed">>
  \/ e = <<r, "allowed">> /\ r \notin evidence' /\ row.at \in {"backfill", "forward", "forwarded"}

\* Only events of the request that moves are added to the event queue.
LEMMA QueueStep ==
  ASSUME IInv, NEW r \in Requests, NEW row \in Row, EventMove(r, row)
  PROVE  /\ events' \in Seq(AllowEvents) /\ Len(events') <= EventCap
         /\ \A e \in Queued' : e \in Queued \/ MayQueue(r, row, e)
  <1>1. events \in Seq(AllowEvents) /\ Len(events) <= EventCap
    BY DEF IInv, TypeOK
  <1>2. CASE events' = events
    BY <1>1, <1>2 DEF Queued
  <1>3. ASSUME NEW kind \in Kinds,
               events' = Append(events, <<r, kind>>), Len(events) < EventCap,
               kind = "allowed" =>
                 r \notin evidence' /\ row.at \in {"backfill", "forward", "forwarded"}
        PROVE  /\ events' \in Seq(AllowEvents) /\ Len(events') <= EventCap
               /\ \A e \in Queued' : e \in Queued \/ MayQueue(r, row, e)
    <2> DEFINE new == <<r, kind>>
    <2>0. new \in AllowEvents /\ MayQueue(r, row, new)
      BY <1>3 DEF AllowEvents, MayQueue, Kinds
    <2>a. events' = Append(events, new)
      BY <1>3
    <2> HIDE DEF new
    <2>1. /\ events' \in Seq(AllowEvents) /\ Len(events') = Len(events) + 1
          /\ \A i \in 1..Len(events) : events'[i] = events[i]
          /\ events'[Len(events) + 1] = new
      BY <1>1, <2>0, <2>a
    <2>2. Len(events') <= EventCap
      BY <1>1, <1>3, <2>1, PathAssumption
    <2>3. \A e \in Queued' : e \in Queued \/ e = new
      <3>1. \A i \in 1..Len(events') : i \in 1..Len(events) \/ i = Len(events) + 1
        BY <1>1, <2>1
      <3>2. QED BY <2>1, <3>1 DEF Queued
    <2>4. QED BY <2>0, <2>1, <2>2, <2>3
  <1>4. QED BY <1>2, <1>3 DEF EventMove

\* A step of a request preserves the invariant.
LEMMA RequestStep ==
  ASSUME IInv, NEW r \in Requests, NEW row \in Row, RequestMove(r, row)
  PROVE  IInv'
  <1>1. /\ req' \in [Requests -> Row] /\ req'[r] = row
        /\ \A s \in Requests : s # r => req'[s] = req[s]
    BY DEF RequestMove, IInv, TypeOK, Row
  <1>2. /\ events' \in Seq(AllowEvents) /\ Len(events') <= EventCap
        /\ \A e \in Queued' : e \in Queued \/ MayQueue(r, row, e)
    BY QueueStep DEF RequestMove
  <1>3. SlotsOK' /\ inUse' \in 0..Slots
    BY SlotsStep
  <1>4. evidence' \subseteq Requests
        /\ \A s \in Requests : s # r => (s \in evidence' <=> s \in evidence)
    BY DEF RequestMove, IInv, TypeOK
  <1>5. TypeOK'
    BY <1>1, <1>2, <1>3, <1>4 DEF TypeOK, Row, IInv, RequestMove
  <1>6. NoReasonYet'
    BY <1>1 DEF NoReasonYet, IInv, RequestMove
  <1>7. JudgedByPinnedRules'
    BY <1>1 DEF JudgedByPinnedRules, Judged, IInv, RequestMove
  <1>8. EvidenceFits'
    BY <1>1, <1>4 DEF EvidenceFits, IInv, RequestMove
  <1>9. AllowedFits'
    <2> SUFFICES ASSUME NEW s \in Requests, <<s, "allowed">> \in Recorded'
                 PROVE  s \notin evidence' /\ req'[s].at \in {"backfill", "forward", "forwarded"}
      BY DEF AllowedFits
    <2>1. <<s, "allowed">> \in log \cup {writing} \cup Queued'
      BY DEF RequestMove, Recorded, Queued
    <2>2. CASE <<s, "allowed">> \in Recorded
      <3>1. s \notin evidence /\ req[s].at \in {"backfill", "forward", "forwarded"}
        BY <2>2 DEF AllowedFits, IInv
      <3>2. CASE s # r
        BY <1>1, <1>4, <3>1, <3>2
      <3>3. CASE s = r
        BY <1>1, <3>1, <3>3 DEF RequestMove, AllowedMove
      <3>4. QED BY <3>2, <3>3
    <2>3. CASE <<s, "allowed">> \notin Recorded
      <3>1. MayQueue(r, row, <<s, "allowed">>)
        BY <1>2, <2>1, <2>3 DEF Recorded, Queued
      <3>2. QED BY <1>1, <3>1 DEF MayQueue
    <2>4. QED BY <2>2, <2>3
  <1>10. DrainedInTime'
    BY <1>1 DEF DrainedInTime, InFlight, IInv, RequestMove, InTimeMove, Answered
  <1>11. PanicOnlyAfterGrace'
    BY <1>1 DEF PanicOnlyAfterGrace, IInv, RequestMove, InTimeMove
  <1>12. ShutdownDrainsEvents'
    BY DEF ShutdownDrainsEvents, IInv, RequestMove, EventMove, Closed
  <1>13. QED
    BY <1>3, <1>5, <1>6, <1>7, <1>8, <1>9, <1>10, <1>11, <1>12 DEF IInv
-----------------------------------------------------------------------------
(* Every step of a request is such a move.                                 *)

\* The request after Goto.
Target(r, place, reason) == [req[r] EXCEPT !.at = place, !.reason = reason]

\* Goto replaces the request by its target and nothing else.
LEMMA GotoTarget ==
  ASSUME TypeOK, NEW r \in Requests
  PROVE  \A place \in Places, reason \in Reasons :
         /\ Target(r, place, reason) \in Row
         /\ Target(r, place, reason).at = place
         /\ Target(r, place, reason).reason = reason
         /\ Target(r, place, reason).gen = req[r].gen
         /\ Goto(r, place, reason) => req' = [req EXCEPT ![r] = Target(r, place, reason)]
  <1> TAKE place \in Places, reason \in Reasons
  <1>1. req \in [Requests -> Row] /\ req[r] \in Row
    BY DEF TypeOK, Row
  <1>2. /\ Target(r, place, reason) \in Row
        /\ Target(r, place, reason).at = place
        /\ Target(r, place, reason).reason = reason
        /\ Target(r, place, reason).gen = req[r].gen
    BY <1>1 DEF Target, Row
  <1>3. Goto(r, place, reason) => req' = [req EXCEPT ![r] = Target(r, place, reason)]
    BY <1>1 DEF Target, Goto
  <1>4. QED BY <1>2, <1>3

\* What the invariant says of one request.
LEMMA RequestFacts ==
  ASSUME IInv, NEW r \in Requests
  PROVE  /\ req[r] \in Row
         /\ req[r].at = "route" => req[r].reason = ""
         /\ Judged(req[r])
         /\ r \in evidence <=> Convicted(req[r])
         /\ phase \in {"stopping", "eventsClosed", "storeClosed"} /\ ~graceOver =>
              req[r].at \in {"idle"} \cup Answered
         /\ req[r].at = "panicked" => graceOver
         /\ r \in Reviewing <=> HoldsSlot(req[r])
  <1>1. req[r] \in Row BY DEF IInv, TypeOK, Row
  <1>2. /\ req[r].at = "route" => req[r].reason = ""
        /\ Judged(req[r])
        /\ r \in evidence <=> Convicted(req[r])
        /\ req[r].at = "panicked" => graceOver
    BY DEF IInv, NoReasonYet, JudgedByPinnedRules, Judged, EvidenceFits, PanicOnlyAfterGrace
  <1>3. phase \in {"stopping", "eventsClosed", "storeClosed"} /\ ~graceOver =>
          req[r].at \in {"idle"} \cup Answered
    BY DEF IInv, DrainedInTime, InFlight
  <1>4. r \in Reviewing <=> HoldsSlot(req[r])
    BY DEF Reviewing, HoldsSlot
  <1>5. QED BY <1>1, <1>2, <1>3, <1>4

\* What such a step must respect.
QuietTo(r, row) ==
  /\ row.at = "route" => row.reason = ""
  /\ Judged(row)
  /\ Convicted(row) <=> Convicted(req[r])
  /\ HoldsSlot(row) <=> HoldsSlot(req[r])
  /\ req[r].at \in {"backfill", "forward", "forwarded"} /\ ~Convicted(req[r]) =>
       row.at \in {"backfill", "forward", "forwarded"}
  /\ req[r].at \in {"idle"} \cup Answered => phase \in {"serving", "draining"}
  /\ row.at # "panicked"

\* Deciding, and every other step that changes nothing but the request.
LEMMA QuietMove ==
  ASSUME IInv, NEW r \in Requests, NEW row \in Row, req' = [req EXCEPT ![r] = row],
         QuietTo(r, row),
         UNCHANGED <<live, inUse, events, writing, storeVars, shutdownVars>>
  PROVE  IInv'
  <1>1. (r \in evidence <=> Convicted(req[r])) /\ evidence' = evidence
    BY RequestFacts DEF storeVars
  <1>2. RequestMove(r, row)
    BY <1>1 DEF QuietTo, RequestMove, SlotMove, EventMove, AllowedMove, InTimeMove,
                storeVars, shutdownVars
  <1>3. QED BY <1>2, RequestStep

\* Recording an allow event and going on, the slot given back, or panicking on
\* the closed queue.
LEMMA RecordMove ==
  ASSUME IInv, NEW r \in Requests, NEW kind \in Kinds,
         NEW place \in {"backfill", "forward"}, NEW reason \in Reasons,
         RecordThen(r, kind, place, reason),
         Release(r),
         UNCHANGED <<live, writing, storeVars, shutdownVars>>,
         req[r].at \in {"route", "capture", "finish"},
         Judged(Target(r, place, reason)),
         ~Convicted(Target(r, place, reason))
  PROVE  IInv'
  <1> DEFINE p == IF Closed THEN "panicked" ELSE place
             row == Target(r, p, reason)
  <1>1. p \in Places /\ Goto(r, p, reason)
    BY DEF RecordThen, Places, Answered
  <1>2. row \in Row /\ req' = [req EXCEPT ![r] = row]
    BY <1>1, GotoTarget DEF IInv
  <1>3. row.at = p /\ row.reason = reason /\ row.gen = Target(r, place, reason).gen
        /\ Target(r, place, reason).at = place /\ Target(r, place, reason).reason = reason
    <2>1. place \in Places BY DEF Places
    <2>2. QED BY <1>1, <2>1, GotoTarget DEF IInv
  <1>4. /\ r \in evidence <=> Convicted(req[r])
        /\ phase \in {"stopping", "eventsClosed", "storeClosed"} /\ ~graceOver =>
             req[r].at \in {"idle"} \cup Answered
        /\ r \in Reviewing <=> HoldsSlot(req[r])
    BY RequestFacts
  <1>5. r \notin evidence /\ evidence' = evidence
    BY <1>4 DEF Convicted, storeVars
  <1>6. Judged(row) /\ ~Convicted(row) /\ ~HoldsSlot(row) /\ row.at # "route"
    BY <1>3 DEF Judged, Convicted, HoldsSlot
  <1>7. SlotMove(r, row)
    BY <1>4, <1>6 DEF SlotMove, Release
  <1>8. EventMove(r, row)
    BY <1>3, <1>5 DEF EventMove, RecordThen, RecordAuditEvent
  <1>9. AllowedMove(r, row)
    BY DEF AllowedMove
  <1>10. InTimeMove(r, row)
    BY <1>3, <1>4 DEF InTimeMove, Closed, Answered
  <1> HIDE DEF row
  <1>11. RequestMove(r, row)
    BY <1>2, <1>5, <1>6, <1>7, <1>8, <1>9, <1>10 DEF RequestMove, storeVars, shutdownVars
  <1>12. QED BY <1>2, <1>11, RequestStep
-----------------------------------------------------------------------------
(* One lemma per handler step.                                             *)

\* A decision inside Evaluate.
LEMMA DecidedStep ==
  ASSUME IInv, NEW r \in Requests, NEW place \in Places, NEW reason \in Reasons,
         Decided(r, place, reason), QuietTo(r, Target(r, place, reason))
  PROVE  IInv'
  <1>1. /\ Target(r, place, reason) \in Row
        /\ req' = [req EXCEPT ![r] = Target(r, place, reason)]
    BY GotoTarget DEF Decided, IInv
  <1>2. QED BY <1>1, QuietMove DEF Decided

\* net/http hands a request to the handler.
LEMMA ArriveStep == ASSUME IInv, NEW r \in Requests, Arrive(r) PROVE IInv'
  <1>1. PICK reason \in Reasons : reason = ""
    BY DEF Reasons
  <1> DEFINE row == Target(r, "route", reason)
  <1>2. /\ row \in Row /\ row.at = "route" /\ row.reason = ""
        /\ req' = [req EXCEPT ![r] = row]
    <2>1. "route" \in Places
      BY DEF Places
    <2>2. row \in Row /\ row.at = "route" /\ row.reason = reason
      BY <2>1, GotoTarget DEF IInv
    <2>3. req' = [req EXCEPT ![r] = row]
      BY <1>1 DEF Arrive, Goto, Target, IInv, TypeOK
    <2>4. QED BY <1>1, <2>2, <2>3
  <1> HIDE DEF row
  <1>3. QuietTo(r, row)
    BY <1>2 DEF QuietTo, Arrive, Judged, Convicted, HoldsSlot, Answered
  <1>4. QED BY <1>2, <1>3, QuietMove DEF Arrive

\* What cannot be audited is recorded and forwarded.
LEMMA BypassStep ==
  ASSUME IInv, NEW r \in Requests, NEW kind \in Kinds, req[r].at \in {"route", "capture"},
         RecordThen(r, kind, "forward", "bypass"),
         UNCHANGED <<live, inUse, writing, storeVars, shutdownVars>>
  PROVE  IInv'
  <1>1. "forward" \in Places /\ "bypass" \in Reasons
    BY DEF Places, Reasons
  <1> DEFINE row == Target(r, "forward", "bypass")
  <1>2. row.at = "forward" /\ row.reason = "bypass"
    BY <1>1, GotoTarget DEF IInv
  <1>3. Judged(row) /\ ~Convicted(row)
    BY <1>2 DEF Judged, Convicted
  <1>4. r \notin Reviewing
    BY RequestFacts DEF HoldsSlot
  <1>5. Release(r)
    BY <1>4 DEF Release
  <1>6. QED BY <1>1, <1>3, <1>5, RecordMove

\* The request goes on with no reason yet, unobserved.
Unobserved(r, place) == Goto(r, place, "") /\ UNCHANGED events

\* Routing and capture that only pass the request on keep the invariant.
LEMMA PlainStep ==
  ASSUME IInv, NEW r \in Requests, req[r].at \in {"route", "capture"},
         NEW place \in {"forward", "evaluate"}, Unobserved(r, place),
         UNCHANGED <<live, inUse, writing, storeVars, shutdownVars>>
  PROVE  IInv'
  <1>1. PICK reason \in Reasons : reason = ""
    BY DEF Reasons
  <1> DEFINE row == Target(r, place, reason)
  <1>2. /\ row \in Row /\ row.at = place /\ row.reason = ""
        /\ req' = [req EXCEPT ![r] = row]
    <2>1. place \in Places
      BY DEF Places
    <2>2. row \in Row /\ row.at = place /\ row.reason = reason
      BY <2>1, GotoTarget DEF IInv
    <2>3. req' = [req EXCEPT ![r] = row]
      BY <1>1 DEF Unobserved, Goto, Target, IInv, TypeOK
    <2>4. QED BY <1>1, <2>2, <2>3
  <1> HIDE DEF row
  <1>3. QuietTo(r, row)
    BY <1>2 DEF QuietTo, Judged, Convicted, HoldsSlot, Answered
  <1>4. QED BY <1>2, <1>3, QuietMove DEF Unobserved

\* A request selected for the audit, observed or not.
LEMMA SelectStep ==
  ASSUME IInv, NEW r \in Requests, req[r].at = "route", Select(r),
         events' = events \/ (~Closed /\ RecordAuditEvent(<<r, "unreviewed">>)),
         UNCHANGED <<live, inUse, writing, storeVars, shutdownVars>>
  PROVE  IInv'
  <1> DEFINE row == [req[r] EXCEPT !.at = "capture", !.gen = live]
  <1>1. req \in [Requests -> Row] /\ req[r] \in Row /\ live \in Generations /\ req[r].reason = ""
        /\ (r \in evidence <=> Convicted(req[r]))
    BY RequestFacts DEF IInv, TypeOK, Row
  <1>2. row \in Row /\ row.at = "capture" /\ row.reason = "" /\ req' = [req EXCEPT ![r] = row]
    BY <1>1 DEF Row, Places, Select
  <1> HIDE DEF row
  <1>3. /\ Judged(row) /\ ~Convicted(row) /\ ~Convicted(req[r])
        /\ ~HoldsSlot(row) /\ ~HoldsSlot(req[r])
    BY <1>2 DEF Judged, Convicted, HoldsSlot
  <1>4. r \notin evidence /\ evidence' = evidence
    BY <1>1, <1>3 DEF storeVars
  <1>5. EventMove(r, row)
    <2>1. "unreviewed" \in Kinds BY DEF Kinds
    <2>2. QED BY <2>1 DEF EventMove, RecordAuditEvent
  <1>6. SlotMove(r, row) /\ AllowedMove(r, row) /\ InTimeMove(r, row)
    BY <1>2, <1>3 DEF SlotMove, AllowedMove, InTimeMove, Answered
  <1>7. RequestMove(r, row)
    BY <1>2, <1>3, <1>4, <1>5, <1>6 DEF RequestMove, storeVars, shutdownVars
  <1>8. QED BY <1>2, <1>7, RequestStep

\* The request is forwarded or pinned, in both cases observed or not.
LEMMA RouteStep == ASSUME IInv, NEW r \in Requests, Route(r) PROVE IInv'
  <1>1. req[r].at = "route" /\ UNCHANGED <<live, inUse, writing, storeVars, shutdownVars>>
    BY DEF Route
  <1>2. CASE RecordThen(r, "unreviewed", "forward", "bypass")
    <2>1. "unreviewed" \in Kinds BY DEF Kinds
    <2>2. QED BY <1>1, <1>2, <2>1, BypassStep
  <1>3. CASE Goto(r, "forward", "") /\ UNCHANGED events
    BY <1>1, <1>3, PlainStep DEF Unobserved
  <1>4. CASE /\ Select(r)
             /\ events' = events \/ (~Closed /\ RecordAuditEvent(<<r, "unreviewed">>))
    BY <1>1, <1>4, SelectStep
  <1>5. QED BY <1>2, <1>3, <1>4 DEF Route

\* The body is captured, or the request is observed and forwarded.
LEMMA CaptureBodyStep == ASSUME IInv, NEW r \in Requests, CaptureBody(r) PROVE IInv'
  <1>1. req[r].at = "capture" /\ UNCHANGED <<live, inUse, writing, storeVars, shutdownVars>>
    BY DEF CaptureBody
  <1>2. CASE RecordThen(r, "allowed", "forward", "bypass")
    <2>1. "allowed" \in Kinds BY DEF Kinds
    <2>2. QED BY <1>1, <1>2, <2>1, BypassStep
  <1>3. CASE Goto(r, "evaluate", "") /\ UNCHANGED events
    BY <1>1, <1>3, PlainStep DEF Unobserved
  <1>4. QED BY <1>2, <1>3 DEF CaptureBody

\* Up to the gate the request only gets a reason that its pinned state gives.
LEMMA EvaluateStep == ASSUME IInv, NEW r \in Requests, Evaluate(r) PROVE IInv'
  <1>1. PICK place \in {"finish", "block", "acquire"}, reason \in Reasons :
          /\ Decided(r, place, reason)
          /\ place = "acquire" => reason = ""
          /\ place = "block" => reason = "risk_hash_match"
          /\ place = "finish" => reason \in {"bypass", "trusted_hash_match", "ai_unavailable",
                                             "ai_rate_limited"}
          /\ reason = "risk_hash_match" => req[r].gen.kind = "risk"
          /\ reason = "trusted_hash_match" => req[r].gen.kind = "trusted"
    BY DEF Evaluate, requestState, Reasons
  <1>2. place \in Places BY DEF Places
  <1> DEFINE row == Target(r, place, reason)
  <1>3. row.at = place /\ row.reason = reason /\ row.gen = req[r].gen
    BY <1>2, GotoTarget DEF IInv
  <1> HIDE DEF row
  <1>4. QuietTo(r, row)
    BY <1>1, <1>3 DEF QuietTo, Evaluate, Judged, Convicted, HoldsSlot, Answered
  <1>5. QED BY <1>1, <1>2, <1>4, DecidedStep DEF row

\* A slot is taken only while one is free.
LEMMA AcquireStep == ASSUME IInv, NEW r \in Requests, Acquire(r) PROVE IInv'
  <1>0. req[r].at = "acquire"
    BY DEF Acquire
  <1>1. CASE /\ inUse < Slots
             /\ inUse' = inUse + 1
             /\ Goto(r, "review", "")
             /\ UNCHANGED <<live, events, writing, storeVars, shutdownVars>>
    <2>1. PICK reason \in Reasons : reason = ""
      BY DEF Reasons
    <2> DEFINE row == Target(r, "review", reason)
    <2>2. /\ row \in Row /\ row.at = "review" /\ row.reason = ""
          /\ req' = [req EXCEPT ![r] = row]
      <3>1. "review" \in Places
        BY DEF Places
      <3>2. row \in Row /\ row.at = "review" /\ row.reason = reason
        BY <3>1, GotoTarget DEF IInv
      <3>3. req' = [req EXCEPT ![r] = row]
        BY <1>1, <2>1 DEF Goto, Target, IInv, TypeOK
      <3>4. QED BY <2>1, <3>2, <3>3
    <2> HIDE DEF row
    <2>3. Judged(row) /\ ~Convicted(row) /\ HoldsSlot(row) /\ ~HoldsSlot(req[r])
          /\ ~Convicted(req[r])
      BY <1>0, <2>2 DEF Judged, Convicted, HoldsSlot
    <2>4. r \notin evidence /\ evidence' = evidence
      BY <1>1, <2>3, RequestFacts DEF storeVars
    <2>5. RequestMove(r, row)
      BY <1>0, <1>1, <2>2, <2>3, <2>4
         DEF RequestMove, SlotMove, EventMove, AllowedMove, InTimeMove, storeVars, shutdownVars, Answered
    <2>6. QED BY <2>2, <2>5, RequestStep
  <1>2. CASE Decided(r, "finish", "ai_bulkhead")
    <2>1. "finish" \in Places /\ "ai_bulkhead" \in Reasons
      BY DEF Places, Reasons
    <2> DEFINE row == Target(r, "finish", "ai_bulkhead")
    <2>2. row.at = "finish" /\ row.reason = "ai_bulkhead"
      BY <2>1, GotoTarget DEF IInv
    <2> HIDE DEF row
    <2>3. QuietTo(r, row)
      BY <1>0, <2>2 DEF QuietTo, Judged, Convicted, HoldsSlot, Answered
    <2>4. QED BY <1>2, <2>1, <2>3, DecidedStep DEF row
  <1>3. QED BY <1>1, <1>2 DEF Acquire

\* A reviewed request keeps its slot until the release.
LEMMA ReviewStep == ASSUME IInv, NEW r \in Requests, Review(r) PROVE IInv'
  <1>1. PICK place \in {"finish", "block"}, reason \in {"ai_pass", "ai_fail_open", "ai_reject"} :
          Decided(r, place, reason)
    BY DEF Review
  <1>2. place \in Places /\ reason \in Reasons BY DEF Places, Reasons
  <1> DEFINE row == Target(r, place, reason)
  <1>3. row.at = place /\ row.reason = reason
    BY <1>2, GotoTarget DEF IInv
  <1> HIDE DEF row
  <1>4. QuietTo(r, row)
    BY <1>1, <1>3 DEF QuietTo, Review, Judged, Convicted, HoldsSlot, Answered
  <1>5. QED BY <1>1, <1>2, <1>4, DecidedStep DEF row

\* Evidence stored and the request refused, or not stored and let through.
LEMMA FinishBlockStep == ASSUME IInv, NEW r \in Requests, FinishBlock(r) PROVE IInv'
  <1>1. /\ req[r].at = "block" /\ req[r] \in Row /\ req[r].reason \in Reasons /\ Judged(req[r])
        /\ (r \in evidence <=> Convicted(req[r])) /\ (r \in Reviewing <=> HoldsSlot(req[r]))
    BY RequestFacts DEF FinishBlock, Row
  <1>2. ~Convicted(req[r])
    BY <1>1 DEF Convicted
  <1> DEFINE place == IF req[r].reason = "risk_hash_match" THEN "backfill" ELSE "deny"
  <1>3. CASE /\ RecordBlockedEvent(r)
             /\ Goto(r, place, req[r].reason)
             /\ Release(r)
             /\ UNCHANGED <<live, events, writing, log, shutdownVars>>
    <2> DEFINE row == Target(r, place, req[r].reason)
    <2>1. place \in Places
      BY DEF Places
    <2> HIDE DEF place
    <2>2. /\ row \in Row /\ row.at = place /\ row.reason = req[r].reason /\ row.gen = req[r].gen
          /\ req' = [req EXCEPT ![r] = row]
      BY <1>1, <1>3, <2>1, GotoTarget DEF IInv
    <2> HIDE DEF row
    <2>3. Judged(row) /\ Convicted(row) /\ ~HoldsSlot(row) /\ row.at \in {"backfill", "deny"}
      BY <1>1, <2>2 DEF Judged, Convicted, HoldsSlot, place
    <2>4. evidence' = evidence \cup {r}
      BY <1>3 DEF RecordBlockedEvent
    <2>5. SlotMove(r, row)
      BY <1>1, <1>3, <2>3 DEF SlotMove, Release
    <2>6. AllowedMove(r, row) /\ InTimeMove(r, row) /\ EventMove(r, row)
      BY <1>1, <1>3, <2>3 DEF AllowedMove, InTimeMove, EventMove, Answered
    <2>7. RequestMove(r, row)
      BY <1>3, <2>2, <2>3, <2>4, <2>5, <2>6 DEF RequestMove, shutdownVars
    <2>8. QED BY <2>2, <2>7, RequestStep
  <1>4. CASE Decided(r, "finish", req[r].reason)
    <2>1. "finish" \in Places
      BY DEF Places
    <2> DEFINE row == Target(r, "finish", req[r].reason)
    <2>2. row.at = "finish" /\ row.reason = req[r].reason /\ row.gen = req[r].gen
      BY <1>1, <2>1, GotoTarget DEF IInv
    <2> HIDE DEF row
    <2>3. QuietTo(r, row)
      BY <1>1, <2>2 DEF QuietTo, Judged, Convicted, HoldsSlot, Answered
    <2>4. QED BY <1>1, <1>4, <2>1, <2>3, DecidedStep DEF row
  <1>5. QED BY <1>3, <1>4 DEF FinishBlock

\* An allowed request is recorded and gives its slot back.
LEMMA FinishStep == ASSUME IInv, NEW r \in Requests, Finish(r) PROVE IInv'
  <1> DEFINE place == IF req[r].reason = "trusted_hash_match" THEN "backfill" ELSE "forward"
             reason == FinalReason(r)
  <1>1. req[r].at = "finish" /\ req[r] \in Row /\ Judged(req[r])
    BY RequestFacts DEF Finish
  <1>2. /\ place \in {"backfill", "forward"} /\ place \in Places
        /\ reason \in Reasons /\ reason \notin {"risk_hash_match", "ai_reject"}
        /\ reason = "trusted_hash_match" => req[r].reason = "trusted_hash_match"
    BY <1>1 DEF Places, Reasons, FinalReason, Row
  <1>3. /\ RecordThen(r, "allowed", place, reason) /\ Release(r)
        /\ UNCHANGED <<live, writing, storeVars, shutdownVars>>
    BY DEF Finish
  <1> HIDE DEF place, reason
  <1> DEFINE row == Target(r, place, reason)
  <1>4. row.at = place /\ row.reason = reason /\ row.gen = req[r].gen
    BY <1>2, GotoTarget DEF IInv
  <1> HIDE DEF row
  <1>5. Judged(row) /\ ~Convicted(row)
    BY <1>1, <1>2, <1>4 DEF Judged, Convicted
  <1>6. "allowed" \in Kinds BY DEF Kinds
  <1>7. QED BY <1>1, <1>2, <1>3, <1>5, <1>6, RecordMove DEF row

\* Backfilling the context of a rule changes neither the verdict nor the slots.
LEMMA StoreHashContextStep == ASSUME IInv, NEW r \in Requests, StoreHashContext(r) PROVE IInv'
  <1> DEFINE place == IF req[r].reason = "risk_hash_match" THEN "deny" ELSE "forward"
  <1>1. /\ req[r].at = "backfill" /\ req[r] \in Row /\ req[r].reason \in Reasons /\ Judged(req[r])
        /\ UNCHANGED <<live, inUse, events, writing, storeVars, shutdownVars>>
    BY RequestFacts DEF StoreHashContext, Row
  <1>2. place \in Places /\ Goto(r, place, req[r].reason)
    BY DEF Places, StoreHashContext
  <1> HIDE DEF place
  <1> DEFINE row == Target(r, place, req[r].reason)
  <1>3. /\ row \in Row /\ row.at = place /\ row.reason = req[r].reason /\ row.gen = req[r].gen
        /\ req' = [req EXCEPT ![r] = row]
    BY <1>1, <1>2, GotoTarget DEF IInv
  <1> HIDE DEF row
  <1>4. QuietTo(r, row)
    BY <1>1, <1>3 DEF QuietTo, Judged, Convicted, HoldsSlot, Answered, place
  <1>5. QED BY <1>1, <1>3, <1>4, QuietMove

\* The answer is written.
LEMMA AnswerStep == ASSUME IInv, NEW r \in Requests, Answer(r) PROVE IInv'
  <1> DEFINE place == IF req[r].at = "deny" THEN "blocked" ELSE "forwarded"
  <1>1. /\ req[r].at \in {"deny", "forward"} /\ req[r] \in Row /\ req[r].reason \in Reasons
        /\ Judged(req[r])
        /\ UNCHANGED <<live, inUse, events, writing, storeVars, shutdownVars>>
    BY RequestFacts DEF Answer, Row
  <1>2. place \in Places /\ Goto(r, place, req[r].reason)
    BY DEF Places, Answered, Answer
  <1> HIDE DEF place
  <1> DEFINE row == Target(r, place, req[r].reason)
  <1>3. /\ row \in Row /\ row.at = place /\ row.reason = req[r].reason /\ row.gen = req[r].gen
        /\ req' = [req EXCEPT ![r] = row]
    BY <1>1, <1>2, GotoTarget DEF IInv
  <1> HIDE DEF row
  <1>4. QuietTo(r, row)
    BY <1>1, <1>3 DEF QuietTo, Judged, Convicted, HoldsSlot, Answered, place
  <1>5. QED BY <1>1, <1>3, <1>4, QuietMove
-----------------------------------------------------------------------------
(* The steps that belong to no request.                                    *)

\* The requests that matter to the invariant stay as they are.
LEMMA SameRequests ==
  ASSUME IInv, req' = req, evidence' = evidence, inUse' = inUse
  PROVE  NoReasonYet' /\ JudgedByPinnedRules' /\ EvidenceFits' /\ SlotsOK' /\ InFlight' = InFlight
  BY DEF IInv, NoReasonYet, JudgedByPinnedRules, EvidenceFits, SlotsOK, SlotsFreed, Reviewing,
         InFlight

\* The event writer takes an event from the queue or is done with one.
LEMMA WriterStep == ASSUME IInv, WriterTakes \/ WriterCommits PROVE IInv'
  <1>1. events \in Seq(AllowEvents) /\ Len(events) <= EventCap /\ EventCap \in Nat
    BY PathAssumption DEF IInv, TypeOK
  <1>2. /\ req' = req /\ evidence' = evidence /\ inUse' = inUse
        /\ live' = live /\ phase' = phase /\ graceOver' = graceOver
    BY DEF WriterTakes, WriterCommits, storeVars, shutdownVars
  <1>3. /\ events' \in Seq(AllowEvents) /\ Len(events') <= EventCap
        /\ writing' \in AllowEvents \cup {None} /\ log' \subseteq AllowEvents
        /\ log' \cup {writing'} \cup Queued' \subseteq log \cup {writing} \cup Queued \cup {None}
        /\ events = <<>> => events' = <<>> /\ writing' \in {writing, None}
    <2>1. CASE WriterTakes
      <3>1. events # <<>> /\ writing' = Head(events) /\ events' = Tail(events) /\ log' = log
        BY <2>1 DEF WriterTakes, storeVars
      <3>2. /\ events' \in Seq(AllowEvents) /\ Len(events') = Len(events) - 1
            /\ Len(events) > 0
            /\ \A i \in 1..Len(events') : events'[i] = events[i + 1]
            /\ Head(events) = events[1] /\ Head(events) \in AllowEvents
        BY <1>1, <3>1
      <3>3. Queued' \subseteq Queued
        <4>1. \A i \in 1..Len(events') : i + 1 \in 1..Len(events)
          BY <1>1, <3>2
        <4>2. QED BY <3>2, <4>1 DEF Queued
      <3>4. Head(events) \in Queued
        BY <1>1, <3>2 DEF Queued
      <3>5. Len(events') <= EventCap
        BY <1>1, <3>2
      <3>6. QED BY <3>1, <3>2, <3>3, <3>4, <3>5 DEF IInv, TypeOK
    <2>2. CASE WriterCommits
      <3>1. events' = events /\ writing' = None /\ writing # None
            /\ log' \in {log, log \cup {writing}}
        BY <2>2 DEF WriterCommits
      <3>2. Queued' = Queued
        BY <3>1 DEF Queued
      <3>3. QED BY <1>1, <3>1, <3>2 DEF IInv, TypeOK
    <2>3. QED BY <2>1, <2>2
  <1>4. TypeOK'
    BY <1>2, <1>3 DEF IInv, TypeOK
  <1>5. AllowedFits'
    <2>1. \A r \in Requests : <<r, "allowed">> # None
      BY PathAssumption DEF AllowEvents, Kinds
    <2>2. \A r \in Requests : <<r, "allowed">> \in Recorded' => <<r, "allowed">> \in Recorded
      BY <1>3, <2>1 DEF Recorded, Queued
    <2>3. QED BY <1>2, <2>2 DEF IInv, AllowedFits
  <1>6. NoReasonYet' /\ JudgedByPinnedRules' /\ EvidenceFits' /\ SlotsOK' /\ InFlight' = InFlight
    BY <1>2, SameRequests
  <1>7. DrainedInTime' /\ PanicOnlyAfterGrace' /\ ShutdownDrainsEvents'
    BY <1>2, <1>3, <1>6
       DEF IInv, DrainedInTime, PanicOnlyAfterGrace, ShutdownDrainsEvents
  <1>8. QED BY <1>4, <1>5, <1>6, <1>7 DEF IInv

\* A reload or a step of the shutdown.
LEMMA SystemStep ==
  ASSUME IInv,
         \/ \E g \in Generations : Publish(g)
         \/ Shutdown \/ ShutdownReturns \/ CloseEvents \/ CloseStore
  PROVE  IInv'
  <1>1. /\ req' = req /\ inUse' = inUse /\ events' = events /\ writing' = writing
        /\ log' = log /\ evidence' = evidence
        /\ live' \in Generations
        /\ phase' \in {"serving", "draining", "stopping", "eventsClosed", "storeClosed"}
        /\ graceOver' \in BOOLEAN
    BY DEF Publish, Shutdown, ShutdownReturns, CloseEvents, CloseStore, storeVars, shutdownVars,
           IInv, TypeOK
  <1>2. TypeOK'
    BY <1>1 DEF IInv, TypeOK
  <1>3. NoReasonYet' /\ JudgedByPinnedRules' /\ EvidenceFits' /\ SlotsOK' /\ InFlight' = InFlight
    BY <1>1, SameRequests
  <1>4. AllowedFits'
    BY <1>1 DEF IInv, AllowedFits, Recorded
  <1>5. DrainedInTime' /\ PanicOnlyAfterGrace'
    BY <1>1, <1>3
       DEF IInv, TypeOK, DrainedInTime, PanicOnlyAfterGrace, Publish, Shutdown, ShutdownReturns,
           CloseEvents, CloseStore, shutdownVars
  <1>6. ShutdownDrainsEvents'
    BY <1>1
       DEF IInv, ShutdownDrainsEvents, Publish, Shutdown, ShutdownReturns, CloseEvents, CloseStore,
           shutdownVars
  <1>7. QED BY <1>2, <1>3, <1>4, <1>5, <1>6 DEF IInv

\* A server that has just started satisfies the invariant.
LEMMA InitIInv == Init => IInv
  <1> SUFFICES ASSUME Init PROVE IInv
    OBVIOUS
  <1>1. /\ inUse = 0 /\ events = <<>> /\ writing = None /\ log = {} /\ evidence = {}
        /\ live \in Generations /\ phase = "serving" /\ ~graceOver /\ graceOver \in BOOLEAN
    BY DEF Init
  <1>2. \A r \in Requests : req[r].at = "idle" /\ req[r].gen = live /\ req[r].reason = ""
    BY DEF Init
  <1>3. req \in [Requests -> [at : Places, gen : Generations, reason : Reasons]]
    BY DEF Init, Places, Reasons
  <1>4. TypeOK
    <2>1. events \in Seq(AllowEvents) /\ Len(events) <= EventCap
      <3>1. events = <<>> /\ EventCap \in Nat BY <1>1, PathAssumption
      <3>2. QED BY <3>1
    <2>2. inUse \in 0..Slots
      <3>1. inUse = 0 /\ Slots \in Nat BY <1>1, PathAssumption
      <3>2. QED BY <3>1
    <2>3. QED BY <1>1, <1>3, <2>1, <2>2 DEF TypeOK
  <1>5. Reviewing = {} /\ Recorded = {None}
    <2>1. Reviewing = {} BY <1>2 DEF Reviewing
    <2>2. Len(events) = 0 BY <1>1
    <2>3. Recorded = {None} BY <1>1, <2>2 DEF Recorded
    <2>4. QED BY <2>1, <2>3
  <1>6. SlotsOK
    BY <1>1, <1>5, FS_EmptySet DEF SlotsOK, SlotsFreed
  <1>7. NoReasonYet /\ JudgedByPinnedRules /\ EvidenceFits /\ DrainedInTime /\ PanicOnlyAfterGrace
    BY <1>1, <1>2
       DEF NoReasonYet, JudgedByPinnedRules, EvidenceFits, Convicted, DrainedInTime,
           PanicOnlyAfterGrace
  <1>8. AllowedFits /\ ShutdownDrainsEvents
    <2>1. \A r \in Requests : <<r, "allowed">> # None
      BY PathAssumption DEF AllowEvents, Kinds
    <2>2. QED BY <1>1, <1>5, <2>1 DEF AllowedFits, ShutdownDrainsEvents
  <1>9. QED BY <1>4, <1>6, <1>7, <1>8 DEF IInv

\* Every step of the data plane preserves the invariant.
LEMMA NextIInv == IInv /\ [Next]_vars => IInv'
  <1> SUFFICES ASSUME IInv, [Next]_vars PROVE IInv'
    OBVIOUS
  <1>1. ASSUME NEW r \in Requests, Arrive(r) PROVE IInv' BY <1>1, ArriveStep
  <1>2. ASSUME NEW r \in Requests, Route(r) PROVE IInv' BY <1>2, RouteStep
  <1>3. ASSUME NEW r \in Requests, CaptureBody(r) PROVE IInv' BY <1>3, CaptureBodyStep
  <1>4. ASSUME NEW r \in Requests, Evaluate(r) PROVE IInv' BY <1>4, EvaluateStep
  <1>5. ASSUME NEW r \in Requests, Acquire(r) PROVE IInv' BY <1>5, AcquireStep
  <1>6. ASSUME NEW r \in Requests, Review(r) PROVE IInv' BY <1>6, ReviewStep
  <1>7. ASSUME NEW r \in Requests, FinishBlock(r) PROVE IInv' BY <1>7, FinishBlockStep
  <1>8. ASSUME NEW r \in Requests, Finish(r) PROVE IInv' BY <1>8, FinishStep
  <1>9. ASSUME NEW r \in Requests, StoreHashContext(r) PROVE IInv' BY <1>9, StoreHashContextStep
  <1>10. ASSUME NEW r \in Requests, Answer(r) PROVE IInv' BY <1>10, AnswerStep
  <1>11. CASE WriterTakes \/ WriterCommits BY <1>11, WriterStep
  <1>12. CASE \/ \E g \in Generations : Publish(g)
              \/ Shutdown \/ ShutdownReturns \/ CloseEvents \/ CloseStore
    BY <1>12, SystemStep
  <1>13. CASE UNCHANGED vars
    <2> USE <1>13 DEF vars
    <2>1. NoReasonYet' /\ JudgedByPinnedRules' /\ EvidenceFits' /\ SlotsOK' /\ InFlight' = InFlight
      BY SameRequests
    <2>2. TypeOK' BY DEF IInv, TypeOK
    <2>3. AllowedFits' BY DEF IInv, AllowedFits, Recorded
    <2>4. DrainedInTime' /\ PanicOnlyAfterGrace' /\ ShutdownDrainsEvents'
      BY <2>1 DEF IInv, DrainedInTime, PanicOnlyAfterGrace, ShutdownDrainsEvents
    <2>5. QED BY <2>1, <2>2, <2>3, <2>4 DEF IInv
  <1>14. QED
    BY <1>1, <1>2, <1>3, <1>4, <1>5, <1>6, <1>7, <1>8, <1>9, <1>10, <1>11, <1>12, <1>13
       DEF Next, Decide
-----------------------------------------------------------------------------
\* The inductive invariant holds in every behaviour of the data plane.
THEOREM InvariantHolds == SafetySpec => []IInv
  BY InitIInv, NextIInv, PTL DEF SafetySpec

\* Type correctness of the data plane; the AI gate is never over its limit and
\* the event queue never over its capacity.
THEOREM TypeCorrect == SafetySpec => []TypeOK
  <1>1. IInv => TypeOK BY DEF IInv
  <1>2. QED BY <1>1, InvariantHolds, PTL

\* Whatever is interleaved, a client is refused only with the evidence
\* committed, and no event says that the audit let the request through
\* (finishBlock, finish, RecordAuditEvent).
THEOREM RefusedOnlyWithEvidence == SafetySpec => []BlockedHasEvidence
  <1>1. IInv => BlockedHasEvidence
    <2> SUFFICES ASSUME IInv PROVE BlockedHasEvidence
      OBVIOUS
    <2>1. \A r \in Requests : req[r].at \in {"deny", "blocked"} => r \in evidence
      BY DEF IInv, EvidenceFits, Convicted
    <2>2. \A r \in evidence : <<r, "allowed">> \notin Recorded
      BY DEF IInv, AllowedFits, TypeOK
    <2>3. QED BY <2>1, <2>2 DEF BlockedHasEvidence
  <1>2. QED BY <1>1, InvariantHolds, PTL

\* No reload changes the rules a request is judged by once it has been selected
\* for auditing (requestState).
THEOREM PinnedRulesDecide == SafetySpec => []JudgedByPinnedRules
  <1>1. IInv => JudgedByPinnedRules BY DEF IInv
  <1>2. QED BY <1>1, InvariantHolds, PTL

\* The gate's count is the number of requests between acquire and the deferred
\* release, on every way out of Evaluate.
THEOREM EverySlotFreed == SafetySpec => []SlotsFreed
  <1>1. IInv => SlotsFreed BY DEF IInv, SlotsOK
  <1>2. QED BY <1>1, InvariantHolds, PTL

\* A handler panics on the closed event queue only if it outlived the 20 s that
\* Shutdown waits.
THEOREM PanicsAreLate == SafetySpec => []PanicOnlyAfterGrace
  <1>1. IInv => PanicOnlyAfterGrace BY DEF IInv
  <1>2. QED BY <1>1, InvariantHolds, PTL

\* The store is closed over an empty queue and an idle writer, and stays so.
THEOREM EventsDrained == SafetySpec => []ShutdownDrainsEvents
  <1>1. IInv => ShutdownDrainsEvents BY DEF IInv
  <1>2. QED BY <1>1, InvariantHolds, PTL
-----------------------------------------------------------------------------
(* The data plane implements AuditGate.                                    *)

\* What a step of request r does to fates: nobody else's changes, a fate once
\* given stays, and evidence is added only to a request still pending.
FateStep(r) ==
  /\ \A s \in Requests : s # r => Fate(s)' = Fate(s)
  /\ Fate(r)' = Fate(r) \/ Fate(r) = "pending"
  /\ Fate(r)' \in {"pending", "forwarded", "blocked", "aborted"}
  /\ \/ evidence' = evidence
     \/ evidence' = evidence \cup {r} /\ Fate(r) = "pending" /\ Fate(r)' = "pending"

\* The fate of a request follows its place.
FateAt(place) == IF place = "blocked" THEN "blocked"
                 ELSE IF place \in {"forward", "forwarded"} THEN "forwarded"
                 ELSE IF place = "panicked" THEN "aborted" ELSE "pending"

\* A step of Goto changes the fate of its own request only, to the one its
\* place stands for.
LEMMA FateOfMove ==
  ASSUME TypeOK, NEW r \in Requests, NEW row, req' = [req EXCEPT ![r] = row]
  PROVE  /\ \A s \in Requests : s # r => Fate(s)' = Fate(s)
         /\ Fate(r) = FateAt(req[r].at) /\ Fate(r)' = FateAt(row.at)
  <1>1. req'[r] = row /\ \A s \in Requests : s # r => req'[s] = req[s]
    BY DEF TypeOK
  <1>2. QED BY <1>1 DEF Fate, FateAt

\* A step that leaves the evidence alone.
LEMMA PlainFate ==
  ASSUME TypeOK, NEW r \in Requests, NEW row, req' = [req EXCEPT ![r] = row],
         evidence' = evidence,
         \/ FateAt(req[r].at) = "pending"
         \/ FateAt(row.at) = FateAt(req[r].at)
  PROVE  FateStep(r)
  <1>1. FateAt(row.at) \in {"pending", "forwarded", "blocked", "aborted"}
    BY DEF FateAt
  <1>2. QED BY <1>1, FateOfMove DEF FateStep

\* Goto moves one request to a place.
LEMMA GotoMoves ==
  ASSUME TypeOK, NEW r \in Requests, NEW place, NEW reason, Goto(r, place, reason)
  PROVE  \E row : req' = [req EXCEPT ![r] = row] /\ row.at = place
  <1>1. req \in [Requests -> Row] /\ req[r] \in Row
    BY DEF TypeOK, Row
  <1> DEFINE row == [req[r] EXCEPT !.at = place, !.reason = reason]
  <1>2. req' = [req EXCEPT ![r] = row]
    BY <1>1 DEF Goto
  <1>3. row.at = place
    BY <1>1 DEF Row
  <1>4. QED BY <1>2, <1>3

\* RecordBlockedEvent commits evidence of a request that stays pending.
LEMMA ConvictFates ==
  ASSUME IInv, NEW r \in Requests, FinishBlock(r), evidence' # evidence
  PROVE  FateStep(r)
  <1> DEFINE place == IF req[r].reason = "risk_hash_match" THEN "backfill" ELSE "deny"
  <1>1. /\ TypeOK /\ req[r].at = "block" /\ evidence' = evidence \cup {r}
        /\ Goto(r, place, req[r].reason)
    BY DEF IInv, FinishBlock, RecordBlockedEvent, Decided, storeVars
  <1>2. FateAt(req[r].at) = "pending" /\ FateAt(place) = "pending"
    BY <1>1 DEF FateAt
  <1> HIDE DEF place
  <1>3. PICK row : req' = [req EXCEPT ![r] = row] /\ row.at = place
    BY <1>1, GotoMoves
  <1>4. QED BY <1>1, <1>2, <1>3, FateOfMove DEF FateStep

\* Before its answer every step of a request starts from a pending one.
LEMMA HandlerFates ==
  ASSUME IInv, NEW r \in Requests, Arrive(r) \/ Route(r) \/ CaptureBody(r) \/ Decide(r)
  PROVE  FateStep(r)
  <1>1. TypeOK
    BY DEF IInv
  <1>2. FateAt(req[r].at) = "pending"
    BY DEF FateAt, Arrive, Route, CaptureBody, Decide, Evaluate, Acquire, Review, FinishBlock,
           Finish, StoreHashContext, Decided
  <1>3. CASE \E place, reason : Goto(r, place, reason)
    <2>1. PICK row : req' = [req EXCEPT ![r] = row]
      BY <1>1, <1>3, GotoMoves
    <2>2. CASE evidence' = evidence
      BY <1>1, <1>2, <2>1, <2>2, PlainFate
    <2>3. CASE evidence' # evidence
      <3>1. FinishBlock(r)
        BY <2>3 DEF Arrive, Route, CaptureBody, Decide, Evaluate, Acquire, Review, Finish,
                    StoreHashContext, Decided, storeVars
      <3>2. QED BY <2>3, <3>1, ConvictFates
    <2>4. QED BY <2>2, <2>3
  <1>4. CASE Route(r) /\ req' = [req EXCEPT ![r].at = "capture", ![r].gen = live]
    <2> DEFINE row == [req[r] EXCEPT !.at = "capture", !.gen = live]
    <2>1. req' = [req EXCEPT ![r] = row]
      BY <1>1, <1>4 DEF TypeOK
    <2>2. evidence' = evidence
      BY <1>4 DEF Route, storeVars
    <2> HIDE DEF row
    <2>3. QED BY <1>1, <1>2, <2>1, <2>2, PlainFate
  <1>5. (\E place, reason : Goto(r, place, reason))
        \/ (Route(r) /\ req' = [req EXCEPT ![r].at = "capture", ![r].gen = live])
    <2>1. CASE Arrive(r) BY <2>1 DEF Arrive
    <2>2. CASE Route(r)
      BY <2>2 DEF Route, RecordThen, Select
    <2>3. CASE CaptureBody(r) BY <2>3 DEF CaptureBody, RecordThen
    <2>4. CASE Evaluate(r) BY <2>4 DEF Evaluate, Decided
    <2>5. CASE Acquire(r) BY <2>5 DEF Acquire, Decided
    <2>6. CASE Review(r) BY <2>6 DEF Review, Decided
    <2>7. CASE FinishBlock(r) BY <2>7 DEF FinishBlock, Decided
    <2>8. CASE Finish(r) BY <2>8 DEF Finish, RecordThen
    <2>9. CASE StoreHashContext(r) BY <2>9 DEF StoreHashContext
    <2>10. QED BY <2>1, <2>2, <2>3, <2>4, <2>5, <2>6, <2>7, <2>8, <2>9 DEF Decide
  <1>6. QED BY <1>3, <1>4, <1>5

\* An answer completes the fate the request has, or refuses it.
LEMMA AnswerFates ==
  ASSUME IInv, NEW r \in Requests, Answer(r)
  PROVE  FateStep(r)
  <1>1. TypeOK /\ evidence' = evidence
    BY DEF IInv, Answer, storeVars
  <1>2. CASE req[r].at = "deny" /\ Goto(r, "blocked", req[r].reason)
    <2>1. PICK row : req' = [req EXCEPT ![r] = row]
      BY <1>1, <1>2, GotoMoves
    <2>2. FateAt(req[r].at) = "pending"
      BY <1>2 DEF FateAt
    <2>3. QED BY <1>1, <2>1, <2>2, PlainFate
  <1>3. CASE req[r].at = "forward" /\ Goto(r, "forwarded", req[r].reason)
    <2>1. PICK row : req' = [req EXCEPT ![r] = row] /\ row.at = "forwarded"
      BY <1>1, <1>3, GotoMoves
    <2>2. FateAt(row.at) = FateAt(req[r].at)
      BY <1>3, <2>1 DEF FateAt
    <2>3. QED BY <1>1, <2>1, <2>2, PlainFate
  <1>4. QED BY <1>2, <1>3 DEF Answer

\* One step of the data plane is a step of the gate or leaves it unchanged.
LEMMA StepRefines == IInv /\ [Next]_vars => [Gate!Next]_(Gate!vars)
  <1> SUFFICES ASSUME IInv, [Next]_vars PROVE [Gate!Next]_(Gate!vars)
    OBVIOUS
  <1> DEFINE fate == [r \in Requests |-> Fate(r)]
  <1>1. ASSUME NEW r \in Requests, FateStep(r) PROVE [Gate!Next]_(Gate!vars)
    <2>1. CASE evidence' = evidence /\ Fate(r)' = Fate(r)
      <3>1. fate' = fate BY <1>1, <2>1 DEF FateStep
      <3>2. QED BY <2>1, <3>1 DEF Gate!vars
    <2>2. CASE evidence' # evidence
      <3>1. fate' = fate /\ fate[r] = "pending" /\ evidence' = evidence \cup {r}
        BY <1>1, <2>2 DEF FateStep
      <3>2. Gate!Convict(r) BY <3>1 DEF Gate!Convict
      <3>3. QED BY <3>2 DEF Gate!Next
    <2>3. CASE evidence' = evidence /\ Fate(r)' # Fate(r)
      <3>1. fate[r] = "pending" /\ fate' = [fate EXCEPT ![r] = Fate(r)']
            /\ Fate(r)' \in {"forwarded", "blocked", "aborted"}
        BY <1>1, <2>3 DEF FateStep
      <3>2. EvidenceFits'
        BY NextIInv DEF IInv
      <3>3. CASE Fate(r)' = "blocked"
        <4>1. r \in evidence
          BY <2>3, <3>2, <3>3 DEF EvidenceFits, Convicted, Fate
        <4>2. Gate!Refuse(r) BY <2>3, <3>1, <3>3, <4>1 DEF Gate!Refuse
        <4>3. QED BY <4>2 DEF Gate!Next
      <3>4. CASE Fate(r)' = "forwarded"
        <4>1. r \notin evidence
          BY <2>3, <3>2, <3>4 DEF EvidenceFits, Convicted, Fate
        <4>2. Gate!Pass(r) BY <2>3, <3>1, <3>4, <4>1 DEF Gate!Pass
        <4>3. QED BY <4>2 DEF Gate!Next
      <3>5. CASE Fate(r)' = "aborted"
        <4>1. r \notin evidence
          BY <2>3, <3>2, <3>5 DEF EvidenceFits, Convicted, Fate
        <4>2. Gate!Abort(r) BY <2>3, <3>1, <3>5, <4>1 DEF Gate!Abort
        <4>3. QED BY <4>2 DEF Gate!Next
      <3>6. QED BY <3>1, <3>3, <3>4, <3>5
    <2>4. QED BY <2>1, <2>2, <2>3
  <1>2. ASSUME UNCHANGED <<req, evidence>> PROVE [Gate!Next]_(Gate!vars)
    BY <1>2 DEF Gate!vars, Fate
  <1>3. CASE \E r \in Requests : Arrive(r) \/ Route(r) \/ CaptureBody(r) \/ Decide(r) \/ Answer(r)
    BY <1>1, <1>3, HandlerFates, AnswerFates
  <1>4. CASE \/ \E g \in Generations : Publish(g)
             \/ WriterTakes \/ WriterCommits
             \/ Shutdown \/ ShutdownReturns \/ CloseEvents \/ CloseStore
    <2>1. UNCHANGED <<req, evidence>>
      BY <1>4 DEF Publish, WriterTakes, WriterCommits, Shutdown, ShutdownReturns, CloseEvents,
                  CloseStore, storeVars
    <2>2. QED BY <1>2, <2>1
  <1>5. CASE UNCHANGED vars
    BY <1>2, <1>5 DEF vars
  <1>6. QED BY <1>3, <1>4, <1>5 DEF Next

\* The data plane implements the fail-open gate: a request is handed on or
\* refused once, refused only with committed evidence, and never handed on with
\* it, under every interleaving with reloads, the event writer and the shutdown.
THEOREM PathRefinesAuditGate == SafetySpec => ImplementsAuditGate
  <1>1. Init => Gate!Init
    <2> SUFFICES ASSUME Init PROVE Gate!Init
      OBVIOUS
    <2>1. evidence = {} /\ \A r \in Requests : req[r].at = "idle"
      BY DEF Init
    <2>2. \A r \in Requests : Fate(r) = "pending"
      BY <2>1 DEF Fate
    <2>3. QED BY <2>1, <2>2 DEF Gate!Init
  <1>2. QED
    BY <1>1, StepRefines, InvariantHolds, PTL DEF SafetySpec, Gate!Spec, ImplementsAuditGate
=============================================================================
