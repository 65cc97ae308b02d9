------------------------------- MODULE Bulkhead -------------------------------
(***************************************************************************)
(* ConcurrencyGate of internal/audit/bulkhead.go: the gate every AI review *)
(* passes, shared by all generations of the engine so that a configuration *)
(* reload cannot multiply the number of reviews in flight.                 *)
(*                                                                         *)
(* Every critical section of gate.mu is one step.  The broadcast channel   *)
(* `changed' is captured under the lock and is closed and replaced by      *)
(* notifyLocked, so a captured channel is open exactly as long as nothing  *)
(* has notified since: a request whose channel is open is in "waiting",    *)
(* one whose channel has been closed is "woken".                           *)
(***************************************************************************)
EXTENDS Integers, FiniteSets

CONSTANTS Requests,            \* request goroutines; each may ask repeatedly
          RequestedLimits,     \* arguments of SetLimit, invalid ones included
          DefaultConcurrency   \* DefaultAIConcurrency

ASSUME LimitsAssumption ==
  /\ RequestedLimits \subseteq Int
  /\ DefaultConcurrency \in Nat \ {0}

VARIABLES limit,   \* gate.limit
          inUse,   \* gate.inUse
          pc       \* where each request is in Acquire / release

vars == <<limit, inUse, pc>>

Holders == {r \in Requests : pc[r] = "holding"}

\* The limits the gate can really have.
Limits == {l \in RequestedLimits : l >= 1} \cup {DefaultConcurrency}

\* NewConcurrencyGate: an invalid limit becomes the default.
NewConcurrencyGate(l) ==
  /\ limit = IF l < 1 THEN DefaultConcurrency ELSE l
  /\ inUse = 0

Init == /\ \E l \in RequestedLimits : NewConcurrencyGate(l)
        /\ pc = [r \in Requests |-> "idle"]

\* close(gate.changed) wakes every request that captured this channel; the
\* fresh channel has no waiter.  `p' is the pc the critical section leaves.
notifyLocked(p) == [r \in Requests |-> IF p[r] = "waiting" THEN "woken" ELSE p[r]]

\* Mutant: a limit change that forgets to notify.
SetLimitSilently(l) ==
  /\ l >= 1
  /\ l # limit
  /\ limit' = l
  /\ UNCHANGED <<inUse, pc>>

SetLimit(l) ==
  /\ l >= 1
  /\ l # limit
  /\ limit' = l
  /\ pc' = notifyLocked(pc)
  /\ UNCHANGED inUse

Start(r) == /\ pc[r] = "idle"
            /\ pc' = [pc EXCEPT ![r] = "locking"]
            /\ UNCHANGED <<limit, inUse>>

\* Mutant: the comparison with the limit is off by one.
AcquireOneTooMany(r) ==
  /\ pc[r] = "locking"
  /\ IF inUse <= limit
     THEN /\ inUse' = inUse + 1
          /\ pc' = [pc EXCEPT ![r] = "holding"]
     ELSE /\ pc' = [pc EXCEPT ![r] = "waiting"]
          /\ UNCHANGED inUse
  /\ UNCHANGED limit

\* The first half of the loop body: one critical section that either takes
\* a slot or captures the channel to wait on.
Acquire(r) ==
  /\ pc[r] = "locking"
  /\ IF inUse < limit
     THEN /\ inUse' = inUse + 1
          /\ pc' = [pc EXCEPT ![r] = "holding"]
     ELSE /\ pc' = [pc EXCEPT ![r] = "waiting"]
          /\ UNCHANGED inUse
  /\ UNCHANGED limit

\* select: <-changed is ready only once the captured channel is closed.
Wake(r) == /\ pc[r] = "woken"
           /\ pc' = [pc EXCEPT ![r] = "locking"]
           /\ UNCHANGED <<limit, inUse>>

\* select: the timer (ErrAIQueueFull) or the request's context ends the
\* wait.  With several ready cases select picks any of them, so a woken
\* request may give up as well.
GiveUp(r) == /\ pc[r] \in {"waiting", "woken"}
             /\ pc' = [pc EXCEPT ![r] = "idle"]
             /\ UNCHANGED <<limit, inUse>>

\* Mutant: a release that frees the slot but wakes nobody.
ReleaseSilently(r) ==
  /\ pc[r] = "holding"
  /\ inUse' = inUse - 1
  /\ pc' = [pc EXCEPT ![r] = "idle"]
  /\ UNCHANGED limit

\* The release closure; sync.Once makes further calls do nothing.
Release(r) ==
  /\ pc[r] = "holding"
  /\ inUse' = IF inUse > 0 THEN inUse - 1 ELSE inUse
  /\ pc' = notifyLocked([pc EXCEPT ![r] = "idle"])
  /\ UNCHANGED limit

Next == \/ \E r \in Requests :
             Start(r) \/ Acquire(r) \/ Wake(r) \/ GiveUp(r) \/ Release(r)
        \/ \E l \in RequestedLimits : SetLimit(l)

SafetySpec == Init /\ [][Next]_vars

\* A runnable goroutine is scheduled and sync.Mutex is starvation-free, so
\* a request that can wake or lock does.  Nothing is assumed of timers, of
\* holders (a review may last) or of the administrator.
Fairness == \A r \in Requests : WF_vars(Acquire(r)) /\ WF_vars(Wake(r))

Spec == SafetySpec /\ Fairness
-----------------------------------------------------------------------------
TypeOK ==
  /\ limit \in Limits
  /\ inUse \in Nat
  /\ pc \in [Requests -> {"idle", "locking", "waiting", "woken", "holding"}]

\* gate.inUse counts the reviews in flight exactly: no path through Acquire,
\* a timeout, a shrinking limit or a release leaks or double-frees a slot.
HoldersCounted == inUse = Cardinality(Holders)

\* No lost wake-up: a request still blocked on an open channel means that
\* the gate is full, so whatever frees capacity later must also notify it
\* (the check and the capture of `changed' are one critical section).
NoLostWakeup == (\E r \in Requests : pc[r] = "waiting") => inUse >= limit

\* A review starts only while the reviews in flight stay within the limit of
\* that moment, even right after SetLimit shrank it below the number in use.
AdmittedWithinLimit ==
  [][(Holders' \ Holders # {}) => Cardinality(Holders') <= limit']_vars

PhaseOf(s) == CASE s = "idle" -> "out"
                [] s = "holding" -> "in"
                [] OTHER -> "asking"

Sem == INSTANCE Semaphore WITH phase <- [r \in Requests |-> PhaseOf(pc[r])]

\* The gate implements the resizable semaphore its callers rely on, its
\* liveness included: a free slot is not left free for ever while a request
\* waits in Acquire, whatever the timers do.
ImplementsSemaphore == Sem!Spec
=============================================================================
