---------------------------- MODULE LimitsProofs ----------------------------
(***************************************************************************)
(* Proofs about the limits of the program: the gate admits reviews within  *)
(* its limit, loses no wake-up and refines an abstract semaphore           *)
(* (Bulkhead); the login limiter bounds the guesses although it checks and *)
(* counts apart, and a session that was logged out stays out (AdminAuth);  *)
(* the review limiter keeps its table and its budgets (RateLimit).         *)
(***************************************************************************)
EXTENDS Bulkhead, RateLimit, AdminAuth, FiniteSetTheorems, TLAPS

-----------------------------------------------------------------------------
(***************************************************************************)
(* The gate, for any set of requests, any limits and any default: no       *)
(* finiteness of Requests is assumed.                                      *)
(***************************************************************************)

\* HoldersCounted is inductive only together with the fact that finitely
\* many requests hold a slot at any time: Cardinality means nothing without
\* it.
IInv == /\ TypeOK
        /\ IsFiniteSet(Holders)
        /\ HoldersCounted
        /\ NoLostWakeup

\* Every limit the gate can be given is a positive integer (NewConcurrencyGate
\* and SetLimit reject the others).
LEMMA LimitsArePositive == \A l \in Limits : l \in Nat /\ l # 0
  <1> SUFFICES ASSUME NEW l \in Limits PROVE l \in Nat /\ l # 0
    OBVIOUS
  <1>1. CASE l \in RequestedLimits /\ l >= 1
    BY <1>1, LimitsAssumption
  <1>2. CASE l = DefaultConcurrency
    BY <1>2, LimitsAssumption
  <1>3. QED
    BY <1>1, <1>2 DEF Limits

\* Closing the broadcast channel moves waiters to "woken" and changes nothing
\* for anyone else (notifyLocked).
LEMMA NotifyType ==
  ASSUME NEW p \in [Requests -> {"idle", "locking", "waiting", "woken", "holding"}]
  PROVE  /\ notifyLocked(p) \in [Requests -> {"idle", "locking", "waiting", "woken", "holding"}]
         /\ \A r \in Requests : notifyLocked(p)[r] # "waiting"
         /\ \A r \in Requests : (notifyLocked(p)[r] = "holding") <=> (p[r] = "holding")
  BY DEF notifyLocked

\* An idle gate satisfies the invariant.
LEMMA InitIInv == Init => IInv
  <1> SUFFICES ASSUME Init PROVE IInv
    OBVIOUS
  <1>1. TypeOK
    BY LimitsAssumption DEF Init, NewConcurrencyGate, TypeOK, Limits
  <1>2. Holders = {}
    BY DEF Init, Holders
  <1>3. NoLostWakeup
    BY DEF Init, NoLostWakeup
  <1>4. QED
    BY <1>1, <1>2, <1>3, FS_EmptySet DEF IInv, HoldersCounted, Init, NewConcurrencyGate

\* Every critical section and every select branch preserves the invariant.
LEMMA NextIInv == IInv /\ [Next]_vars => IInv'
  <1> SUFFICES ASSUME IInv, [Next]_vars PROVE IInv'
    OBVIOUS
  <1> USE LimitsArePositive
  <1>1. ASSUME NEW r \in Requests, Start(r) PROVE IInv'
    <2>1. TypeOK' BY <1>1 DEF IInv, TypeOK, Start
    <2>2. Holders' = Holders BY <1>1 DEF IInv, TypeOK, Start, Holders
    <2>3. NoLostWakeup' BY <1>1 DEF IInv, TypeOK, Start, NoLostWakeup
    <2>4. QED BY <1>1, <2>1, <2>2, <2>3 DEF IInv, HoldersCounted, Start
  <1>2. ASSUME NEW r \in Requests, Acquire(r) PROVE IInv'
    <2>1. TypeOK' BY <1>2 DEF IInv, TypeOK, Acquire
    <2>2. CASE inUse < limit
      <3>1. Holders' = Holders \cup {r} /\ r \notin Holders
        BY <1>2, <2>2 DEF IInv, TypeOK, Acquire, Holders
      <3>2. IsFiniteSet(Holders') /\ Cardinality(Holders') = Cardinality(Holders) + 1
        BY <3>1, FS_AddElement DEF IInv
      <3>3. NoLostWakeup'
        BY <1>2, <2>2 DEF IInv, TypeOK, Acquire, NoLostWakeup
      <3>4. QED BY <1>2, <2>1, <2>2, <3>2, <3>3 DEF IInv, HoldersCounted, Acquire
    <2>3. CASE ~(inUse < limit)
      <3>1. Holders' = Holders
        BY <1>2, <2>3 DEF IInv, TypeOK, Acquire, Holders
      <3>2. NoLostWakeup'
        BY <1>2, <2>3 DEF IInv, TypeOK, Acquire, NoLostWakeup
      <3>3. QED BY <1>2, <2>1, <2>3, <3>1, <3>2 DEF IInv, HoldersCounted, Acquire
    <2>4. QED BY <2>2, <2>3
  <1>3. ASSUME NEW r \in Requests, Wake(r) PROVE IInv'
    <2>1. TypeOK' BY <1>3 DEF IInv, TypeOK, Wake
    <2>2. Holders' = Holders BY <1>3 DEF IInv, TypeOK, Wake, Holders
    <2>3. NoLostWakeup' BY <1>3 DEF IInv, TypeOK, Wake, NoLostWakeup
    <2>4. QED BY <1>3, <2>1, <2>2, <2>3 DEF IInv, HoldersCounted, Wake
  <1>4. ASSUME NEW r \in Requests, GiveUp(r) PROVE IInv'
    <2>1. TypeOK' BY <1>4 DEF IInv, TypeOK, GiveUp
    <2>2. Holders' = Holders BY <1>4 DEF IInv, TypeOK, GiveUp, Holders
    <2>3. NoLostWakeup' BY <1>4 DEF IInv, TypeOK, GiveUp, NoLostWakeup
    <2>4. QED BY <1>4, <2>1, <2>2, <2>3 DEF IInv, HoldersCounted, GiveUp
  <1>5. ASSUME NEW r \in Requests, Release(r) PROVE IInv'
    <2> DEFINE p == [pc EXCEPT ![r] = "idle"]
    <2>1. p \in [Requests -> {"idle", "locking", "waiting", "woken", "holding"}]
      BY DEF IInv, TypeOK
    <2>2. pc' = notifyLocked(p)
      BY <1>5 DEF Release
    <2>3. TypeOK'
      <3>1. limit' = limit /\ inUse' \in Nat
        BY <1>5 DEF IInv, TypeOK, Release
      <3>2. pc' \in [Requests -> {"idle", "locking", "waiting", "woken", "holding"}]
        BY <2>1, <2>2, NotifyType
      <3>3. QED BY <3>1, <3>2 DEF IInv, TypeOK
    <2>4. Holders' = Holders \ {r} /\ r \in Holders
      BY <1>5, <2>1, <2>2, NotifyType DEF Holders, Release, IInv, TypeOK
    <2>5. IsFiniteSet(Holders') /\ Cardinality(Holders') = Cardinality(Holders) - 1
      BY <2>4, FS_RemoveElement DEF IInv
    <2>6. inUse' = inUse - 1
      <3>1. Cardinality(Holders) # 0
        BY <2>4, FS_EmptySet DEF IInv
      <3>2. QED BY <1>5, <3>1 DEF Release, IInv, HoldersCounted, TypeOK
    <2>7. NoLostWakeup'
      BY <2>1, <2>2, NotifyType DEF NoLostWakeup
    <2>8. QED BY <2>3, <2>5, <2>6, <2>7 DEF IInv, HoldersCounted
  <1>6. ASSUME NEW l \in RequestedLimits, SetLimit(l) PROVE IInv'
    <2>1. pc' = notifyLocked(pc) /\ pc \in [Requests -> {"idle", "locking", "waiting", "woken", "holding"}]
      BY <1>6 DEF SetLimit, IInv, TypeOK
    <2>2. TypeOK'
      BY <1>6, <2>1, NotifyType DEF IInv, TypeOK, SetLimit, Limits
    <2>3. Holders' = Holders
      BY <2>1, NotifyType DEF Holders
    <2>4. NoLostWakeup'
      BY <2>1, NotifyType DEF NoLostWakeup
    <2>5. QED BY <1>6, <2>2, <2>3, <2>4 DEF IInv, HoldersCounted, SetLimit
  <1>7. CASE UNCHANGED vars
    BY <1>7 DEF IInv, TypeOK, HoldersCounted, NoLostWakeup, Holders, vars
  <1>8. QED
    BY <1>1, <1>2, <1>3, <1>4, <1>5, <1>6, <1>7 DEF Next

\* The gate's counter is exact and no wake-up is lost, in every behaviour.
THEOREM InvariantHolds == SafetySpec => []IInv
  BY InitIInv, NextIInv, PTL DEF SafetySpec

\* Type correctness of the gate's state.
THEOREM TypeCorrect == SafetySpec => []TypeOK
  <1>1. IInv => TypeOK BY DEF IInv
  <1>2. QED BY <1>1, InvariantHolds, PTL

\* gate.inUse is the number of reviews in flight.
THEOREM CounterExact == SafetySpec => []HoldersCounted
  <1>1. IInv => HoldersCounted BY DEF IInv
  <1>2. QED BY <1>1, InvariantHolds, PTL

\* A request blocked on an open channel means a full gate.
THEOREM NoWakeupIsLost == SafetySpec => []NoLostWakeup
  <1>1. IInv => NoLostWakeup BY DEF IInv
  <1>2. QED BY <1>1, InvariantHolds, PTL

-----------------------------------------------------------------------------
\* One step of the gate that lets a request in leaves at most `limit' of them
\* inside.
LEMMA AdmissionStep ==
  IInv /\ [Next]_vars =>
    [(Holders' \ Holders # {}) => Cardinality(Holders') <= limit']_vars
  <1> SUFFICES ASSUME IInv, Next, Holders' \ Holders # {}
               PROVE  Cardinality(Holders') <= limit'
    OBVIOUS
  <1>1. PICK x \in Requests : pc'[x] = "holding" /\ pc[x] # "holding"
    BY DEF Holders
  <1>2. \E r \in Requests : Acquire(r) /\ inUse < limit
    <2>1. ASSUME NEW r \in Requests, Release(r) PROVE FALSE
      <3>1. [pc EXCEPT ![r] = "idle"] \in [Requests -> {"idle", "locking", "waiting", "woken", "holding"}]
        BY DEF IInv, TypeOK
      <3>2. QED BY <1>1, <2>1, <3>1, NotifyType DEF Release, IInv, TypeOK
    <2>2. ASSUME NEW l \in RequestedLimits, SetLimit(l) PROVE FALSE
      BY <1>1, <2>2, NotifyType DEF SetLimit, IInv, TypeOK
    <2>3. ASSUME NEW r \in Requests, Start(r) \/ Wake(r) \/ GiveUp(r) PROVE FALSE
      BY <1>1, <2>3 DEF Start, Wake, GiveUp, IInv, TypeOK
    <2>4. ASSUME NEW r \in Requests, Acquire(r), ~(inUse < limit) PROVE FALSE
      BY <1>1, <2>4 DEF Acquire, IInv, TypeOK
    <2>5. QED BY <2>1, <2>2, <2>3, <2>4 DEF Next
  <1>3. inUse' = inUse + 1 /\ limit' = limit
    BY <1>2 DEF Acquire
  <1>4. inUse' = Cardinality(Holders')
    BY NextIInv DEF IInv, HoldersCounted
  <1>5. QED
    BY <1>2, <1>3, <1>4, LimitsArePositive DEF IInv, TypeOK

\* A review never starts beyond the limit in force, also after SetLimit has
\* shrunk it below the number of reviews in flight.
THEOREM AdmissionBounded == SafetySpec => AdmittedWithinLimit
  BY InvariantHolds, AdmissionStep, PTL DEF SafetySpec, AdmittedWithinLimit

-----------------------------------------------------------------------------
\* The requests inside the abstract semaphore are the holders of the gate.
LEMMA InsideIsHolders == TypeOK => Sem!Inside = Holders
  BY DEF TypeOK, Sem!Inside, Holders, PhaseOf

\* Every step of the gate is a step of the semaphore or leaves it unchanged:
\* locking, waiting and waking are all "asking".
LEMMA StepRefines == IInv /\ [Next]_vars => [Sem!Next]_(Sem!vars)
  <1> SUFFICES ASSUME IInv, [Next]_vars PROVE [Sem!Next]_(Sem!vars)
    OBVIOUS
  <1> DEFINE ph == [r \in Requests |-> PhaseOf(pc[r])]
  <1> USE DEF PhaseOf
  <1>1. ASSUME NEW r \in Requests, Start(r) PROVE Sem!Ask(r)
    BY <1>1 DEF IInv, TypeOK, Start, Sem!Ask
  <1>2. ASSUME NEW r \in Requests, Acquire(r), inUse < limit PROVE Sem!Grant(r)
    <2>1. Sem!Cardinality(Sem!Inside) < limit
      BY <1>2, InsideIsHolders DEF IInv, HoldersCounted, Cardinality, Sem!Cardinality
    <2>2. QED BY <1>2, <2>1 DEF IInv, TypeOK, Acquire, Sem!Grant
  <1>3. ASSUME NEW r \in Requests, Acquire(r), ~(inUse < limit) PROVE UNCHANGED Sem!vars
    BY <1>3 DEF IInv, TypeOK, Acquire, Sem!vars
  <1>4. ASSUME NEW r \in Requests, Wake(r) PROVE UNCHANGED Sem!vars
    BY <1>4 DEF IInv, TypeOK, Wake, Sem!vars
  <1>5. ASSUME NEW r \in Requests, GiveUp(r) PROVE Sem!GiveUp(r)
    BY <1>5 DEF IInv, TypeOK, GiveUp, Sem!GiveUp
  <1>6. ASSUME NEW r \in Requests, Release(r) PROVE Sem!Leave(r)
    BY <1>6 DEF IInv, TypeOK, Release, notifyLocked, Sem!Leave
  <1>7. ASSUME NEW l \in RequestedLimits, SetLimit(l) PROVE l \in Limits /\ Sem!Resize(l)
    BY <1>7 DEF IInv, TypeOK, SetLimit, notifyLocked, Sem!Resize, Limits
  <1>8. CASE UNCHANGED vars
    BY <1>8 DEF vars, Sem!vars
  <1>9. QED
    BY <1>1, <1>2, <1>3, <1>4, <1>5, <1>6, <1>7, <1>8 DEF Next, Sem!Next

\* The gate implements the safety part of the resizable semaphore for every
\* number of requests and every choice of limits.
THEOREM GateRefinesSemaphore == SafetySpec => Sem!SafetySpec
  <1>1. Init => Sem!Init
    BY LimitsAssumption DEF Init, NewConcurrencyGate, Sem!Init, Limits, PhaseOf
  <1>2. QED
    BY <1>1, InvariantHolds, StepRefines, PTL DEF SafetySpec, Sem!SafetySpec

-----------------------------------------------------------------------------
(***************************************************************************)
(* The login limiter.                                                      *)
(***************************************************************************)

\* Dropping the old failures leaves a list of times that is not longer: the
\* rank of a kept position counts the kept positions up to it, and maps them
\* one to one onto the places of the new list.
LEMMA AfterShortens ==
  ASSUME NEW list \in Seq(Times), NEW cut \in Int
  PROVE  After(list, cut) \in Seq(Times) /\ Len(After(list, cut)) <= Len(list)
<1> DEFINE kept == {i \in DOMAIN list : list[i] > cut}
           upto(i) == {j \in kept : j <= i}
           n == Cardinality(kept)
           rank == [i \in kept |-> Cardinality(upto(i))]
           nth(m) == CHOOSE i \in kept : Cardinality({j \in kept : j <= i}) = m
<1>1. Len(list) \in Nat /\ DOMAIN list = 1..Len(list) /\ \A i \in DOMAIN list : list[i] \in Times
  OBVIOUS
<1>2. IsFiniteSet(1..Len(list)) /\ Cardinality(1..Len(list)) = Len(list)
  BY <1>1, FS_Interval
<1>3. kept \in SUBSET (1..Len(list))
  BY <1>1
<1>4. IsFiniteSet(kept) /\ n \in Nat /\ n <= Len(list)
  BY <1>2, <1>3, FS_Subset, FS_CardinalityType
<1>5. IsFiniteSet(1..n) /\ Cardinality(1..n) = n
  BY <1>4, FS_Interval
<1>6. \A i \in kept : i \in Nat
  BY <1>1, <1>3
<1> HIDE DEF kept, n
<1>7. ASSUME NEW i \in kept
      PROVE  /\ IsFiniteSet(upto(i)) /\ Cardinality(upto(i)) \in 1..n
             /\ i \in upto(i)
  <2>1. upto(i) \in SUBSET kept /\ i \in upto(i)
    BY <1>6
  <2> HIDE DEF upto
  <2>2. IsFiniteSet(upto(i)) /\ Cardinality(upto(i)) <= n
    BY <1>4, <2>1, FS_Subset DEF n
  <2>3. Cardinality(upto(i)) \in Nat /\ Cardinality(upto(i)) # 0
    BY <2>1, <2>2, FS_CardinalityType, FS_EmptySet
  <2> QED
    BY <1>4, <2>1, <2>2, <2>3
<1>8. ASSUME NEW i \in kept, NEW k \in kept, i < k
      PROVE  Cardinality(upto(i)) # Cardinality(upto(k))
  <2>1. upto(i) \in SUBSET upto(k) /\ k \in upto(k) /\ k \notin upto(i)
    BY <1>6, <1>8
  <2>2. IsFiniteSet(upto(k))
    BY <1>7
  <2> HIDE DEF upto
  <2>3. upto(i) # upto(k)
    BY <2>1
  <2> QED
    BY <2>1, <2>2, <2>3, FS_Subset
<1>9. rank \in Injection(kept, 1..n)
  <2>1. rank \in [kept -> 1..n]
    BY <1>7
  <2>2. ASSUME NEW i \in kept, NEW k \in kept, rank[i] = rank[k] PROVE i = k
    <3>1. rank[i] = Cardinality(upto(i)) /\ rank[k] = Cardinality(upto(k))
      OBVIOUS
    <3>2. ~(i < k) /\ ~(k < i)
      BY <1>8, <2>2, <3>1
    <3> QED
      BY <1>6, <3>2
  <2>3. DOMAIN rank = kept
    OBVIOUS
  <2> HIDE DEF rank
  <2> QED
    BY <2>1, <2>2, <2>3 DEF Injection, IsInjective
<1>10. rank \in Surjection(kept, 1..n)
  <2> HIDE DEF rank
  <2> QED
    BY <1>5, <1>9, FS_Injection DEF n
<1>11. ASSUME NEW m \in 1..n PROVE list[nth(m)] \in Times
  <2>1. PICK i \in kept : rank[i] = m
    BY <1>10 DEF Surjection
  <2>2. Cardinality({j \in kept : j <= i}) = m
    BY <2>1
  <2>3. nth(m) \in kept
    BY <2>1, <2>2
  <2> HIDE DEF nth
  <2> QED
    BY <1>1, <2>3 DEF kept
<1>12. After(list, cut) = [m \in 1..n |-> list[nth(m)]]
  BY DEF After, kept, n
<1> HIDE DEF nth
<1> QED
  BY <1>4, <1>11, <1>12

(***************************************************************************)
(* The two safety invariants share one induction.  LoggedOutStaysOut needs *)
(* to know how a request comes to be served: its session was looked up     *)
(* after it arrived, and a token whose logout had been answered by then    *)
(* has a row only if the row could not be deleted, because no token is     *)
(* issued twice.                                                           *)
(***************************************************************************)
LoginStates == [at : {"verifying", "admitted"}, ip : IPs]
RequestStates == [at : {"checking", "serving"}, token : Tokens,
                  kind : {"read", "write", "unproved"}, before : SUBSET ended]

HandlersOK == handler \in [Handlers -> {Idle} \cup LoginStates \cup RequestStates]

EndedRowsUndeleted == \A t \in ended : t \in DOMAIN sessions => t \in undeleted

ServedWasIssued == \A h \in Handlers : handler[h].at = "serving" => handler[h].token \in issued

AuthInv == /\ AuthTypeOK /\ HandlersOK
           /\ EndedRowsUndeleted /\ ServedWasIssued /\ LoggedOutStaysOut
           /\ GuessesBounded

\* What a handler holds follows from the place it is at.
LEMMA StateByPlace ==
  ASSUME HandlersOK, NEW h \in Handlers
  PROVE  /\ handler[h].at \in {"verifying", "admitted"} => handler[h] \in LoginStates
         /\ handler[h].at \in {"checking", "serving"} => handler[h] \in RequestStates
BY DEF HandlersOK, Idle, LoginStates, RequestStates

\* Nothing has happened yet.
LEMMA AuthInitial == AuthInit => AuthInv
<1> SUFFICES ASSUME AuthInit PROVE AuthInv
  OBVIOUS
<1>1. DOMAIN sessions = {}
  BY DEF AuthInit
<1>2. AuthTypeOK
  BY <1>1, ClockAssumption DEF AuthInit, AuthTypeOK, Times
<1>3. HandlersOK
  BY DEF AuthInit, HandlersOK
<1>4. \A h \in Handlers : handler[h].at = "idle"
  BY DEF AuthInit, Idle
<1>5. EndedRowsUndeleted /\ ServedWasIssued /\ LoggedOutStaysOut
  BY <1>1, <1>4 DEF EndedRowsUndeleted, ServedWasIssued, LoggedOutStaysOut
<1>6. ASSUME NEW ip \in IPs
      PROVE  Len(attempts[ip]) + Cardinality(Verifying(ip)) <= MaxFailures - 1 + Cardinality(Handlers)
  <2>1. Len(attempts[ip]) = 0
    BY DEF AuthInit
  <2>2. Verifying(ip) = {}
    BY <1>4 DEF Verifying
  <2>3. Cardinality(Verifying(ip)) = 0 /\ Cardinality(Handlers) \in Nat
    BY <2>2, AuthAssumption, FS_EmptySet, FS_CardinalityType
  <2> QED
    BY <2>1, <2>3, AuthAssumption
<1> QED
  BY <1>2, <1>3, <1>5, <1>6 DEF AuthInv, GuessesBounded

\* The attempts under way for an address are some of the handlers.
LEMMA VerifyingFinite ==
  ASSUME NEW ip
  PROVE  /\ IsFiniteSet(Verifying(ip)) /\ Cardinality(Verifying(ip)) \in Nat
         /\ Cardinality(Verifying(ip)) <= Cardinality(Handlers)
         /\ Cardinality(Handlers) \in Nat
<1>1. Verifying(ip) \in SUBSET Handlers
  BY DEF Verifying
<1> QED
  BY <1>1, AuthAssumption, FS_Subset, FS_CardinalityType

\* The bound survives every step in which no list gets longer and no attempt
\* is added, ...
LEMMA BoundKept ==
  ASSUME GuessesBounded, AuthTypeOK, AuthTypeOK',
         \A ip \in IPs : Len(attempts'[ip]) <= Len(attempts[ip]),
         \A ip \in IPs : Verifying(ip)' \subseteq Verifying(ip)
  PROVE  GuessesBounded'
<1> SUFFICES ASSUME NEW ip \in IPs
             PROVE  Len(attempts'[ip]) + Cardinality(Verifying(ip)')
                      <= MaxFailures - 1 + Cardinality(Handlers)
  BY DEF GuessesBounded
<1>1. Verifying(ip)' \in SUBSET Verifying(ip)
  OBVIOUS
<1>2. IsFiniteSet(Verifying(ip)) /\ Cardinality(Verifying(ip)) \in Nat /\ Cardinality(Handlers) \in Nat
  BY VerifyingFinite
<1>3. Cardinality(Verifying(ip)') <= Cardinality(Verifying(ip)) /\ Cardinality(Verifying(ip)') \in Nat
  BY <1>1, <1>2, FS_Subset, FS_CardinalityType
<1>4. Len(attempts[ip]) \in Nat /\ Len(attempts'[ip]) \in Nat
  BY DEF AuthTypeOK
<1>5. Len(attempts[ip]) + Cardinality(Verifying(ip)) <= MaxFailures - 1 + Cardinality(Handlers)
  BY DEF GuessesBounded
<1>6. MaxFailures \in Nat /\ Len(attempts'[ip]) <= Len(attempts[ip])
  BY AuthAssumption
<1> QED
  BY <1>2, <1>3, <1>4, <1>5, <1>6

\* ... in particular every step that touches neither the lists nor the
\* attempts under way.
LEMMA BoundUntouched ==
  ASSUME GuessesBounded, AuthTypeOK, AuthTypeOK', HandlersOK, attempts' = attempts,
         NEW h \in Handlers, NEW s, handler' = [handler EXCEPT ![h] = s], s.at # "verifying"
  PROVE  GuessesBounded'
<1>1. \A ip \in IPs : Len(attempts'[ip]) <= Len(attempts[ip])
  BY DEF AuthTypeOK
<1>2. \A ip \in IPs : Verifying(ip)' \subseteq Verifying(ip)
  BY DEF Verifying, HandlersOK
<1> QED
  BY <1>1, <1>2, BoundKept

\* A handler that moves on leaves the others where they are.
LEMMA HandlerMoves ==
  ASSUME HandlersOK, NEW h \in Handlers, NEW s, Become(h, s), ended \subseteq ended',
         s = Idle \/ s \in LoginStates \/ s \in RequestStates
  PROVE  /\ HandlersOK'
         /\ handler'[h] = s
         /\ \A g \in Handlers : g # h => handler'[g] = handler[g]
<1>1. handler' = [g \in Handlers |-> IF g = h THEN s ELSE handler[g]]
  BY DEF Become, HandlersOK
<1>2. LoginStates' = LoginStates /\ RequestStates \subseteq RequestStates'
  BY DEF LoginStates, RequestStates
<1>3. ASSUME NEW g \in Handlers
      PROVE  handler'[g] \in {Idle} \cup LoginStates \cup RequestStates'
  BY <1>1, <1>2 DEF HandlersOK
<1> QED
  BY <1>1, <1>2, <1>3 DEF HandlersOK, Idle

\* A step in which no request begins to be served and no row appears keeps
\* the facts about the sessions, once its handler is known to have moved on.
SessionsOK == EndedRowsUndeleted /\ ServedWasIssued /\ LoggedOutStaysOut

\* A step that serves nobody, adds no row and ends no session keeps them.
LEMMA SessionsUntouched ==
  ASSUME AuthTypeOK, HandlersOK, SessionsOK, NEW h \in Handlers,
         \A g \in Handlers : g # h => handler'[g] = handler[g],
         handler'[h].at # "serving",
         DOMAIN sessions' \subseteq DOMAIN sessions, issued' = issued, ended' = ended,
         undeleted' = undeleted
  PROVE  SessionsOK'
BY DEF SessionsOK, EndedRowsUndeleted, ServedWasIssued, LoggedOutStaysOut

\* limiter.allow keeps the types, the sessions and the bound: an attempt it
\* lets through finds fewer than MaxFailures failures on record.
LEMMA AllowKeeps ==
  ASSUME AuthInv, NEW h \in Handlers, NEW ip \in IPs, allow(h, ip)
  PROVE  AuthInv'
<1> DEFINE list == After(attempts[ip], now - LoginWindow)
           verifying == [at |-> "verifying", ip |-> ip]
<1>1. attempts[ip] \in Seq(Times) /\ now - LoginWindow \in Int
  BY AuthAssumption, ClockAssumption DEF AuthInv, AuthTypeOK, Times
<1>2. list \in Seq(Times) /\ Len(list) <= Len(attempts[ip])
  BY <1>1, AfterShortens
<1>3. /\ handler[h] = Idle
      /\ attempts' = [attempts EXCEPT ![ip] = list]
      /\ \/ Len(list) < MaxFailures /\ Become(h, verifying)
         \/ handler' = handler
      /\ UNCHANGED <<now, sessions, issued, ended, undeleted>>
  BY DEF allow
<1> HIDE DEF list
<1>4. AuthTypeOK'
  BY <1>2, <1>3 DEF AuthInv, AuthTypeOK
<1>5. verifying \in LoginStates /\ verifying.at = "verifying" /\ verifying.ip = ip
  BY DEF LoginStates
<1>6. \A i \in IPs : Len(attempts'[i]) <= Len(attempts[i]) /\ Len(attempts'[i]) \in Nat
  BY <1>2, <1>3 DEF AuthInv, AuthTypeOK
<1> HIDE DEF verifying
<1>7. CASE Len(list) < MaxFailures /\ Become(h, verifying)
  <2>1. /\ HandlersOK' /\ handler'[h] = verifying
        /\ \A g \in Handlers : g # h => handler'[g] = handler[g]
    BY <1>3, <1>5, <1>7, HandlerMoves DEF AuthInv
  <2>2. SessionsOK'
    BY <1>3, <1>5, <2>1, SessionsUntouched DEF AuthInv, SessionsOK
  <2>3. ASSUME NEW i \in IPs
        PROVE  Len(attempts'[i]) + Cardinality(Verifying(i)')
                 <= MaxFailures - 1 + Cardinality(Handlers)
    <3>1. CASE i = ip
      <4>1. Len(attempts'[i]) <= MaxFailures - 1 /\ Len(attempts'[i]) \in Nat
        BY <1>2, <1>3, <1>6, <1>7, <3>1, AuthAssumption DEF AuthInv, AuthTypeOK
      <4>2. /\ Cardinality(Verifying(i)') \in Nat /\ Cardinality(Handlers) \in Nat
            /\ Cardinality(Verifying(i)') <= Cardinality(Handlers)
        <5>1. Verifying(i)' \in SUBSET Handlers
          BY DEF Verifying
        <5> QED
          BY <5>1, AuthAssumption, FS_Subset, FS_CardinalityType
      <4> QED
        BY <4>1, <4>2, AuthAssumption
    <3>2. CASE i # ip
      <4>1. Verifying(i)' = Verifying(i)
        BY <1>3, <1>5, <2>1, <3>2 DEF Verifying, Idle
      <4>2. attempts'[i] = attempts[i]
        BY <1>3, <3>2 DEF AuthInv, AuthTypeOK
      <4> QED
        BY <4>1, <4>2 DEF AuthInv, GuessesBounded
    <3> QED
      BY <3>1, <3>2
  <2> QED
    BY <1>4, <2>1, <2>2, <2>3 DEF AuthInv, SessionsOK, GuessesBounded
<1>8. CASE handler' = handler
  <2>1. \A i \in IPs : Verifying(i)' \subseteq Verifying(i)
    BY <1>8 DEF Verifying
  <2>2. GuessesBounded'
    BY <1>4, <1>6, <2>1, BoundKept DEF AuthInv
  <2>3. HandlersOK'
    BY <1>3, <1>8 DEF AuthInv, HandlersOK, Idle, LoginStates, RequestStates
  <2>4. SessionsOK'
    BY <1>3, <1>8
    DEF AuthInv, SessionsOK, EndedRowsUndeleted, ServedWasIssued, LoggedOutStaysOut
  <2> QED
    BY <1>4, <2>2, <2>3, <2>4 DEF AuthInv, SessionsOK
<1> QED
  BY <1>3, <1>7, <1>8

\* The end of a refused attempt: its failure takes the place of the attempt.
LEMMA LoginFailsKeeps ==
  ASSUME AuthInv, NEW h \in Handlers, LoginFails(h)
  PROVE  AuthInv'
<1> DEFINE ip == handler[h].ip
<1>1. handler[h] \in LoginStates /\ ip \in IPs /\ handler[h].at = "verifying"
  BY StateByPlace DEF AuthInv, LoginFails, LoginStates
<1>2. /\ attempts' = [attempts EXCEPT ![ip] = Append(attempts[ip], now)]
      /\ Become(h, Idle) /\ UNCHANGED <<now, sessions, issued, ended, undeleted>>
  BY DEF LoginFails
<1>3. h \in Verifying(ip)
  BY <1>1 DEF Verifying
<1> HIDE DEF ip
<1>4. attempts[ip] \in Seq(Times) /\ now \in Times
  BY <1>1 DEF AuthInv, AuthTypeOK
<1>5. /\ Append(attempts[ip], now) \in Seq(Times)
      /\ Len(Append(attempts[ip], now)) = Len(attempts[ip]) + 1 /\ Len(attempts[ip]) \in Nat
  BY <1>4
<1>6. AuthTypeOK'
  BY <1>2, <1>5 DEF AuthInv, AuthTypeOK
<1>7. /\ HandlersOK' /\ handler'[h] = Idle
      /\ \A g \in Handlers : g # h => handler'[g] = handler[g]
  BY <1>2, HandlerMoves DEF AuthInv
<1>8. handler'[h].at = "idle"
  BY <1>7 DEF Idle
<1>9. SessionsOK'
  BY <1>2, <1>7, <1>8, SessionsUntouched DEF AuthInv, SessionsOK
<1>10. ASSUME NEW i \in IPs
       PROVE  Len(attempts'[i]) + Cardinality(Verifying(i)')
                <= MaxFailures - 1 + Cardinality(Handlers)
  <2>1. Len(attempts[i]) + Cardinality(Verifying(i)) <= MaxFailures - 1 + Cardinality(Handlers)
    BY DEF AuthInv, GuessesBounded
  <2>2. Verifying(i)' = Verifying(i) \ {h}
    BY <1>7, <1>8 DEF Verifying
  <2>3. /\ IsFiniteSet(Verifying(i)) /\ Cardinality(Verifying(i)) \in Nat
        /\ Cardinality(Handlers) \in Nat
    BY VerifyingFinite
  <2>4. CASE i = ip
    <3>1. Cardinality(Verifying(i)') = Cardinality(Verifying(i)) - 1
      BY <1>3, <2>2, <2>3, <2>4, FS_RemoveElement
    <3>2. Len(attempts'[i]) = Len(attempts[i]) + 1 /\ Len(attempts[i]) \in Nat
      BY <1>2, <1>5, <2>4 DEF AuthInv, AuthTypeOK
    <3> QED
      BY <2>1, <2>3, <3>1, <3>2, AuthAssumption
  <2>5. CASE i # ip
    <3>1. Verifying(i)' = Verifying(i)
      <4>1. h \notin Verifying(i)
        BY <2>5 DEF Verifying, ip
      <4> QED
        BY <2>2, <4>1
    <3>2. attempts'[i] = attempts[i]
      BY <1>2, <2>5 DEF AuthInv, AuthTypeOK
    <3> QED
      BY <2>1, <3>1, <3>2
  <2> QED
    BY <2>4, <2>5
<1> QED
  BY <1>6, <1>7, <1>9, <1>10 DEF AuthInv, SessionsOK, GuessesBounded

\* A handler that answers without touching the lists, and deletes rows at
\* most: the end of a malformed login, a denial, or a request that is served.
LEMMA AnswerKeeps ==
  ASSUME AuthInv, NEW h \in Handlers, Become(h, Idle),
         DOMAIN sessions' \subseteq DOMAIN sessions,
         UNCHANGED <<now, attempts, issued, ended, undeleted>>
  PROVE  AuthInv'
<1>1. /\ HandlersOK' /\ handler'[h] = Idle
      /\ \A g \in Handlers : g # h => handler'[g] = handler[g]
  BY HandlerMoves DEF AuthInv
<1>2. Idle.at = "idle"
  BY DEF Idle
<1>3. AuthTypeOK'
  BY DEF AuthInv, AuthTypeOK
<1>4. SessionsOK'
  BY <1>1, <1>2, SessionsUntouched DEF AuthInv, SessionsOK
<1>5. GuessesBounded'
  BY <1>2, <1>3, BoundUntouched DEF AuthInv, Become
<1> QED
  BY <1>1, <1>3, <1>4, <1>5 DEF AuthInv, SessionsOK

\* A login inserts a session for a token that no logout can have ended.
LEMMA LoginKeeps ==
  ASSUME AuthInv, NEW h \in Handlers, Login(h)
  PROVE  AuthInv'
<1> DEFINE s == [at |-> "admitted", ip |-> handler[h].ip]
<1>1. PICK token \in Tokens \ issued :
        DOMAIN sessions' = DOMAIN sessions \cup {token} /\ issued' = issued \cup {token}
  BY DEF Login
<1>2. Become(h, s) /\ UNCHANGED <<now, attempts, ended, undeleted>> /\ handler[h].at = "verifying"
  BY DEF Login
<1>3. s \in LoginStates /\ s.at = "admitted"
  BY <1>2, StateByPlace DEF AuthInv, LoginStates
<1> HIDE DEF s
<1>4. /\ HandlersOK' /\ handler'[h] = s
      /\ \A g \in Handlers : g # h => handler'[g] = handler[g]
  BY <1>2, <1>3, HandlerMoves DEF AuthInv
<1>5. AuthTypeOK'
  BY <1>1, <1>2 DEF AuthInv, AuthTypeOK
<1>6. SessionsOK'
  BY <1>1, <1>2, <1>3, <1>4
  DEF AuthInv, AuthTypeOK, SessionsOK, EndedRowsUndeleted, ServedWasIssued, LoggedOutStaysOut
<1>7. GuessesBounded'
  BY <1>2, <1>3, <1>5, BoundUntouched DEF AuthInv, Become
<1> QED
  BY <1>4, <1>5, <1>6, <1>7 DEF AuthInv, SessionsOK

\* A success forgets the failures of its address.
LEMMA LoginSucceedsKeeps ==
  ASSUME AuthInv, NEW h \in Handlers, LoginSucceeds(h)
  PROVE  AuthInv'
<1>1. /\ attempts' = [attempts EXCEPT ![handler[h].ip] = <<>>]
      /\ Become(h, Idle) /\ UNCHANGED <<now, sessions, issued, ended, undeleted>>
  BY DEF LoginSucceeds
<1>2. /\ HandlersOK' /\ handler'[h] = Idle
      /\ \A g \in Handlers : g # h => handler'[g] = handler[g]
  BY <1>1, HandlerMoves DEF AuthInv
<1>3. Idle.at = "idle"
  BY DEF Idle
<1>4. AuthTypeOK'
  <2>1. PICK ip : attempts' = [attempts EXCEPT ![ip] = <<>>]
    BY <1>1
  <2>2. attempts \in [IPs -> Seq(Times)] /\ <<>> \in Seq(Times)
    BY DEF AuthInv, AuthTypeOK
  <2>3. attempts' \in [IPs -> Seq(Times)]
    BY <2>1, <2>2
  <2> QED
    BY <1>1, <2>3 DEF AuthInv, AuthTypeOK
<1>5. SessionsOK'
  BY <1>1, <1>2, <1>3, SessionsUntouched DEF AuthInv, SessionsOK
<1>6. \A i \in IPs : Len(attempts'[i]) <= Len(attempts[i])
  BY <1>1 DEF AuthInv, AuthTypeOK
<1>7. \A i \in IPs : Verifying(i)' \subseteq Verifying(i)
  BY <1>2, <1>3 DEF Verifying
<1>8. GuessesBounded'
  BY <1>4, <1>6, <1>7, BoundKept DEF AuthInv
<1> QED
  BY <1>2, <1>4, <1>5, <1>8 DEF AuthInv, SessionsOK

\* A request arrives and remembers which logouts had been answered by then.
LEMMA PresentKeeps ==
  ASSUME AuthInv, NEW h \in Handlers, NEW token \in Tokens,
         NEW kind \in {"read", "write", "unproved"}, Present(h, token, kind)
  PROVE  AuthInv'
<1>1. PICK s : /\ s = [at |-> "checking", token |-> token, kind |-> kind, before |-> ended]
               /\ Become(h, s)
  BY DEF Present
<1>2. UNCHANGED <<now, attempts, sessions, issued, ended, undeleted>>
  BY DEF Present
<1>3. s \in RequestStates /\ s.at = "checking"
  BY <1>1 DEF RequestStates
<1>4. /\ HandlersOK' /\ handler'[h] = s
      /\ \A g \in Handlers : g # h => handler'[g] = handler[g]
  BY <1>1, <1>2, <1>3, HandlerMoves DEF AuthInv
<1>5. AuthTypeOK'
  BY <1>2 DEF AuthInv, AuthTypeOK
<1>6. SessionsOK'
  BY <1>2, <1>3, <1>4, SessionsUntouched DEF AuthInv, SessionsOK
<1>7. GuessesBounded'
  BY <1>1, <1>2, <1>3, <1>5, BoundUntouched DEF AuthInv, Become
<1> QED
  BY <1>4, <1>5, <1>6, <1>7 DEF AuthInv, SessionsOK

\* A session is found: if its logout had been answered before the request
\* came, the row is one that could not be deleted.
LEMMA AdmitKeeps ==
  ASSUME AuthInv, NEW h \in Handlers, Admit(h)
  PROVE  AuthInv'
<1>1. PICK r \in RequestStates : r = handler[h] /\ r.at = "checking"
  BY StateByPlace DEF AuthInv, Admit
<1>2. PICK s : s = [r EXCEPT !.at = "serving"]
  OBVIOUS
<1>3. Become(h, s) /\ r.token \in DOMAIN sessions
  BY <1>1, <1>2 DEF Admit
<1>4. UNCHANGED <<now, attempts, sessions, issued, ended, undeleted>>
  BY DEF Admit
<1>5. /\ s \in RequestStates /\ s.at = "serving" /\ s.token = r.token /\ s.before = r.before
      /\ s.before \subseteq ended
  BY <1>2 DEF RequestStates
<1>6. /\ HandlersOK' /\ handler'[h] = s
      /\ \A g \in Handlers : g # h => handler'[g] = handler[g]
  BY <1>3, <1>4, <1>5, HandlerMoves DEF AuthInv
<1>7. AuthTypeOK'
  BY <1>4 DEF AuthInv, AuthTypeOK
<1>8. EndedRowsUndeleted'
  BY <1>4 DEF AuthInv, EndedRowsUndeleted
<1>9. s.token \in issued /\ (s.token \in s.before => s.token \in undeleted)
  BY <1>3, <1>5 DEF AuthInv, AuthTypeOK, EndedRowsUndeleted
<1>10. ServedWasIssued' /\ LoggedOutStaysOut'
  BY <1>4, <1>6, <1>9 DEF AuthInv, ServedWasIssued, LoggedOutStaysOut
<1>11. GuessesBounded'
  BY <1>3, <1>4, <1>5, <1>7, BoundUntouched DEF AuthInv, Become
<1> QED
  BY <1>6, <1>7, <1>8, <1>10, <1>11 DEF AuthInv

\* A logout deletes the row or leaves its failure on record.
LEMMA LogoutKeeps ==
  ASSUME AuthInv, NEW h \in Handlers, Logout(h)
  PROVE  AuthInv'
<1> DEFINE token == handler[h].token
<1>1. token \in issued /\ Become(h, Idle) /\ UNCHANGED <<now, attempts, issued>>
  BY DEF AuthInv, ServedWasIssued, Logout
<1>2. /\ ended' = ended \cup {token}
      /\ \/ DOMAIN sessions' = DOMAIN sessions \ {token} /\ undeleted' = undeleted
         \/ sessions' = sessions /\ undeleted' = undeleted \cup {token}
  BY DEF Logout, Restrict
<1> HIDE DEF token
<1>3. /\ HandlersOK' /\ handler'[h] = Idle
      /\ \A g \in Handlers : g # h => handler'[g] = handler[g]
  BY <1>1, <1>2, HandlerMoves DEF AuthInv
<1>4. Idle.at = "idle"
  BY DEF Idle
<1>5. AuthTypeOK'
  BY <1>1, <1>2 DEF AuthInv, AuthTypeOK
<1>6. EndedRowsUndeleted'
  BY <1>2 DEF AuthInv, EndedRowsUndeleted
<1>7. ServedWasIssued' /\ LoggedOutStaysOut'
  BY <1>1, <1>2, <1>3, <1>4 DEF AuthInv, ServedWasIssued, LoggedOutStaysOut
<1>8. GuessesBounded'
  BY <1>1, <1>4, <1>5, BoundUntouched DEF AuthInv, Become
<1> QED
  BY <1>3, <1>5, <1>6, <1>7, <1>8 DEF AuthInv

\* Every step of the administration API preserves the invariant.
LEMMA AuthInductive == AuthInv /\ [AuthNext]_authVars => AuthInv'
<1> SUFFICES ASSUME AuthInv, [AuthNext]_authVars PROVE AuthInv'
  OBVIOUS
<1>1. ASSUME NEW h \in Handlers, LoginMalformed(h) \/ Serve(h) PROVE AuthInv'
  BY <1>1, AnswerKeeps DEF LoginMalformed, Serve
<1>2. ASSUME NEW h \in Handlers, Deny(h) PROVE AuthInv'
  <2>1. DOMAIN sessions' \subseteq DOMAIN sessions
    BY <1>2 DEF Deny, Restrict
  <2> QED
    BY <1>2, <2>1, AnswerKeeps DEF Deny
<1>3. ASSUME UNCHANGED <<attempts, sessions, handler, issued, ended, undeleted>>, now' \in Times
      PROVE  AuthInv'
  <2>1. AuthTypeOK'
    BY <1>3 DEF AuthInv, AuthTypeOK
  <2>2. HandlersOK'
    BY <1>3 DEF AuthInv, HandlersOK, Idle, LoginStates, RequestStates
  <2>3. EndedRowsUndeleted' /\ ServedWasIssued' /\ LoggedOutStaysOut'
    BY <1>3 DEF AuthInv, EndedRowsUndeleted, ServedWasIssued, LoggedOutStaysOut
  <2>4. GuessesBounded'
    BY <1>3 DEF AuthInv, GuessesBounded, Verifying
  <2> QED
    BY <2>1, <2>2, <2>3, <2>4 DEF AuthInv
<1>4. CASE AuthTick
  <2>1. now' \in Times
    BY <1>4, ClockAssumption DEF AuthTick, Tick, AuthInv, AuthTypeOK, Times
  <2> QED
    BY <1>3, <1>4, <2>1 DEF AuthTick
<1>5. CASE UNCHANGED authVars
  BY <1>3, <1>5 DEF authVars, AuthInv, AuthTypeOK
<1> QED
  BY <1>1, <1>2, <1>4, <1>5, AllowKeeps, LoginFailsKeeps, LoginKeeps, LoginSucceedsKeeps,
     PresentKeeps, AdmitKeeps, LogoutKeeps DEF AuthNext

\* Tokens, sessions and histories keep their types and their order: a
\* logout is answered only for a token that was issued.
THEOREM AuthTypeCorrect == AuthSpec => []AuthTypeOK
<1>1. AuthInv => AuthTypeOK
  BY DEF AuthInv
<1> QED
  BY <1>1, AuthInitial, AuthInductive, PTL DEF AuthSpec

\* The guesses recorded and under way for an address exceed the limit by
\* no more than the attempts in flight, for any number of handlers, any
\* window and any limit.
THEOREM LoginGuessesBounded == AuthSpec => []GuessesBounded
<1>1. AuthInv => GuessesBounded
  BY DEF AuthInv
<1> QED
  BY <1>1, AuthInitial, AuthInductive, PTL DEF AuthSpec

\* No request that arrives after its logout was answered is served, unless
\* the row of the session could not be deleted.
THEOREM LogoutIsFinal == AuthSpec => []LoggedOutStaysOut
<1>1. AuthInv => LoggedOutStaysOut
  BY DEF AuthInv
<1> QED
  BY <1>1, AuthInitial, AuthInductive, PTL DEF AuthSpec

-----------------------------------------------------------------------------
(***************************************************************************)
(* The review limiter.  The bound on the table holds only if a call is     *)
(* charged to finitely many keys and the table is finite, and the bound on *)
(* a bucket only if stamps are taken from the clock.                       *)
(***************************************************************************)
Bucket == [started : Times, count : 1..Limit]
PendingCall == [at : Times, keys : {ks \in SUBSET Keys : IsFiniteSet(ks)}]

\* A table within the bounds of the limiter.
TableOK(b) == /\ IsFiniteSet(DOMAIN b) /\ DOMAIN b \subseteq Keys
              /\ Cardinality(DOMAIN b) <= MaxBuckets
              /\ \A k \in DOMAIN b : b[k] \in Bucket

RateInv == /\ now \in Times
           /\ TableOK(buckets)
           /\ pending \in [Calls -> {None} \cup PendingCall]

\* A call is charged to its credential and its address, or to the bucket of
\* the anonymous.
LEMMA KeysFinite ==
  ASSUME NEW client \in Clients
  PROVE  KeysOf(client[1], client[2]) \in {ks \in SUBSET Keys : IsFiniteSet(ks)}
<1> DEFINE f == client[1]
           ip == client[2]
           ofKey == IF f = None THEN {} ELSE {<<"key", f>>}
           ofIp == IF ip = None THEN {} ELSE {<<"ip", ip>>}
<1>1. f \in Fingerprints \cup {None} /\ ip \in Addresses \cup {None}
  BY RateAssumption
<1> HIDE DEF f, ip
<1>2. ofKey \subseteq Keys /\ ofIp \subseteq Keys /\ {<<"anonymous">>} \subseteq Keys
  BY <1>1 DEF Keys
<1>3. IsFiniteSet(ofKey) /\ IsFiniteSet(ofIp) /\ IsFiniteSet({<<"anonymous">>})
  BY FS_EmptySet, FS_Singleton
<1> HIDE DEF ofKey, ofIp
<1>4. IsFiniteSet(ofKey \cup ofIp)
  BY <1>3, FS_Union
<1>5. KeysOf(f, ip) \in {ofKey \cup ofIp, {<<"anonymous">>}}
  BY DEF KeysOf, ofKey, ofIp
<1>6. KeysOf(f, ip) \in {ks \in SUBSET Keys : IsFiniteSet(ks)}
  BY <1>2, <1>3, <1>4, <1>5
<1> QED
  BY <1>6 DEF f, ip

\* The sweep only drops buckets.
LEMMA SweptOK ==
  ASSUME NEW b, TableOK(b), NEW at, NEW keys
  PROVE  TableOK(Swept(b, at, keys))
<1> DEFINE kept == {k \in DOMAIN b : ~Expired(b[k], at)}
<1>1. kept \in SUBSET DOMAIN b
  OBVIOUS
<1> HIDE DEF kept
<1>2. IsFiniteSet(kept) /\ Cardinality(kept) <= Cardinality(DOMAIN b)
  BY <1>1, FS_Subset DEF TableOK
<1>3. Cardinality(kept) \in Nat /\ Cardinality(DOMAIN b) \in Nat
  BY <1>2, FS_CardinalityType DEF TableOK
<1>4. TableOK(Restrict(b, kept))
  <2>1. DOMAIN Restrict(b, kept) = kept /\ \A k \in kept : Restrict(b, kept)[k] = b[k]
    BY DEF Restrict
  <2> QED
    BY <1>1, <1>2, <1>3, <2>1, RateAssumption DEF TableOK
<1> QED
  BY <1>4 DEF Swept, kept

\* A call that finds room and budget for all its keys leaves every bucket
\* and the table within their bounds.
LEMMA ChargedOK ==
  ASSUME NEW b, TableOK(b), NEW at \in Times,
         NEW keys \in {ks \in SUBSET Keys : IsFiniteSet(ks)},
         ~Overflows(b, keys), ~Exhausted(b, keys, at)
  PROVE  TableOK(Charged(b, keys, at))
<1> DEFINE c == Charged(b, keys, at)
<1>1. /\ DOMAIN c = DOMAIN b \cup keys
      /\ \A k \in DOMAIN c : c[k] = IF k \in keys THEN [Current(b, k, at) EXCEPT !.count = @ + 1]
                                                  ELSE b[k]
  BY DEF Charged
<1> HIDE DEF c
<1>2. IsFiniteSet(DOMAIN b) /\ IsFiniteSet(keys) /\ IsFiniteSet(keys \ DOMAIN b)
  BY FS_Difference DEF TableOK
<1>3. /\ IsFiniteSet(DOMAIN b \cup (keys \ DOMAIN b))
      /\ Cardinality(DOMAIN b \cup (keys \ DOMAIN b)) =
           Cardinality(DOMAIN b) + Cardinality(keys \ DOMAIN b)
             - Cardinality(DOMAIN b \cap (keys \ DOMAIN b))
  BY <1>2, FS_Union
<1>4. DOMAIN b \cup (keys \ DOMAIN b) = DOMAIN c /\ DOMAIN b \cap (keys \ DOMAIN b) = {}
  BY <1>1
<1>5. Cardinality(DOMAIN b \cap (keys \ DOMAIN b)) = 0
  BY <1>4, FS_EmptySet
<1>6. Cardinality(DOMAIN b) \in Nat /\ Cardinality(keys \ DOMAIN b) \in Nat
  BY <1>2, FS_CardinalityType
<1>7. IsFiniteSet(DOMAIN c)
  BY <1>3, <1>4
<1>8. Cardinality(DOMAIN c) = Cardinality(DOMAIN b) + Cardinality(keys \ DOMAIN b)
  <2>1. \A x, y, z, n \in Int : n = x + y - z /\ z = 0 => n = x + y
    OBVIOUS
  <2>2. Cardinality(DOMAIN c) = Cardinality(DOMAIN b \cup (keys \ DOMAIN b))
    BY <1>4
  <2>3. Cardinality(DOMAIN c) \in Nat
    BY <1>7, FS_CardinalityType
  <2> QED
    BY <1>3, <1>5, <1>6, <2>1, <2>2, <2>3
<1>9. Cardinality(DOMAIN c) <= MaxBuckets
  BY <1>6, <1>8, RateAssumption DEF Overflows
<1>10. ASSUME NEW k \in DOMAIN c PROVE c[k] \in Bucket
  <2>1. CASE k \in keys
    <3>1. PICK u \in [started : Times, count : 0..Limit] : u = Current(b, k, at)
      <4>1. [started |-> at, count |-> 0] \in [started : Times, count : 0..Limit]
        BY RateAssumption
      <4>2. k \in DOMAIN b => b[k] \in [started : Times, count : 0..Limit]
        BY RateAssumption DEF TableOK, Bucket
      <4> QED
        BY <4>1, <4>2 DEF Current
    <3>2. u.count < Limit
      BY <2>1, <3>1, RateAssumption DEF Exhausted, Bucket
    <3>3. [u EXCEPT !.count = @ + 1] \in Bucket
      BY <3>2, RateAssumption DEF Bucket
    <3> QED
      BY <1>1, <2>1, <3>1, <3>3
  <2>2. CASE k \notin keys
    BY <1>1, <2>2 DEF TableOK
  <2> QED
    BY <2>1, <2>2
<1>11. DOMAIN c \subseteq Keys
  BY <1>1 DEF TableOK
<1> QED
  BY <1>7, <1>9, <1>10, <1>11 DEF TableOK, c

\* Every call, grant and refusal keeps the table within its bounds.
LEMMA RateInductive == RateInv /\ [RateNext]_rateVars => RateInv'
<1> SUFFICES ASSUME RateInv, [RateNext]_rateVars PROVE RateInv'
  OBVIOUS
<1>1. ASSUME NEW c \in Calls, NEW client \in Clients, BeginCall(c, client[1], client[2])
      PROVE  RateInv'
  <2>1. PICK call : call = [at |-> now, keys |-> KeysOf(client[1], client[2])]
    OBVIOUS
  <2>2. call \in PendingCall
    BY <2>1, KeysFinite DEF PendingCall, RateInv
  <2> QED
    BY <1>1, <2>1, <2>2 DEF BeginCall, RateInv
<1>2. ASSUME NEW c \in Calls, Allow(c) PROVE RateInv'
  <2>1. PICK call \in PendingCall : call = pending[c]
    BY <1>2 DEF Allow, RateInv
  <2>2. call.at \in Times /\ call.keys \in {ks \in SUBSET Keys : IsFiniteSet(ks)}
    BY DEF PendingCall
  <2> DEFINE swept == Swept(buckets, call.at, call.keys)
  <2>3. TableOK(swept)
    BY SweptOK DEF RateInv
  <2>4. \/ buckets' = swept
        \/ /\ buckets' = Charged(swept, call.keys, call.at)
           /\ ~Overflows(swept, call.keys) /\ ~Exhausted(swept, call.keys, call.at)
    BY <1>2, <2>1 DEF Allow
  <2> HIDE DEF swept
  <2>5. TableOK(buckets')
    BY <2>2, <2>3, <2>4, ChargedOK
  <2>6. TableOK(buckets)'
    BY <2>5 DEF TableOK
  <2>7. now' = now /\ pending' = [pending EXCEPT ![c] = None]
    BY <1>2 DEF Allow
  <2> QED
    BY <2>6, <2>7 DEF RateInv
<1>3. CASE RateTick
  BY <1>3, ClockAssumption DEF RateTick, Tick, RateInv, TableOK, Times
<1>4. CASE UNCHANGED rateVars
  BY <1>4 DEF rateVars, RateInv, TableOK
<1> QED
  BY <1>1, <1>2, <1>3, <1>4 DEF RateNext

\* An empty table is within its bounds.
LEMMA RateInitial == RateInit => RateInv
<1> SUFFICES ASSUME RateInit PROVE RateInv
  OBVIOUS
<1>1. DOMAIN buckets = {}
  BY DEF RateInit
<1>2. TableOK(buckets)
  BY <1>1, FS_EmptySet, RateAssumption DEF TableOK
<1> QED
  BY <1>2, ClockAssumption DEF RateInit, RateInv, Times

\* The table never holds more than MaxBuckets buckets and no bucket counts
\* more than Limit reviews, in whatever order the calls take the mutex.
THEOREM RateTypeCorrect == RateSpec => []RateTypeOK
<1>1. RateInv => RateTypeOK
  BY DEF RateInv, RateTypeOK, TableOK, Bucket
<1> QED
  BY <1>1, RateInitial, RateInductive, PTL DEF RateSpec

-----------------------------------------------------------------------------
(***************************************************************************)
(* The budget of a credential f in the window from x on.  The proof counts *)
(* the goroutines on their way to the mutex: those stamped before the      *)
(* window, each of which can open a bucket in the past after a sweep, and  *)
(* those stamped inside, which can still be granted in a later bucket.     *)
(***************************************************************************)
Callers == Cardinality(Calls)

Charges(c, f) == pending[c] # None /\ <<"key", f>> \in pending[c].keys
Early(f, x) == {c \in Calls : Charges(c, f) /\ pending[c].at < x}
Inside(f, x) == {c \in Calls : Charges(c, f) /\ x <= pending[c].at /\ pending[c].at < x + Window}

\* The bucket of a credential; an absent one counts nothing.
Started(f) == IF <<"key", f>> \in DOMAIN buckets THEN buckets[<<"key", f>>].started ELSE 0
Count(f) == IF <<"key", f>> \in DOMAIN buckets THEN buckets[<<"key", f>>].count ELSE 0

\* What may be granted by t, given a bucket (s, n), p goroutines stamped inside
\* and the grants in buckets that are gone (room).  A bucket opened before
\* the window grants one less inside it.
Loose(x, t, g, p, room, s, n) ==
  \/ g = 0
  \/ t >= x + Window /\ g + p <= (Callers + 1) * Limit - 1
  \/ n = 0 /\ g <= room
  \/ n > 0 /\ s < x /\ g <= room + n - Limit
  \/ n > 0 /\ s >= x /\ g <= room + n

\* Without a sweep the windows of two buckets are disjoint: at most one was
\* opened before x and reaches it.
Tight(x, t, g, p, s, n) ==
  \/ g = 0
  \/ t >= x + Window /\ g + p <= 2 * Limit - 1 + (Callers - 1)
  \/ n > 0 /\ s < x /\ x < s + Window /\ g <= n - 1
  \/ n > 0 /\ s >= x /\ g <= Limit - 1 + n

\* The buckets that were gone when each early goroutine that is through by
\* now opened one.
Room(q) == (Limit - 1) * (Callers - q)

Within(f, x) ==
  /\ now < x => Granted(f, x) = 0
  /\ Loose(x, now, Granted(f, x), Cardinality(Inside(f, x)),
           Room(Cardinality(Early(f, x))), Started(f), Count(f))
  /\ f \notin dropped =>
       Tight(x, now, Granted(f, x), Cardinality(Inside(f, x)), Started(f), Count(f))

BudgetInv == /\ RateInv
             /\ granted \in [Fingerprints -> [Marks -> Int]]
             /\ \A c \in Calls : pending[c] # None => pending[c].at <= now
             /\ \A f \in Fingerprints, x \in Times : Within(f, x)

\* The bucket (s, n) of a credential when a call stamped at leaves Allow: kept,
\* swept, charged, or opened.
BucketStep(at, charged, s, n, s1, n1) ==
  \/ ~charged /\ s1 = s /\ n1 = n
  \/ ~charged /\ n > 0 /\ at >= s + Window /\ n1 = 0
  \/ charged /\ n > 0 /\ at < s + Window /\ s1 = s /\ n1 = n + 1
  \/ charged /\ (n = 0 \/ at >= s + Window) /\ s1 = at /\ n1 = 1

\* Room for the products: an early goroutine that gets through adds one
\* bucket, and all goroutines together never add more than Callers of them.
LEMMA RoomFacts ==
  ASSUME NEW q \in Nat, Callers \in Nat, q <= Callers
  PROVE  /\ Room(q) \in Nat /\ (q < Callers => Room(q) >= Limit - 1)
         /\ q > 0 => Room(q - 1) = Room(q) + (Limit - 1)
         /\ Room(q) + (Callers - q) + Limit - 1 <= (Callers + 1) * Limit - 1
         /\ Room(q) <= Room(0) /\ Room(0) + Callers = Callers * Limit
<1>1. PICK n \in Nat : n = Callers
  OBVIOUS
<1>2. PICK l \in Nat : l = Limit - 1
  BY RateAssumption
<1>3. PICK m \in Nat : m = n - q
  BY <1>1
<1>4. Room(q) = l * m /\ Limit = l + 1 /\ Room(0) = l * n
  BY <1>1, <1>2, <1>3, RateAssumption DEF Room
<1>5. l * m \in Nat /\ l * q \in Nat /\ l * n = l * m + l * q
  BY <1>3
<1>6. m > 0 => l * m >= l
  <2>1. m > 0 => l * m = l + l * (m - 1) /\ l * (m - 1) \in Nat
    OBVIOUS
  <2> QED
    BY <2>1, <1>5
<1>7. q > 0 => Room(q - 1) = l * (m + 1)
  BY <1>1, <1>2, <1>3 DEF Room
<1>8. l * (m + 1) = l * m + l
  OBVIOUS
<1>9. (n + 1) * (l + 1) = l * n + n + l + 1 /\ n * (l + 1) = l * n + n
  OBVIOUS
<1> QED
  BY <1>1, <1>2, <1>3, <1>4, <1>5, <1>6, <1>7, <1>8, <1>9

\* A call stamped at leaves Allow at time t: the grants g in the window from x,
\* the goroutines inside (p) and early (q) and the bucket (s, n) become g1,
\* p1, q1 and (s1, n1).  mine: the call is charged to the credential if granted.
AllowStep(x, t, at, mine, charged, g, p, q, s, n, g1, p1, q1, s1, n1) ==
  /\ x \in Times /\ t \in Times /\ at \in Times /\ at <= t
  /\ g \in Int /\ p \in Nat /\ q \in Nat /\ p1 \in Nat /\ q1 \in Nat
  /\ s \in Times /\ n \in 0..Limit /\ s1 \in Times /\ n1 \in 0..Limit
  /\ charged => mine
  /\ Callers \in Nat /\ p1 + q1 <= Callers - 1 /\ q <= Callers
  /\ q1 = IF mine /\ at < x THEN q - 1 ELSE q
  /\ p1 = IF mine /\ x <= at /\ at < x + Window THEN p - 1 ELSE p
  /\ BucketStep(at, charged, s, n, s1, n1)
  /\ g1 = IF charged /\ x <= at /\ at < x + Window THEN g + 1 ELSE g

\* A call that leaves Allow keeps the loose bound.
LEMMA LooseAllow ==
  ASSUME NEW x, NEW t, NEW at, NEW mine \in BOOLEAN, NEW charged \in BOOLEAN,
         NEW g, NEW p, NEW q, NEW s, NEW n, NEW g1, NEW p1, NEW q1, NEW s1, NEW n1,
         AllowStep(x, t, at, mine, charged, g, p, q, s, n, g1, p1, q1, s1, n1),
         Loose(x, t, g, p, Room(q), s, n)
  PROVE  Loose(x, t, g1, p1, Room(q1), s1, n1)
<1> USE DEF AllowStep
<1>1. PICK m \in Nat, m1 \in Nat, B \in Int :
        /\ m = Room(q) /\ m1 = Room(q1) /\ B = (Callers + 1) * Limit - 1
        /\ m1 = IF mine /\ at < x THEN m + (Limit - 1) ELSE m
        /\ m1 >= Limit - 1
        /\ m1 + (Callers - q1) + Limit - 1 <= B
  <2>1. Room(q) \in Nat /\ Room(q1) \in Nat
    BY RoomFacts
  <2>2. Room(q1) = IF mine /\ at < x THEN Room(q) + (Limit - 1) ELSE Room(q)
    BY RoomFacts
  <2>3. Room(q1) >= Limit - 1 /\ Room(q1) + (Callers - q1) + Limit - 1 <= (Callers + 1) * Limit - 1
    BY RoomFacts
  <2>4. (Callers + 1) * Limit - 1 \in Int
    BY RateAssumption
  <2> QED
    BY <2>1, <2>2, <2>3, <2>4
<1>2. g1 \in Int /\ Limit \in Nat \ {0} /\ Window \in Nat \ {0}
  BY RateAssumption
<1>3. CASE g = 0
  <2>1. CASE ~charged
    BY <1>3, <2>1 DEF Loose
  <2>2. CASE charged /\ n > 0 /\ at < s + Window /\ s1 = s /\ n1 = n + 1
    BY <1>1, <1>2, <1>3, <2>2 DEF Loose, Times
  <2>3. CASE charged /\ s1 = at /\ n1 = 1
    BY <1>1, <1>2, <1>3, <2>3 DEF Loose, Times
  <2> QED
    BY <2>1, <2>2, <2>3 DEF BucketStep
<1>4. CASE t >= x + Window /\ g + p <= B
  BY <1>1, <1>2, <1>4 DEF Loose, Times
<1>5. CASE n = 0 /\ g <= m
  BY <1>1, <1>2, <1>5 DEF Loose, BucketStep, Times
<1>6. CASE n > 0 /\ s < x /\ g <= m + n - Limit
  BY <1>1, <1>2, <1>6 DEF Loose, BucketStep, Times
<1>7. CASE n > 0 /\ s >= x /\ g <= m + n
  BY <1>1, <1>2, <1>7 DEF Loose, BucketStep, Times
<1> QED
  BY <1>1, <1>3, <1>4, <1>5, <1>6, <1>7 DEF Loose

\* As long as no sweep takes the bucket, it also keeps the tight bound.
LEMMA TightAllow ==
  ASSUME NEW x, NEW t, NEW at, NEW mine \in BOOLEAN, NEW charged \in BOOLEAN,
         NEW g, NEW p, NEW q, NEW s, NEW n, NEW g1, NEW p1, NEW q1, NEW s1, NEW n1,
         AllowStep(x, t, at, mine, charged, g, p, q, s, n, g1, p1, q1, s1, n1),
         n > 0 => n1 > 0, Tight(x, t, g, p, s, n)
  PROVE  Tight(x, t, g1, p1, s1, n1)
<1> USE DEF AllowStep
<1>1. Limit \in Nat \ {0} /\ Window \in Nat \ {0}
  BY RateAssumption
<1>2. CASE ~charged /\ s1 = s /\ n1 = n
  BY <1>1, <1>2 DEF Tight, Times
<1>3. CASE charged /\ n > 0 /\ at < s + Window /\ s1 = s /\ n1 = n + 1
  BY <1>1, <1>3 DEF Tight, Times
<1>4. CASE charged /\ (n = 0 \/ at >= s + Window) /\ s1 = at /\ n1 = 1
  BY <1>1, <1>4 DEF Tight, Times
<1> QED
  BY <1>2, <1>3, <1>4 DEF BucketStep

\* Two disjoint sets of goroutines.
LEMMA DisjointCallers ==
  ASSUME NEW C \in SUBSET Calls, NEW E \in SUBSET C, NEW I \in SUBSET C, E \cap I = {}
  PROVE  /\ IsFiniteSet(C) /\ IsFiniteSet(E) /\ IsFiniteSet(I)
         /\ Cardinality(E) \in Nat /\ Cardinality(I) \in Nat /\ Cardinality(C) \in Nat
         /\ Cardinality(I) + Cardinality(E) <= Cardinality(C)
<1>1. IsFiniteSet(C)
  BY RateAssumption, FS_Subset
<1>2. IsFiniteSet(E) /\ IsFiniteSet(I)
  BY <1>1, FS_Subset
<1>3. E \cup I \in SUBSET C
  OBVIOUS
<1>4. IsFiniteSet(E \cup I) /\ Cardinality(E \cup I) <= Cardinality(C)
  BY <1>1, <1>3, FS_Subset
<1>5. /\ Cardinality(E) \in Nat /\ Cardinality(I) \in Nat /\ Cardinality(C) \in Nat
      /\ Cardinality(E \cup I) \in Nat
  BY <1>1, <1>2, <1>4, FS_CardinalityType
<1>6. Cardinality(E \cup I) = Cardinality(E) + Cardinality(I) - Cardinality(E \cap I)
  BY <1>2, FS_Union
<1>7. Cardinality(E \cap I) = 0
  BY FS_EmptySet
<1> QED
  BY <1>1, <1>2, <1>4, <1>5, <1>6, <1>7

\* Early and inside goroutines are different ones.
LEMMA EarlyNotInside ==
  ASSUME RateInv, NEW f, NEW x \in Times
  PROVE  /\ Early(f, x) \in SUBSET Calls /\ Inside(f, x) \in SUBSET Calls
         /\ Early(f, x) \cap Inside(f, x) = {}
<1>1. ASSUME NEW c \in Calls, c \in Early(f, x), c \in Inside(f, x) PROVE FALSE
  <2>1. pending[c] # None /\ pending[c].at < x /\ x <= pending[c].at
    BY <1>1 DEF Early, Inside, Charges
  <2>2. pending[c].at \in Times
    BY <2>1 DEF RateInv, PendingCall
  <2> QED
    BY <2>1, <2>2 DEF Times
<1>2. Early(f, x) \in SUBSET Calls /\ Inside(f, x) \in SUBSET Calls
  BY DEF Early, Inside
<1> QED
  BY <1>1, <1>2

\* The sweep removes expired buckets and leaves the others as they are.
LEMMA SweptView ==
  ASSUME NEW b, NEW at, NEW keys, NEW k
  PROVE  /\ k \in DOMAIN Swept(b, at, keys) => k \in DOMAIN b /\ Swept(b, at, keys)[k] = b[k]
         /\ k \in DOMAIN b /\ k \notin DOMAIN Swept(b, at, keys) => Expired(b[k], at)
BY DEF Swept, Restrict

\* Types of the numbers the bounds are about.
LEMMA ViewTypes ==
  ASSUME RateInv, granted \in [Fingerprints -> [Marks -> Int]],
         NEW f \in Fingerprints, NEW x \in Times
  PROVE  /\ Started(f) \in Times /\ Count(f) \in 0..Limit /\ Granted(f, x) \in Int
         /\ x \in Marks /\ x + Window \in Marks
         /\ Count(f) > 0 <=> <<"key", f>> \in DOMAIN buckets
<1>1. 0 \in Times /\ 0 \in 0..Limit
  BY ClockAssumption, RateAssumption DEF Times
<1>2. <<"key", f>> \in DOMAIN buckets => buckets[<<"key", f>>] \in Bucket
  BY DEF RateInv, TableOK
<1>3. x \in Marks /\ x + Window \in Marks
  BY ClockAssumption, RateAssumption DEF Times, Marks
<1> QED
  BY <1>1, <1>2, <1>3, RateAssumption DEF Started, Count, Granted, Bucket

\* What a call that leaves Allow does to the bucket and the history of a
\* credential.
LEMMA AllowView ==
  ASSUME BudgetInv, RateInv', NEW c \in Calls, Allow(c), NEW f \in Fingerprints
  PROVE  \E charged \in BOOLEAN :
           /\ charged => <<"key", f>> \in pending[c].keys
           /\ BucketStep(pending[c].at, charged, Started(f), Count(f), Started(f)', Count(f)')
           /\ f \notin dropped' => f \notin dropped /\ (Count(f) > 0 => Count(f)' > 0)
           /\ \A t \in Marks : granted'[f][t] = IF charged /\ pending[c].at < t
                                                THEN granted[f][t] + 1 ELSE granted[f][t]
<1> DEFINE k == <<"key", f>>
<1>1. PICK call \in PendingCall : call = pending[c]
  BY DEF Allow, BudgetInv, RateInv
<1>2. call.at \in Times /\ call.keys \in {ks \in SUBSET Keys : IsFiniteSet(ks)}
  BY DEF PendingCall
<1> DEFINE at == call.at
           keys == call.keys
           swept == Swept(buckets, at, keys)
<1>3. /\ \/ buckets' = swept /\ granted' = granted
         \/ buckets' = Charged(swept, keys, at) /\ granted' = Counted(keys, at)
      /\ dropped' = dropped \cup Lost(swept)
  BY <1>1 DEF Allow
<1>4. /\ k \in DOMAIN swept => k \in DOMAIN buckets /\ swept[k] = buckets[k]
      /\ k \in DOMAIN buckets /\ k \notin DOMAIN swept => Expired(buckets[k], at)
  BY SweptView
<1>5. f \notin dropped' => f \notin dropped /\ (k \in DOMAIN buckets => k \in DOMAIN swept)
  BY <1>3 DEF Lost
<1>6. k \in DOMAIN buckets => buckets[k] \in Bucket
  BY DEF BudgetInv, RateInv, TableOK
<1> HIDE DEF swept
<1>7. CASE buckets' = swept /\ granted' = granted
  <2>1. BucketStep(at, FALSE, Started(f), Count(f), Started(f)', Count(f)')
    BY <1>2, <1>4, <1>6, <1>7, RateAssumption
       DEF BucketStep, Started, Count, Expired, Bucket, Times
  <2>2. f \notin dropped' => f \notin dropped /\ (Count(f) > 0 => Count(f)' > 0)
    BY <1>4, <1>5, <1>6, <1>7 DEF Count, Bucket
  <2> QED
    BY <1>1, <1>7, <2>1, <2>2
<1>8. CASE buckets' = Charged(swept, keys, at) /\ granted' = Counted(keys, at) /\ k \notin keys
  <2>1. /\ k \in DOMAIN buckets' <=> k \in DOMAIN swept
        /\ k \in DOMAIN swept => buckets'[k] = swept[k]
    BY <1>8 DEF Charged
  <2>2. BucketStep(at, FALSE, Started(f), Count(f), Started(f)', Count(f)')
    BY <1>2, <1>4, <1>6, <2>1, RateAssumption
       DEF BucketStep, Started, Count, Expired, Bucket, Times
  <2>3. f \notin dropped' => f \notin dropped /\ (Count(f) > 0 => Count(f)' > 0)
    BY <1>4, <1>5, <1>6, <2>1 DEF Count, Bucket
  <2>4. \A t \in Marks : granted'[f][t] = granted[f][t]
    BY <1>8 DEF Counted
  <2> QED
    BY <1>1, <2>2, <2>3, <2>4
<1>9. CASE buckets' = Charged(swept, keys, at) /\ granted' = Counted(keys, at) /\ k \in keys
  <2>1. k \in DOMAIN buckets' /\ buckets'[k] = [Current(swept, k, at) EXCEPT !.count = @ + 1]
    BY <1>9 DEF Charged
  <2>4. BucketStep(at, TRUE, Started(f), Count(f), Started(f)', Count(f)')
    <3>1. CASE k \in DOMAIN swept /\ ~Expired(swept[k], at)
      <4>1. buckets'[k].started = buckets[k].started /\ buckets'[k].count = buckets[k].count + 1
        BY <1>4, <1>6, <2>1, <3>1 DEF Current, Bucket
      <4> QED
        BY <1>2, <1>4, <1>6, <2>1, <3>1, <4>1, RateAssumption
           DEF BucketStep, Started, Count, Expired, Bucket, Times
    <3>2. CASE ~(k \in DOMAIN swept /\ ~Expired(swept[k], at))
      <4>1. buckets'[k].started = at /\ buckets'[k].count = 1
        BY <2>1, <3>2 DEF Current
      <4> QED
        BY <1>2, <1>4, <1>6, <2>1, <3>2, <4>1, RateAssumption
           DEF BucketStep, Started, Count, Expired, Bucket, Times
    <3> QED
      BY <3>1, <3>2
  <2>5. Count(f)' > 0
    <3>1. buckets'[k] \in Bucket
      BY <2>1 DEF RateInv, TableOK
    <3> QED
      BY <2>1, <3>1 DEF Count, Bucket
  <2>6. \A t \in Marks : granted'[f][t] = IF at < t THEN granted[f][t] + 1 ELSE granted[f][t]
    BY <1>9 DEF Counted
  <2> QED
    BY <1>1, <1>5, <1>9, <2>4, <2>5, <2>6
<1> QED
  BY <1>3, <1>7, <1>8, <1>9

\* What a call that leaves Allow does to the goroutines on their way.
LEMMA AllowCallers ==
  ASSUME BudgetInv, RateInv', NEW c \in Calls, Allow(c), NEW f \in Fingerprints, NEW x \in Times,
         NEW mine \in BOOLEAN, mine <=> <<"key", f>> \in pending[c].keys
  PROVE  /\ Callers \in Nat /\ pending[c].at \in Times /\ pending[c].at <= now
         /\ Cardinality(Early(f, x)) \in Nat /\ Cardinality(Inside(f, x)) \in Nat
         /\ Cardinality(Early(f, x)') \in Nat /\ Cardinality(Inside(f, x)') \in Nat
         /\ Cardinality(Early(f, x)) <= Callers
         /\ Cardinality(Inside(f, x)') + Cardinality(Early(f, x)') <= Callers - 1
         /\ Cardinality(Early(f, x)') = IF mine /\ pending[c].at < x
                                        THEN Cardinality(Early(f, x)) - 1
                                        ELSE Cardinality(Early(f, x))
         /\ Cardinality(Inside(f, x)') = IF mine /\ x <= pending[c].at /\ pending[c].at < x + Window
                                         THEN Cardinality(Inside(f, x)) - 1
                                         ELSE Cardinality(Inside(f, x))
<1> DEFINE E == Early(f, x)
           I == Inside(f, x)
           C == Calls \ {c}
<1>1. pending[c] # None /\ pending' = [pending EXCEPT ![c] = None]
  BY DEF Allow
<1>2. pending[c].at \in Times /\ pending[c].at <= now
  BY <1>1 DEF BudgetInv, RateInv, PendingCall
<1>3. pending'[c] = None /\ \A d \in Calls : d # c => pending'[d] = pending[d]
  BY <1>1 DEF BudgetInv, RateInv
<1>4. E' = E \ {c} /\ I' = I \ {c}
  <2>1. \A d \in Calls : d # c => (Charges(d, f)' <=> Charges(d, f))
    BY <1>3 DEF Charges
  <2>2. ~Charges(c, f)'
    BY <1>3 DEF Charges
  <2> QED
    BY <1>3, <2>1, <2>2 DEF Early, Inside
<1>5. /\ c \in E <=> mine /\ pending[c].at < x
      /\ c \in I <=> mine /\ x <= pending[c].at /\ pending[c].at < x + Window
  BY <1>1 DEF Early, Inside, Charges
<1>6. E \in SUBSET Calls /\ I \in SUBSET Calls /\ E \cap I = {}
  BY EarlyNotInside DEF BudgetInv
<1> HIDE DEF E, I
<1>7. /\ IsFiniteSet(Calls) /\ IsFiniteSet(E) /\ IsFiniteSet(I)
      /\ Cardinality(E) \in Nat /\ Cardinality(I) \in Nat /\ Callers \in Nat
      /\ Cardinality(I) + Cardinality(E) <= Callers
  BY <1>6, DisjointCallers DEF Callers
<1>8. C \in SUBSET Calls /\ E' \in SUBSET C /\ I' \in SUBSET C /\ E' \cap I' = {}
  BY <1>4, <1>6
<1>9. Cardinality(C) = Callers - 1
  BY <1>7, FS_RemoveElement DEF Callers
<1> HIDE DEF C
<1>10. /\ Cardinality(E') \in Nat /\ Cardinality(I') \in Nat
       /\ Cardinality(I') + Cardinality(E') <= Callers - 1
  BY <1>8, <1>9, DisjointCallers
<1>11. /\ Cardinality(E') = IF c \in E THEN Cardinality(E) - 1 ELSE Cardinality(E)
       /\ Cardinality(I') = IF c \in I THEN Cardinality(I) - 1 ELSE Cardinality(I)
  BY <1>4, <1>7, FS_RemoveElement
<1>12. Cardinality(E) <= Callers
  BY <1>7
<1> QED
  BY <1>2, <1>5, <1>7, <1>10, <1>11, <1>12 DEF E, I

\* A call that leaves Allow keeps the budget of every credential and window.
LEMMA AllowWithin ==
  ASSUME BudgetInv, RateInv', granted' \in [Fingerprints -> [Marks -> Int]],
         NEW c \in Calls, Allow(c), NEW f \in Fingerprints, NEW x \in Times
  PROVE  Within(f, x)'
<1>1. PICK mine \in BOOLEAN : mine <=> <<"key", f>> \in pending[c].keys
  OBVIOUS
<1>2. PICK charged \in BOOLEAN :
           /\ charged => mine
           /\ BucketStep(pending[c].at, charged, Started(f), Count(f), Started(f)', Count(f)')
           /\ f \notin dropped' => f \notin dropped /\ (Count(f) > 0 => Count(f)' > 0)
           /\ \A t \in Marks : granted'[f][t] = IF charged /\ pending[c].at < t
                                                THEN granted[f][t] + 1 ELSE granted[f][t]
  BY <1>1, AllowView
<1> DEFINE at == pending[c].at
           g == Granted(f, x)
           g1 == IF charged /\ x <= at /\ at < x + Window THEN g + 1 ELSE g
<1>3. at \in Times /\ at <= now /\ now \in Times /\ now' = now
  BY <1>1, AllowCallers DEF Allow, BudgetInv, RateInv
<1>4. /\ Started(f) \in Times /\ Count(f) \in 0..Limit /\ Granted(f, x) \in Int
      /\ x \in Marks /\ x + Window \in Marks
  BY ViewTypes DEF BudgetInv
<1>5. Started(f)' \in Times /\ Count(f)' \in 0..Limit
  <2>1. 0 \in Times /\ 0 \in 0..Limit
    BY ClockAssumption, RateAssumption DEF Times
  <2>2. <<"key", f>> \in DOMAIN buckets' => buckets'[<<"key", f>>] \in Bucket
    BY DEF RateInv, TableOK
  <2> QED
    BY <2>1, <2>2, RateAssumption DEF Started, Count, Bucket
<1>6. Granted(f, x)' = g1
  <2>1. granted[f][x] \in Int /\ granted[f][x + Window] \in Int
    BY <1>4 DEF BudgetInv
  <2> QED
    BY <1>2, <1>3, <1>4, <2>1, RateAssumption DEF Granted, Times
<1>7. Within(f, x)
  BY DEF BudgetInv
<1> HIDE DEF at, g, g1
<1>8. now' < x => Granted(f, x)' = 0
  BY <1>3, <1>6, <1>7 DEF Within, g1, g, Times
<1>9. AllowStep(x, now, at, mine, charged,
                g, Cardinality(Inside(f, x)), Cardinality(Early(f, x)), Started(f), Count(f),
                g1, Cardinality(Inside(f, x)'), Cardinality(Early(f, x)'), Started(f)', Count(f)')
  <2>1. g \in Int /\ g1 = IF charged /\ x <= at /\ at < x + Window THEN g + 1 ELSE g
    BY <1>4 DEF g, g1
  <2>2. at = pending[c].at
    BY DEF at
  <2> QED
    BY <1>1, <1>2, <1>3, <1>4, <1>5, <2>1, <2>2, AllowCallers DEF AllowStep
<1>10. Loose(x, now, g1, Cardinality(Inside(f, x)'), Room(Cardinality(Early(f, x)')),
             Started(f)', Count(f)')
  BY <1>7, <1>9, LooseAllow DEF Within, g
<1>11. f \notin dropped' => Tight(x, now, g1, Cardinality(Inside(f, x)'), Started(f)', Count(f)')
  BY <1>2, <1>7, <1>9, TightAllow DEF Within, g
<1> QED
  BY <1>3, <1>6, <1>8, <1>10, <1>11 DEF Within

\* Every step keeps the budgets.
LEMMA BudgetInductive == BudgetInv /\ [RateNext]_rateVars => BudgetInv'
<1> SUFFICES ASSUME BudgetInv, [RateNext]_rateVars PROVE BudgetInv'
  OBVIOUS
<1>1. RateInv'
  BY RateInductive DEF BudgetInv
<1>2. ASSUME NEW c \in Calls, NEW client \in Clients, BeginCall(c, client[1], client[2])
      PROVE  BudgetInv'
  <2>1. /\ pending[c] = None /\ pending'[c].at = now
        /\ \A d \in Calls : d # c => pending'[d] = pending[d]
        /\ now' = now /\ buckets' = buckets /\ granted' = granted /\ dropped' = dropped
    BY <1>2 DEF BeginCall, BudgetInv, RateInv
  <2>2. now \in Times
    BY DEF BudgetInv, RateInv
  <2>3. \A d \in Calls : pending'[d] # None => pending'[d].at <= now'
    BY <2>1, <2>2 DEF BudgetInv, Times
  <2>4. ASSUME NEW f \in Fingerprints, NEW x \in Times PROVE Within(f, x)'
    <3>1. /\ Started(f)' = Started(f) /\ Count(f)' = Count(f)
          /\ Granted(f, x)' = Granted(f, x)
      BY <2>1 DEF Started, Count, Granted
    <3>2. Within(f, x)
      BY DEF BudgetInv
    <3>3. CASE now < x
      BY <2>1, <3>1, <3>2, <3>3 DEF Within, Loose, Tight
    <3>4. CASE x <= now
      <4>1. \A d \in Calls : d # c => (Charges(d, f)' <=> Charges(d, f))
        BY <2>1 DEF Charges
      <4>2. Early(f, x)' = Early(f, x)
        <5>1. c \notin Early(f, x) /\ c \notin Early(f, x)'
          BY <2>1, <2>2, <3>4 DEF Early, Charges, Times
        <5> QED
          BY <2>1, <4>1, <5>1 DEF Early
      <4>3. CASE now < x + Window
        BY <2>1, <2>2, <3>1, <3>2, <4>2, <4>3, RateAssumption DEF Within, Loose, Tight, Times
      <4>4. CASE now >= x + Window
        <5>1. c \notin Inside(f, x) /\ c \notin Inside(f, x)'
          BY <2>1, <2>2, <4>4, RateAssumption DEF Inside, Charges, Times
        <5>2. Inside(f, x)' = Inside(f, x)
          BY <2>1, <4>1, <5>1 DEF Inside
        <5> QED
          BY <2>1, <3>1, <3>2, <4>2, <5>2 DEF Within
      <4> QED
        BY <2>2, <4>3, <4>4, RateAssumption DEF Times
    <3> QED
      BY <2>2, <3>3, <3>4 DEF Times
  <2> QED
    BY <1>1, <2>1, <2>3, <2>4 DEF BudgetInv
<1>3. ASSUME NEW c \in Calls, Allow(c) PROVE BudgetInv'
  <2>1. granted' \in [Fingerprints -> [Marks -> Int]]
    <3>1. granted' = granted \/ granted' = Counted(pending[c].keys, pending[c].at)
      BY <1>3 DEF Allow
    <3>2. ASSUME NEW keys, NEW at PROVE Counted(keys, at) \in [Fingerprints -> [Marks -> Int]]
      BY DEF Counted, BudgetInv
    <3> QED
      BY <3>1, <3>2 DEF BudgetInv
  <2>2. \A d \in Calls : pending'[d] # None => pending'[d].at <= now'
    BY <1>3 DEF Allow, BudgetInv, RateInv
  <2> QED
    BY <1>1, <1>3, <2>1, <2>2, AllowWithin DEF BudgetInv
<1>4. CASE RateTick
  <2>1. /\ now \in Times /\ now' = now + 1 /\ buckets' = buckets /\ pending' = pending
        /\ granted' = granted /\ dropped' = dropped
    BY <1>4 DEF RateTick, Tick, BudgetInv, RateInv
  <2>2. \A d \in Calls : pending'[d] # None => pending'[d].at <= now'
    BY <2>1 DEF BudgetInv, RateInv, PendingCall, Times
  <2>3. ASSUME NEW f \in Fingerprints, NEW x \in Times PROVE Within(f, x)'
    <3>1. /\ Started(f)' = Started(f) /\ Count(f)' = Count(f)
          /\ Granted(f, x)' = Granted(f, x)
          /\ Early(f, x)' = Early(f, x) /\ Inside(f, x)' = Inside(f, x)
      BY <2>1 DEF Started, Count, Granted, Early, Inside, Charges
    <3>2. Within(f, x)
      BY DEF BudgetInv
    <3> QED
      BY <2>1, <3>1, <3>2, RateAssumption DEF Within, Loose, Tight, Times
  <2> QED
    BY <1>1, <2>1, <2>2, <2>3 DEF BudgetInv
<1>5. CASE UNCHANGED rateVars
  BY <1>1, <1>5 DEF rateVars, BudgetInv, Within, Granted, Early, Inside, Charges, Started, Count
<1> QED
  BY <1>2, <1>3, <1>4, <1>5 DEF RateNext

\* A credential gets no more reviews out of any span of a window than the
\* budget, whatever the delays between stamp and mutex, the order of the calls
\* and the other clients of the table; a sweep can cost one more bucket for
\* each late goroutine, and nothing worse.
THEOREM ReviewsBudgeted == RateSpec => []ReviewBudget
<1>1. RateInit => BudgetInv
  <2> SUFFICES ASSUME RateInit PROVE BudgetInv
    OBVIOUS
  <2>1. RateInv
    BY RateInitial
  <2>2. granted \in [Fingerprints -> [Marks -> Int]] /\ \A c \in Calls : pending[c] = None
    BY DEF RateInit
  <2>3. ASSUME NEW f \in Fingerprints, NEW x \in Times PROVE Granted(f, x) = 0
    BY <2>1, <2>2, ViewTypes DEF RateInit, Granted
  <2> QED
    BY <2>1, <2>2, <2>3 DEF BudgetInv, Within, Loose, Tight
<1>2. BudgetInv => ReviewBudget
  <2> SUFFICES ASSUME BudgetInv, NEW f \in Fingerprints, NEW x \in Times
               PROVE  Granted(f, x) <= IF f \in dropped
                                       THEN (Cardinality(Calls) + 1) * Limit - 1
                                       ELSE 2 * Limit - 1 + (Cardinality(Calls) - 1)
    BY DEF ReviewBudget
  <2>1. Within(f, x) /\ Granted(f, x) \in Int /\ Count(f) \in 0..Limit
    BY ViewTypes DEF BudgetInv
  <2>2. Limit \in Nat \ {0} /\ Callers \in Nat /\ Callers >= 1
    BY RateAssumption, FS_CardinalityType, FS_EmptySet DEF Callers
  <2>3. /\ Cardinality(Inside(f, x)) \in Nat /\ Cardinality(Early(f, x)) \in Nat
        /\ Cardinality(Early(f, x)) <= Callers
    <3>1. /\ Early(f, x) \in SUBSET Calls /\ Inside(f, x) \in SUBSET Calls
          /\ Early(f, x) \cap Inside(f, x) = {} /\ Calls \in SUBSET Calls
      BY EarlyNotInside DEF BudgetInv
    <3>2. /\ Cardinality(Inside(f, x)) \in Nat /\ Cardinality(Early(f, x)) \in Nat
          /\ Cardinality(Inside(f, x)) + Cardinality(Early(f, x)) <= Cardinality(Calls)
      BY <3>1, DisjointCallers
    <3> QED
      BY <2>2, <3>2 DEF Callers
  <2>4. PICK room \in Nat, most \in Nat :
          /\ room = Room(Cardinality(Early(f, x))) /\ most = Callers * Limit
          /\ room + Callers <= most /\ (Callers + 1) * Limit - 1 = most + Limit - 1
    <3>1. (Callers + 1) * Limit = Callers * Limit + Limit /\ Callers * Limit \in Nat
      BY <2>2
    <3>2. 0 <= Callers
      BY <2>2
    <3>3. /\ Room(Cardinality(Early(f, x))) \in Nat
          /\ Room(Cardinality(Early(f, x))) <= Room(0)
          /\ Room(0) + Callers = Callers * Limit
      BY <2>2, <2>3, RoomFacts
    <3>4. Room(0) \in Nat
      BY <2>2, <3>2, RoomFacts
    <3> QED
      BY <2>2, <3>1, <3>3, <3>4
  <2>5. CASE f \in dropped
    BY <2>1, <2>2, <2>3, <2>4, <2>5 DEF Within, Loose, Callers
  <2>6. CASE f \notin dropped
    BY <2>1, <2>2, <2>3, <2>6 DEF Within, Tight, Callers
  <2> QED
    BY <2>5, <2>6
<1> QED
  BY <1>1, <1>2, BudgetInductive, PTL DEF RateSpec
=============================================================================
