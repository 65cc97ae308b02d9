------------------------------ MODULE RateLimit ------------------------------
(***************************************************************************)
(* FixedWindowLimiter of internal/audit/rate_limit.go, which bounds the AI *)
(* reviews charged to one credential and to one client address.  Evaluate  *)
(* reads the clock before Allow takes the mutex (engine.go), so calls      *)
(* enter the critical section in another order than their stamps.          *)
(***************************************************************************)
EXTENDS Clock, FiniteSets, Functions

CONSTANTS Calls,           \* goroutines in Evaluate
          Fingerprints,    \* credential fingerprints
          Addresses,       \* client addresses
          None,            \* the empty string: no credential, no address
          Clients,         \* pairs of a credential and an address, or None
          Limit,           \* reviews per key and window
          Window,          \* length of a window
          MaxBuckets,      \* maxRateLimitBuckets
          MaxLag           \* bound on the delay between the stamp and the mutex

ASSUME RateAssumption ==
  /\ Limit \in Nat \ {0} /\ Window \in Nat \ {0} /\ MaxBuckets \in Nat /\ MaxLag \in Nat
  /\ Clients \subseteq (Fingerprints \cup {None}) \X (Addresses \cup {None})
  /\ None \notin Fingerprints \cup Addresses
  /\ IsFiniteSet(Calls) /\ Calls # {}

Keys == ({"key"} \X Fingerprints) \cup ({"ip"} \X Addresses) \cup {<<"anonymous">>}

VARIABLES buckets,   \* limiter.buckets: key -> [started, count]
          pending,   \* the call in flight of a goroutine, or None
          granted,   \* history: reviews granted to a credential before a time
          dropped    \* history: the credentials that lost a bucket to a sweep

rateVars == <<now, buckets, pending, granted, dropped>>

\* The times that end a window, and those that start one.
Marks == 0..(MaxTime + Window)

\* The keys one call is charged to.
KeysOf(fingerprint, ip) ==
  LET named == (IF fingerprint = None THEN {} ELSE {<<"key", fingerprint>>})
               \cup (IF ip = None THEN {} ELSE {<<"ip", ip>>})
  IN IF named = {} THEN {<<"anonymous">>} ELSE named

RateInit == /\ now = 0
            /\ buckets = <<>>
            /\ pending = [c \in Calls |-> None]
            /\ granted = [f \in Fingerprints |-> [t \in Marks |-> 0]]
            /\ dropped = {}

\* Evaluate reads the clock for its call of Allow.
BeginCall(c, fingerprint, ip) ==
  /\ pending[c] = None
  /\ pending' = [pending EXCEPT ![c] = [at |-> now, keys |-> KeysOf(fingerprint, ip)]]
  /\ UNCHANGED <<now, buckets, granted, dropped>>

Expired(b, at) == at - b.started >= Window

\* The sweep of expired buckets, made only when the table may overflow.
Swept(b, at, keys) ==
  IF Cardinality(DOMAIN b) + Cardinality(keys) > MaxBuckets
  THEN Restrict(b, {k \in DOMAIN b : ~Expired(b[k], at)})
  ELSE b

\* The bucket a key is judged by: a missing or expired one starts afresh.
Current(b, k, at) == IF k \in DOMAIN b /\ ~Expired(b[k], at)
                     THEN b[k] ELSE [started |-> at, count |-> 0]

Overflows(b, keys) ==
  Cardinality(DOMAIN b) + Cardinality(keys \ DOMAIN b) > MaxBuckets

Exhausted(b, keys, at) == \E k \in keys : Current(b, k, at).count >= Limit

Charged(b, keys, at) ==
  [k \in DOMAIN b \cup keys |->
     IF k \in keys THEN [Current(b, k, at) EXCEPT !.count = @ + 1] ELSE b[k]]

\* The histories: one more review of the credential before every time after
\* the stamp, and the credentials whose bucket the sweep removed.
Counted(keys, at) ==
  [f \in Fingerprints |->
     [t \in Marks |-> IF <<"key", f>> \in keys /\ at < t
                      THEN granted[f][t] + 1 ELSE granted[f][t]]]
Lost(swept) == {f \in Fingerprints : <<"key", f>> \in DOMAIN buckets \ DOMAIN swept}

\* Mutant: the call that opens a window is not counted in it.
AllowUncounted(c) ==
  /\ pending[c] # None
  /\ LET at == pending[c].at
         keys == pending[c].keys
         swept == Swept(buckets, at, keys)
     IN IF Overflows(swept, keys) \/ Exhausted(swept, keys, at)
        THEN buckets' = swept /\ UNCHANGED granted
        ELSE /\ buckets' = [k \in DOMAIN swept \cup keys |->
                              IF k \in keys /\ k \in DOMAIN swept /\ ~Expired(swept[k], at)
                              THEN [swept[k] EXCEPT !.count = @ + 1]
                              ELSE IF k \in keys THEN [started |-> at, count |-> 0]
                              ELSE swept[k]]
             /\ granted' = Counted(keys, at)
  /\ pending' = [pending EXCEPT ![c] = None]
  /\ dropped' = dropped \cup Lost(Swept(buckets, pending[c].at, pending[c].keys))
  /\ UNCHANGED now

\* The critical section of Allow.
Allow(c) ==
  /\ pending[c] # None
  /\ LET at == pending[c].at
         keys == pending[c].keys
         swept == Swept(buckets, at, keys)
     IN IF Overflows(swept, keys) \/ Exhausted(swept, keys, at)
        THEN buckets' = swept /\ UNCHANGED granted
        ELSE /\ buckets' = Charged(swept, keys, at)
             /\ granted' = Counted(keys, at)
  /\ pending' = [pending EXCEPT ![c] = None]
  /\ dropped' = dropped \cup Lost(Swept(buckets, pending[c].at, pending[c].keys))
  /\ UNCHANGED now

RateTick == /\ \A c \in Calls : pending[c] # None => now - pending[c].at < MaxLag
            /\ Tick
            /\ UNCHANGED <<buckets, pending, granted, dropped>>

RateNext == \/ \E c \in Calls :
                 \/ \E client \in Clients : BeginCall(c, client[1], client[2])
                 \/ Allow(c)
            \/ RateTick

RateSpec == RateInit /\ [][RateNext]_rateVars
-----------------------------------------------------------------------------
RateTypeOK ==
  /\ now \in Times
  /\ DOMAIN buckets \subseteq Keys
  /\ \A k \in DOMAIN buckets : buckets[k].started \in Times /\ buckets[k].count \in 1..Limit
  /\ Cardinality(DOMAIN buckets) <= MaxBuckets

\* The reviews granted to a credential with stamps in the window from x on.
Granted(f, x) == granted[f][x + Window] - granted[f][x]

\* What a fixed window really bounds.  A span as long as the window meets the
\* end of one bucket and most of the next, 2 * Limit - 1 grants, and each
\* other goroutine that took the mutex late may be counted in a bucket
\* opened after its stamp.  Once the sweep at capacity has removed a bucket,
\* a late goroutine opens the next one in the past; it expires early, so
\* that each of them adds a bucket to the span.
ReviewBudget ==
  \A f \in Fingerprints, x \in Times :
    Granted(f, x) <= IF f \in dropped
                     THEN (Cardinality(Calls) + 1) * Limit - 1
                     ELSE 2 * Limit - 1 + (Cardinality(Calls) - 1)
=============================================================================
