------------------------------ MODULE MCLimits ------------------------------
(***************************************************************************)
(* What the program limits, in three parts that share at most the clock: a *)
(* behaviour exercises the concurrency gate of the AI reviews, the review  *)
(* limiter, or the login limiter and the sessions behind it, the others    *)
(* resting in an initial state.                                            *)
(*                                                                         *)
(* The gate has four requests and a limit an administrator moves between   *)
(* one and three slots (0 is an argument SetLimit must ignore): it is      *)
(* full, shrinks below its use, grows while requests wait, and a woken     *)
(* request can lose the freed slot to another one.                         *)
(***************************************************************************)
EXTENDS Bulkhead, RateLimit, AdminAuth, TLC

CONSTANTS f1, a1,
          LoginTime    \* bound: the clock of the login behaviours

\* A credential with and without an address, and a client with neither: three
\* keys for a table of MaxBuckets = 2.
MCClients == {<<f1, a1>>, <<f1, None>>, <<None, None>>}

VARIABLE focus

\* The gate starts with any limit in its own behaviours and the default elsewhere.
MCInit == /\ focus \in {"gate", "review", "login"} /\ Init /\ RateInit /\ AuthInit
          /\ focus # "gate" => limit = DefaultConcurrency

GateNext ==
  /\ focus = "gate" /\ Next
  /\ UNCHANGED <<focus, rateVars, authVars>>

ReviewNext ==
  /\ focus = "review" /\ RateNext
  /\ UNCHANGED <<focus, vars, attempts, sessions, handler, issued, ended, undeleted>>

LoginNext == /\ focus = "login" /\ AuthNext /\ now' <= LoginTime
             /\ UNCHANGED <<focus, vars, buckets, pending, granted, dropped>>

\* Fairness is Bulkhead's; the limiters need none.
MCSpec == /\ MCInit /\ [][GateNext \/ ReviewNext \/ LoginNext]_<<focus, vars, rateVars, authVars>>
          /\ Fairness

\* The goroutines of either limiter are interchangeable.  The temporal property
\* is about the gate, in whose behaviours none of them moves.
Symmetry == Permutations(Calls) \cup Permutations(Handlers)
=============================================================================
