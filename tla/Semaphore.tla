------------------------------ MODULE Semaphore ------------------------------
(***************************************************************************)
(* What the AI-review gate promises its callers: a counting semaphore      *)
(* whose limit may be changed while it is in use.  There is no queue, no   *)
(* wake-up channel and no counter here: a request that has asked either    *)
(* gets a slot while fewer than `limit' slots are taken, or gives up.      *)
(* Bulkhead.tla (internal/audit/bulkhead.go) implements this.              *)
(***************************************************************************)
EXTENDS Naturals, FiniteSets

CONSTANTS Requests,   \* the requests that may ask for a slot
          Limits      \* the limits an administrator may configure

VARIABLES limit,      \* the configured number of slots
          phase       \* phase[r]: "out", "asking" or "in"

vars == <<limit, phase>>

Inside == {r \in Requests : phase[r] = "in"}

Init == /\ limit \in Limits
        /\ phase = [r \in Requests |-> "out"]

Ask(r) == /\ phase[r] = "out"
          /\ phase' = [phase EXCEPT ![r] = "asking"]
          /\ UNCHANGED limit

\* A slot is granted only while fewer than `limit' requests are inside.
Grant(r) == /\ phase[r] = "asking"
            /\ Cardinality(Inside) < limit
            /\ phase' = [phase EXCEPT ![r] = "in"]
            /\ UNCHANGED limit

GiveUp(r) == /\ phase[r] = "asking"
             /\ phase' = [phase EXCEPT ![r] = "out"]
             /\ UNCHANGED limit

Leave(r) == /\ phase[r] = "in"
            /\ phase' = [phase EXCEPT ![r] = "out"]
            /\ UNCHANGED limit

\* The limit may shrink below the number of requests inside: nobody is
\* evicted, but nobody enters until enough have left.
Resize(l) == /\ limit' = l
             /\ UNCHANGED phase

Next == \/ \E r \in Requests : Ask(r) \/ Grant(r) \/ GiveUp(r) \/ Leave(r)
        \/ \E l \in Limits : Resize(l)

SafetySpec == Init /\ [][Next]_vars

\* A free slot does not stay free for ever while some request asks for one.
Spec == SafetySpec /\ WF_vars(\E r \in Requests : Grant(r))
=============================================================================
