------------------------------ MODULE AuditGate ------------------------------
(***************************************************************************)
(* What the data plane promises of every request, whatever its auditor     *)
(* does: it is handed to the upstream or refused, once and for all; it is  *)
(* refused only with the blocked event and its evidence committed, and a   *)
(* request with committed evidence is never handed on.  Any failure on the *)
(* way leaves the request free to be forwarded (fail open).                *)
(***************************************************************************)
CONSTANT Requests

VARIABLES fate,      \* fate[r]: "pending", "forwarded", "blocked" or "aborted"
          evidence   \* requests with a committed blocked event

vars == <<fate, evidence>>

Init == fate = [r \in Requests |-> "pending"] /\ evidence = {}

Convict(r) == /\ fate[r] = "pending"
              /\ evidence' = evidence \cup {r}
              /\ UNCHANGED fate

Refuse(r) == /\ fate[r] = "pending" /\ r \in evidence
             /\ fate' = [fate EXCEPT ![r] = "blocked"]
             /\ UNCHANGED evidence

Pass(r) == /\ fate[r] = "pending" /\ r \notin evidence
           /\ fate' = [fate EXCEPT ![r] = "forwarded"]
           /\ UNCHANGED evidence

\* The handler died before it had done either.
Abort(r) == /\ fate[r] = "pending" /\ r \notin evidence
            /\ fate' = [fate EXCEPT ![r] = "aborted"]
            /\ UNCHANGED evidence

Next == \E r \in Requests : Convict(r) \/ Refuse(r) \/ Pass(r) \/ Abort(r)

Spec == Init /\ [][Next]_vars
=============================================================================
