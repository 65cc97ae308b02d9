-------------------------------- MODULE Clock --------------------------------
(***************************************************************************)
(* time.Now() as the two limiters read it.  The goroutines of one process  *)
(* share the clock; between reading it and entering a critical section a   *)
(* goroutine may be delayed, so the components keep the value they read.   *)
(***************************************************************************)
EXTENDS Integers

CONSTANT MaxTime     \* bound: the clock stops here

ASSUME ClockAssumption == MaxTime \in Nat

VARIABLE now

Times == 0..MaxTime

Tick == now < MaxTime /\ now' = now + 1
=============================================================================
