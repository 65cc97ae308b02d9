------------------------------- MODULE MCReload -------------------------------
(***************************************************************************)
(* Two administrators and a promotion: two writes of the same table or of  *)
(* different ones, each before, during or after the reloads of the others. *)
(***************************************************************************)
EXTENDS Reload
=============================================================================
