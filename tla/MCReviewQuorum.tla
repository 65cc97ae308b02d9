--------------------------- MODULE MCReviewQuorum ---------------------------
(***************************************************************************)
(* The three reviewers asyncRuntime requires; confidences just below and   *)
(* at the threshold, and one outside the valid range.                      *)
(***************************************************************************)
EXTENDS ReviewQuorum
=============================================================================
