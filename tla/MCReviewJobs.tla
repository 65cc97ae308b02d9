---------------------------- MODULE MCReviewJobs ----------------------------
(***************************************************************************)
(* Two fields: one too long to be reviewed whole, so that only its row     *)
(* keeps the field, and one an older version left queued without a sample. *)
(* Two attempts instead of three, a queue of one job and two faults are    *)
(* enough for a crash during the recovery from a failed store call.        *)
(***************************************************************************)
EXTENDS ReviewJobs
=============================================================================
