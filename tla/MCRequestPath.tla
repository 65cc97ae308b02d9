---------------------------- MODULE MCRequestPath ----------------------------
(***************************************************************************)
(* Two requests for one slot of the AI gate and one place in the event     *)
(* queue, under reloads that disable auditing, move the ruled field        *)
(* between the libraries and take the AI endpoint away.                    *)
(***************************************************************************)
EXTENDS RequestPath

State(enabled, kind, reviewer) == [enabled |-> enabled, kind |-> kind, reviewer |-> reviewer]

MCGenerations == {State(TRUE, "risk", TRUE), State(TRUE, "trusted", FALSE),
                  State(FALSE, "none", TRUE)}
=============================================================================
