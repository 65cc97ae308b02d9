--------------------------- MODULE EventContract ---------------------------
(***************************************************************************)
(* What an event says was done and what came of it: DeriveEventContract    *)
(* (types.go) fills the two fields of new events, migrateEventContractV2   *)
(* (store.go) those of the rows older versions left, in SQL.               *)
(***************************************************************************)
EXTENDS Integers

Bypasses == {"disabled", "route_bypass", "protocol_unreviewed_allow", "ua_bypass",
             "websocket_unreviewed_allow"}
BodyFailures == {"body_read_fail_open", "unsupported_content_encoding_fail_open",
                 "content_decode_fail_open"}
FailsOpen == {"parse_bypass", "empty_bypass", "oversize_bypass", "ai_uncertain",
              "ai_low_confidence", "ai_unavailable", "ai_rate_limited", "ai_timeout",
              "ai_invalid", "ai_bulkhead_fail_open", "storage_fail_open"}
Decided == {"risk_hash_match", "trusted_hash_match", "ai_reject", "ai_pass"}
Reasons == Bypasses \cup BodyFailures \cup FailsOpen \cup Decided

DeriveEventContract(reason, blocked) ==
  CASE blocked -> <<"audit", "block">>
    [] ~blocked /\ reason \in Bypasses -> <<"bypass", "allow">>
    [] ~blocked /\ reason \in BodyFailures -> <<"bypass", "fail_open">>
    [] ~blocked /\ reason \in FailsOpen -> <<"audit", "fail_open">>
    [] OTHER -> <<"audit", "allow">>

\* The reasons the two CASE expressions of the migration list.
BypassList == {"disabled", "route_bypass", "protocol_unreviewed_allow", "ua_bypass",
               "websocket_unreviewed_allow", "body_read_fail_open",
               "unsupported_content_encoding_fail_open", "content_decode_fail_open"}
FailOpenList == {"parse_bypass", "empty_bypass", "oversize_bypass", "ai_uncertain",
                 "ai_low_confidence", "ai_unavailable", "ai_rate_limited", "ai_timeout",
                 "ai_invalid", "ai_bulkhead_fail_open", "storage_fail_open",
                 "body_read_fail_open", "unsupported_content_encoding_fail_open",
                 "content_decode_fail_open"}

\* Mutant: the outcome of a bypass is taken to be an allowance.
migrateBypassAllows(reason, decision) ==
  <<IF reason \in BypassList THEN "bypass" ELSE "audit",
    IF decision = "block" THEN "block"
    ELSE IF reason \in FailOpenList \ BypassList THEN "fail_open" ELSE "allow">>

migrateEventContractV2(reason, decision) ==
  <<IF reason \in BypassList THEN "bypass" ELSE "audit",
    IF decision = "block" THEN "block"
    ELSE IF reason \in FailOpenList THEN "fail_open" ELSE "allow">>
=============================================================================
