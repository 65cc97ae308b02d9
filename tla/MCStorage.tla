------------------------------ MODULE MCStorage ------------------------------
(***************************************************************************)
(* The rule tables and the evidence tables of one database.  No statement  *)
(* touches both once the store is open, so a behaviour exercises one and   *)
(* leaves the other in its initial state: "edit", the writers of the risk  *)
(* rules of an old database, with key traces; "load", the writers of both  *)
(* rule tables against the load of the snapshot; "retain", evidence, its   *)
(* cleanup and crashes.                                                    *)
(***************************************************************************)
EXTENDS RuleLibrary, Retention

CONSTANTS h1, h2, c1, c2

\* SHA-256 without collisions.
MCDigest == (c1 :> h1) @@ (c2 :> h2)

VARIABLE focus

MCInit == /\ RuleInit /\ RetentionInit
          /\ focus \in {"edit", "load", "retain"}
          /\ rules["trusted"] = <<>>
          /\ focus # "edit" => rules["risk"] = <<>>

EditNext == /\ focus = "edit" /\ RuleNext
            /\ rules'["trusted"] = rules["trusted"] /\ loading' = Blank
            /\ UNCHANGED <<focus, retentionVars>>

\* Two ids suffice where no id outlives its row.
LoadNext == /\ focus = "load" /\ RuleNext
            /\ editing' = editing
            /\ \A k \in Kinds : nextId'[k] <= MaxId
            /\ \A k \in Kinds, i \in 1..MaxId :
                 i \in DOMAIN rules'[k] => rules'[k][i].trace = Blank
            /\ UNCHANGED <<focus, retentionVars>>

RetainNext == focus = "retain" /\ RetentionNext /\ UNCHANGED <<focus, ruleVars>>

MCSpec == /\ MCInit
          /\ [][EditNext \/ LoadNext \/ RetainNext]_<<focus, ruleVars, retentionVars>>
          /\ focus = "retain" => RetentionFairness
=============================================================================
