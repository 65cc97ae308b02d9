----------------------------- MODULE RuleLibrary -----------------------------
(***************************************************************************)
(* The trusted and risk rule tables of internal/storage/store.go: the      *)
(* writes of administrators (internal/admin/server.go), of the request     *)
(* path and of the asynchronous quorum, the migration that recovers the    *)
(* plaintext of old rules, and the two-query load of the snapshot requests *)
(* are judged by (cmd/nocyber-guard/main.go).                              *)
(*                                                                         *)
(* A row's label, source, hint and times are left out.  A handler whose    *)
(* validation fails answers an error and changes nothing: no step.         *)
(***************************************************************************)
EXTENDS Integers, FiniteSets, SequencesExt

CONSTANTS Hashes,      \* SHA-256 values
          Contents,    \* plaintexts
          Digest,      \* hashPlaintext
          Traces,      \* API-key fingerprints
          Blank,       \* the empty string, and no operation in progress
          Admins,      \* handlers of the administration API
          MaxId        \* bound on the ids a table hands out

Kinds == {"trusted", "risk"}

ASSUME RuleAssumption == /\ Digest \in [Contents -> Hashes]
                         /\ Blank \notin Contents \cup Traces \cup Hashes
                         /\ IsFiniteSet(Hashes) /\ MaxId \in Nat

VARIABLES rules,       \* table -> id -> row
          nextId,      \* table -> next AUTOINCREMENT id
          migrated,    \* the row 4 of schema_migrations
          opened,      \* the store is open
          editing,     \* an administrator between SELECT and UPDATE, or Blank
          loading,     \* loadRules between its two queries, or Blank
          snapshot,    \* the published rules: hash -> kind
          riskSince    \* history: hashes a risk rule covered all through the load

ruleVars == <<rules, nextId, migrated, opened, editing, loading, snapshot, riskSince>>

Row(hash, content, trace) ==
  [sha256 |-> hash, content |-> content, trace |-> trace, enabled |-> TRUE]

Inserted(table, id, row) ==
  [i \in DOMAIN table \cup {id} |-> IF i = id THEN row ELSE table[i]]

Enabled(table) == {table[i].sha256 : i \in {j \in DOMAIN table : table[j].enabled}}

\* Old databases hold rules without plaintext, under the ids they got.
RuleInit == /\ \E old \in [Kinds -> SUBSET Hashes] :
                 LET listed(k) == SetToSeq(old[k])
                 IN /\ rules = [k \in Kinds |-> [i \in DOMAIN listed(k) |->
                                                   Row(listed(k)[i], Blank, Blank)]]
                    /\ nextId = [k \in Kinds |-> Len(listed(k)) + 1]
            /\ migrated = FALSE /\ opened = FALSE
            /\ editing = [a \in Admins |-> Blank]
            /\ loading = Blank /\ snapshot = <<>> /\ riskSince = {}

\* Every write ends here: the tables change and the history follows.
Write(table, id) ==
  /\ rules' = table
  /\ nextId' = id
  /\ riskSince' = riskSince \cap Enabled(table["risk"])

\* validateHashContent: the digest proves the plaintext.
Proves(content, hash) == content # Blank /\ Digest[content] = hash

\* migrateRulePlaintextV4.  The joins find plaintexts for rules without one,
\* in complete evidence and in unsampled review payloads; only the proven
\* ones are kept, and the rows and the version are committed together.
Recovered(found) ==
  [k \in Kinds |-> [i \in DOMAIN rules[k] |->
     LET row == rules[k][i]
         proven == {c \in Contents : <<k, row.sha256, c>> \in found /\ Proves(c, row.sha256)}
     IN IF row.content = Blank /\ proven # {}
        THEN [row EXCEPT !.content = CHOOSE c \in proven : TRUE] ELSE row]]

Open(found) ==
  /\ ~opened /\ opened' = TRUE
  /\ migrated => found = {}
  /\ migrated' = TRUE
  /\ Write(IF migrated THEN rules ELSE Recovered(found), nextId)
  /\ UNCHANGED <<editing, loading, snapshot>>

Restart ==
  /\ opened /\ opened' = FALSE
  /\ editing' = [a \in Admins |-> Blank]
  /\ loading' = Blank /\ snapshot' = <<>> /\ riskSince' = {}
  /\ UNCHANGED <<rules, nextId, migrated>>

\* Mutant: the promoting request's key replaces the trace.
MergeLastTrace(row, content, trace) ==
  [row EXCEPT !.content = content, !.enabled = TRUE,
              !.trace = IF trace = Blank THEN @ ELSE trace]

\* The ON CONFLICT clause of AddHashSourceWithTrace and of PromoteHash: new
\* plaintext replaces the old one, the first trace stays, the rule is on.
Merge(row, content, trace) ==
  [row EXCEPT !.content = content, !.enabled = TRUE,
              !.trace = IF @ = Blank THEN trace ELSE @]

\* Mutant: the rows are numbered from the largest one (no AUTOINCREMENT).
HandOutReused(kind) ==
  IF DOMAIN rules[kind] = {} THEN 1 ELSE Max(DOMAIN rules[kind]) + 1

\* The id of a new row: AUTOINCREMENT never hands one out twice.
HandOut(kind) == nextId[kind]

Upsert(kind, content, trace) ==
  LET known == {i \in DOMAIN rules[kind] : rules[kind][i].sha256 = Digest[content]}
      new == HandOut(kind)
  IN \/ /\ known = {} /\ new <= MaxId
        /\ Write([rules EXCEPT ![kind] = Inserted(@, new, Row(Digest[content], content, trace))],
                 [nextId EXCEPT ![kind] = new + 1])
     \/ /\ known # {}
        /\ Write([rules EXCEPT ![kind] = [i \in DOMAIN @ |->
                    IF i \in known THEN Merge(@[i], content, trace) ELSE @[i]]], nextId)

\* POST of an administrator, with the plaintext the API requires, or the
\* promotion of a review job.
AddHash(kind, content, trace) ==
  /\ opened /\ Upsert(kind, content, trace)
  /\ UNCHANGED <<migrated, opened, editing, loading, snapshot>>

\* A matching request fills what the rule lacks, by hash.
Filled(row, content, trace) ==
  [row EXCEPT !.content = IF @ = Blank THEN content ELSE @,
              !.trace = IF @ = Blank THEN trace ELSE @]

StoreHashContext(kind, content, trace) ==
  /\ opened
  /\ Write([rules EXCEPT ![kind] = [i \in DOMAIN @ |->
              IF @[i].sha256 = Digest[content] THEN Filled(@[i], content, trace)
              ELSE @[i]]], nextId)
  /\ UNCHANGED <<migrated, opened, editing, loading, snapshot>>

\* PUT without plaintext: one UPDATE by id.
UpdateHash(kind, id, enabled) ==
  /\ opened /\ id \in DOMAIN rules[kind]
  /\ Write([rules EXCEPT ![kind][id].enabled = enabled], nextId)
  /\ UNCHANGED <<migrated, opened, editing, loading, snapshot>>

\* PUT with plaintext: SELECT sha256 by id and validate, then UPDATE by id.
BeginUpdate(a, kind, id, content) ==
  /\ opened /\ editing[a] = Blank
  /\ id \in DOMAIN rules[kind] /\ Proves(content, rules[kind][id].sha256)
  /\ editing' = [editing EXCEPT ![a] = [kind |-> kind, id |-> id, content |-> content]]
  /\ UNCHANGED <<rules, nextId, migrated, opened, loading, snapshot, riskSince>>

\* A row deleted meanwhile is answered by 404.
FinishUpdate(a, enabled) ==
  /\ editing[a] # Blank
  /\ LET e == editing[a]
     IN Write(IF e.id \in DOMAIN rules[e.kind]
              THEN [rules EXCEPT ![e.kind][e.id].content = e.content,
                                 ![e.kind][e.id].enabled = enabled]
              ELSE rules, nextId)
  /\ editing' = [editing EXCEPT ![a] = Blank]
  /\ UNCHANGED <<migrated, opened, loading, snapshot>>

DeleteHash(kind, id) ==
  /\ opened /\ id \in DOMAIN rules[kind]
  /\ Write([rules EXCEPT ![kind] = Restrict(@, DOMAIN @ \ {id})], nextId)
  /\ UNCHANGED <<migrated, opened, editing, loading, snapshot>>

\* loadRules: the trusted rules are listed, then the risk rules.
ListTrusted ==
  /\ opened /\ loading = Blank
  /\ loading' = Enabled(rules["trusted"])
  /\ riskSince' = Enabled(rules["risk"])
  /\ UNCHANGED <<rules, nextId, migrated, opened, editing, snapshot>>

\* Mutant: the trusted rules are laid over the risk rules.
CombineTrustedLast(trusted, risk) ==
  [h \in trusted \cup risk |-> IF h \in trusted THEN "trusted" ELSE "risk"]

\* The risk rules are laid over the trusted ones.
Combine(trusted, risk) ==
  [h \in trusted \cup risk |-> IF h \in risk THEN "risk" ELSE "trusted"]

ListRisk ==
  /\ loading # Blank
  /\ snapshot' = Combine(loading, Enabled(rules["risk"]))
  /\ loading' = Blank
  /\ UNCHANGED <<rules, nextId, migrated, opened, editing, riskSince>>

RuleNext ==
  \/ \E found \in SUBSET (Kinds \X Hashes \X Contents) : Open(found)
  \/ Restart
  \/ \E kind \in Kinds, content \in Contents, trace \in Traces \cup {Blank} :
       AddHash(kind, content, trace) \/ StoreHashContext(kind, content, trace)
  \/ \E kind \in Kinds, id \in 1..MaxId :
       \/ \E enabled \in BOOLEAN : UpdateHash(kind, id, enabled)
       \/ \E a \in Admins, content \in Contents : BeginUpdate(a, kind, id, content)
       \/ DeleteHash(kind, id)
  \/ \E a \in Admins, enabled \in BOOLEAN : FinishUpdate(a, enabled)
  \/ ListTrusted \/ ListRisk

RuleSpec == RuleInit /\ [][RuleNext]_ruleVars
-----------------------------------------------------------------------------
\* Whatever plaintext a rule shows hashes to the rule, also when its row was
\* deleted and its id would be taken again between the SELECT and the UPDATE
\* of an administrator, and when the migration found an unrelated text.
ContentProven ==
  \A k \in Kinds : \A i \in DOMAIN rules[k] :
    rules[k][i].content = Blank \/ Digest[rules[k][i].content] = rules[k][i].sha256

\* While a rule lives, its hash, its plaintext and its first key trace stay,
\* whichever of the five writers comes next and in whatever order.
FirstTraceKept ==
  [][\A k \in Kinds : \A i \in DOMAIN rules[k] \cap DOMAIN rules'[k] :
       LET old == rules[k][i]
           new == rules'[k][i]
       IN /\ new.sha256 = old.sha256
          /\ old.content # Blank => new.content = old.content
          /\ old.trace # Blank => new.trace = old.trace]_ruleVars

\* A hash under an enabled risk rule all through a load is a risk in the
\* snapshot the load publishes: the two queries of loadRules see the tables
\* at two moments, and a trusted rule added or left behind never hides it.
RiskRulesLoaded ==
  [][loading # Blank /\ loading' = Blank /\ opened' =>
       \A h \in riskSince : h \in DOMAIN snapshot' /\ snapshot'[h] = "risk"]_ruleVars
=============================================================================
