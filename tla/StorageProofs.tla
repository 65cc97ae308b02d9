---------------------------- MODULE StorageProofs ----------------------------
(***************************************************************************)
(* Proofs about the two halves of the database: how long the plaintext of  *)
(* a blocked request survives (Retention) and what the rule tables keep    *)
(* through their five writers (RuleLibrary).                               *)
(***************************************************************************)
EXTENDS RuleLibrary, Retention, FiniteSetTheorems, TLAPS

-----------------------------------------------------------------------------
(***************************************************************************)
(* Retention.  ErasedInTime speaks of the moment a cleanup ends, so the    *)
(* invariant must remember what its first statement achieved: from Expire  *)
(* to Truncate no live row is expired, since a day never passes within a   *)
(* cleanup and a process that is down is in none.                          *)
(***************************************************************************)
RetentionInv ==
  /\ RetentionTypeOK
  /\ ErasedInTime
  /\ ~up => cleaner = "idle"
  /\ cleaner \in {"trim", "truncate"} => \A e \in evidence : age[e] <= EvidenceDays

\* The empty tables of a new database satisfy the invariant.
LEMMA RetentionInitial == RetentionInit => RetentionInv
BY RetentionAssumption
DEF RetentionInit, RetentionInv, RetentionTypeOK, ErasedInTime, Steps, MaxAge

\* Every statement, deletion, day, crash and start preserves it.
LEMMA RetentionInductive == RetentionInv /\ [RetentionNext]_retentionVars => RetentionInv'
<1> SUFFICES ASSUME RetentionInv, [RetentionNext]_retentionVars
             PROVE  RetentionInv'
  OBVIOUS
<1> USE RetentionAssumption DEF RetentionInv, RetentionTypeOK, ErasedInTime, Steps, MaxAge
<1>1. ASSUME NEW e \in Events, RecordBlockedEvent(e) PROVE RetentionInv'
  BY <1>1 DEF RecordBlockedEvent
<1>2. CASE ReadRetention
  BY <1>2 DEF ReadRetention
<1>3. CASE Expire
  BY <1>3 DEF Expire
<1>4. ASSUME NEW days \in RetentionDays, Trim(days) PROVE RetentionInv'
  BY <1>4 DEF Trim
<1>5. CASE Truncate
  BY <1>5 DEF Truncate
<1>6. CASE GiveUp
  BY <1>6 DEF GiveUp
<1>7. ASSUME NEW gone \in SUBSET Events, DeleteEvents(gone) PROVE RetentionInv'
  BY <1>7 DEF DeleteEvents
<1>8. CASE Checkpoint
  BY <1>8 DEF Checkpoint
<1>9. CASE Day
  <2>1. /\ age' \in [Events -> 0..MaxAge] /\ sinceClean' \in 0..MaxMissed
    BY <1>9 DEF Day, Grown
  <2>2. ASSUME NEW e \in disk PROVE age'[e] <= EvidenceDays + sinceClean'
    BY <1>9, <2>2 DEF Day, Grown
  <2> QED
    BY <1>9, <2>1, <2>2 DEF Day
<1>10. CASE Crash
  BY <1>10 DEF Crash
<1>11. CASE Start
  BY <1>11 DEF Start
<1>12. CASE UNCHANGED retentionVars
  BY <1>12 DEF retentionVars
<1> QED
  BY <1>1, <1>2, <1>3, <1>4, <1>5, <1>6, <1>7, <1>8, <1>9, <1>10, <1>11, <1>12 DEF RetentionNext

\* The rows, the log and the steps of the cleanup always fit together: no
\* evidence without its event, none live without its plaintext on disk.
THEOREM RetentionTypeCorrect == RetentionSpec => []RetentionTypeOK
<1>1. RetentionInv => RetentionTypeOK
  BY DEF RetentionInv
<1> QED
  BY <1>1, RetentionInitial, RetentionInductive, PTL DEF RetentionSpec

\* Expired plaintext stays on disk for at most the days without a complete
\* cleanup, for every lifetime of evidence, every setting of
\* event_retention_days and any number of blocked requests.
THEOREM PlaintextErased == RetentionSpec => []ErasedInTime
<1>1. RetentionInv => ErasedInTime
  BY DEF RetentionInv
<1> QED
  BY <1>1, RetentionInitial, RetentionInductive, PTL DEF RetentionSpec

-----------------------------------------------------------------------------
(***************************************************************************)
(* The rule tables.  A plaintext an administrator proved is written in a   *)
(* second statement, by id, so ContentProven alone is not inductive: an id *)
(* under edit must still name the hash the plaintext was proved against,   *)
(* or no row at all.  That holds because AUTOINCREMENT keeps every id that *)
(* was ever handed out below nextId, the only place new rows appear.       *)
(***************************************************************************)
ProvenRow ==
  {row \in [sha256 : Hashes, content : Contents \cup {Blank},
            trace : Traces \cup {Blank}, enabled : BOOLEAN] :
     row.content = Blank \/ Digest[row.content] = row.sha256}

IsTable(table, next) == /\ table \in [DOMAIN table -> ProvenRow]
                        /\ \A i \in DOMAIN table : i \in Nat /\ i < next

Edits == [kind : Kinds, id : Nat, content : Contents]

StillProves(e) == /\ e.id < nextId[e.kind]
                  /\ e.id \in DOMAIN rules[e.kind] =>
                       Digest[e.content] = rules[e.kind][e.id].sha256

RuleInv ==
  /\ rules = [k \in Kinds |-> rules[k]]
  /\ nextId \in [Kinds -> Nat]
  /\ \A k \in Kinds : IsTable(rules[k], nextId[k])
  /\ editing \in [Admins -> {Blank} \cup Edits]
  /\ \A a \in Admins : editing[a] # Blank => StillProves(editing[a])
  /\ riskSince \subseteq Enabled(rules["risk"])

\* What a write may make of a row that it keeps.
Grows(old, new) == /\ new.sha256 = old.sha256
                   /\ old.content # Blank => new.content # Blank
                   /\ old.trace # Blank => new.trace = old.trace

\* What every writer leaves behind: tables of proven rows, in which a row
\* either has grown or is new, under an id that was never handed out.
LegalWrite(table, next) ==
  /\ table = [k \in Kinds |-> table[k]]
  /\ next \in [Kinds -> Nat]
  /\ \A k \in Kinds : /\ nextId[k] <= next[k]
                      /\ IsTable(table[k], next[k])
                      /\ \A i \in DOMAIN table[k] :
                           \/ i >= nextId[k]
                           \/ i \in DOMAIN rules[k] /\ Grows(rules[k][i], table[k][i])

\* The ids of an old database are those of a sequence that lists its hashes.
LEMMA OldRules ==
  ASSUME NEW old \in SUBSET Hashes
  PROVE  /\ SetToSeq(old) \in [1..Cardinality(old) -> old]
         /\ Cardinality(old) \in Nat
         /\ Len(SetToSeq(old)) = Cardinality(old)
<1>1. IsFiniteSet(old)
  BY RuleAssumption, FS_Subset
<1>2. Cardinality(old) \in Nat /\ ExistsBijection(1..Cardinality(old), old)
  BY <1>1, FS_CardinalityType
<1>3. \E f \in [1..Cardinality(old) -> old] : IsInjective(f)
  BY <1>2 DEF ExistsBijection, Bijection, Injection
<1>4. SetToSeq(old) \in [1..Cardinality(old) -> old]
  BY <1>3 DEF SetToSeq
<1>5. SetToSeq(old) \in Seq(old) /\ Len(SetToSeq(old)) = Cardinality(old)
  BY <1>2, <1>4
<1> QED
  BY <1>2, <1>4, <1>5

\* Old rules have no plaintext to prove, and no operation is in progress.
LEMMA RuleInitial == RuleInit => RuleInv
<1> SUFFICES ASSUME RuleInit PROVE RuleInv
  OBVIOUS
<1>1. PICK old \in [Kinds -> SUBSET Hashes] :
        /\ rules = [k \in Kinds |-> [i \in DOMAIN SetToSeq(old[k]) |->
                                       Row(SetToSeq(old[k])[i], Blank, Blank)]]
        /\ nextId = [k \in Kinds |-> Len(SetToSeq(old[k])) + 1]
  BY DEF RuleInit
<1>2. ASSUME NEW k \in Kinds
      PROVE  nextId[k] \in Nat /\ IsTable(rules[k], nextId[k])
  <2> DEFINE n == Cardinality(old[k])
             list == SetToSeq(old[k])
  <2>1. list \in [1..n -> old[k]] /\ n \in Nat /\ Len(list) = n
    BY OldRules
  <2>2. nextId[k] = n + 1 /\ rules[k] = [i \in 1..n |-> Row(list[i], Blank, Blank)]
    BY <1>1, <2>1
  <2>3. ASSUME NEW i \in 1..n PROVE Row(list[i], Blank, Blank) \in ProvenRow
    BY <2>1, <2>3 DEF Row, ProvenRow
  <2> HIDE DEF n, list
  <2> QED
    BY <2>1, <2>2, <2>3 DEF IsTable
<1>3. nextId \in [Kinds -> Nat]
  BY <1>1, <1>2
<1>4. rules = [k \in Kinds |-> rules[k]]
  BY <1>1
<1>5. editing \in [Admins -> {Blank} \cup Edits] /\ \A a \in Admins : editing[a] = Blank
  BY DEF RuleInit
<1>6. riskSince = {}
  BY DEF RuleInit
<1> QED
  BY <1>2, <1>3, <1>4, <1>5, <1>6 DEF RuleInv

\* A legal write keeps the invariant, whatever edits are in progress: their
\* ids are below nextId, where no row appears and none changes its hash.
LEMMA LegalWriteKeeps ==
  ASSUME RuleInv, LegalWrite(rules', nextId'), riskSince' \subseteq Enabled(rules'["risk"]),
         editing' \in [Admins -> {Blank} \cup Edits],
         \A a \in Admins : editing'[a] = Blank \/ editing'[a] = editing[a]
  PROVE  RuleInv'
<1>1. ASSUME NEW a \in Admins, editing'[a] # Blank
      PROVE  StillProves(editing[a])'
  <2> DEFINE e == editing[a]
  <2>1. e \in Edits /\ StillProves(e) /\ editing'[a] = e
    BY <1>1 DEF RuleInv
  <2>2. e.kind \in Kinds /\ e.id \in Nat /\ e.id < nextId[e.kind]
    BY <2>1 DEF Edits, StillProves
  <2>3. nextId[e.kind] \in Nat /\ nextId'[e.kind] \in Nat /\ nextId[e.kind] <= nextId'[e.kind]
    BY <2>2 DEF RuleInv, LegalWrite
  <2>4. e.id < nextId'[e.kind]
    BY <2>2, <2>3
  <2>5. ASSUME e.id \in DOMAIN rules'[e.kind]
        PROVE  Digest[e.content] = rules'[e.kind][e.id].sha256
    <3>1. ~(e.id >= nextId[e.kind])
      BY <2>2, <2>3
    <3>2. e.id \in DOMAIN rules[e.kind] /\ Grows(rules[e.kind][e.id], rules'[e.kind][e.id])
      BY <2>2, <2>5, <3>1 DEF LegalWrite
    <3> QED
      BY <2>1, <3>2 DEF StillProves, Grows
  <2>6. /\ e.id < nextId'[e.kind]
        /\ e.id \in DOMAIN rules'[e.kind] => Digest[e.content] = rules'[e.kind][e.id].sha256
    BY <2>4, <2>5
  <2> HIDE DEF e
  <2> QED
    BY <2>1, <2>6 DEF StillProves
<1> QED
  BY <1>1 DEF RuleInv, LegalWrite

\* Rewriting the rows of one table, row by row, is legal when every row grows.
LEMMA RowsGrow ==
  ASSUME RuleInv, NEW kind \in Kinds, NEW STATE table,
         DOMAIN table = DOMAIN rules[kind],
         \A i \in DOMAIN rules[kind] : table[i] \in ProvenRow /\ Grows(rules[kind][i], table[i]),
         table = [i \in DOMAIN table |-> table[i]]
  PROVE  LegalWrite([rules EXCEPT ![kind] = table], nextId)
<1> DEFINE all == [rules EXCEPT ![kind] = table]
<1>1. all = [k \in Kinds |-> IF k = kind THEN table ELSE rules[k]]
  BY DEF RuleInv
<1>2. all = [k \in Kinds |-> all[k]] /\ nextId \in [Kinds -> Nat]
  BY <1>1 DEF RuleInv
<1>3. ASSUME NEW k \in Kinds
      PROVE  /\ nextId[k] <= nextId[k]
             /\ IsTable(all[k], nextId[k])
             /\ \A i \in DOMAIN all[k] : i \in DOMAIN rules[k] /\ Grows(rules[k][i], all[k][i])
  <2>1. nextId[k] \in Nat /\ IsTable(rules[k], nextId[k])
    BY DEF RuleInv
  <2>2. CASE k = kind
    <3>1. all[k] = table
      BY <1>1, <2>2
    <3>2. IsTable(table, nextId[k])
      BY <2>1, <2>2 DEF IsTable
    <3> QED
      BY <2>1, <2>2, <3>1, <3>2
  <2>3. CASE k # kind
    <3>1. all[k] = rules[k]
      BY <1>1, <2>3
    <3> QED
      BY <2>1, <3>1 DEF Grows
  <2> QED
    BY <2>2, <2>3
<1> HIDE DEF all
<1>4. LegalWrite(all, nextId)
  BY <1>2, <1>3 DEF LegalWrite
<1> QED
  BY <1>4 DEF all

\* Leaving the tables alone is legal.
LEMMA NothingWritten ==
  ASSUME RuleInv PROVE LegalWrite(rules, nextId)
BY DEF RuleInv, LegalWrite, Grows

\* The migration fills in only what the digest proves.
LEMMA RecoveredLegal ==
  ASSUME RuleInv, NEW found PROVE LegalWrite(Recovered(found), nextId)
<1> DEFINE proven(k, i) == {c \in Contents : /\ <<k, rules[k][i].sha256, c>> \in found
                                             /\ Proves(c, rules[k][i].sha256)}
           filled(k, i) == IF rules[k][i].content = Blank /\ proven(k, i) # {}
                           THEN [rules[k][i] EXCEPT !.content = CHOOSE c \in proven(k, i) : TRUE]
                           ELSE rules[k][i]
<1>1. Recovered(found) = [k \in Kinds |-> [i \in DOMAIN rules[k] |-> filled(k, i)]]
  BY DEF Recovered
<1>2. ASSUME NEW k \in Kinds, NEW i \in DOMAIN rules[k]
      PROVE  filled(k, i) \in ProvenRow /\ Grows(rules[k][i], filled(k, i))
  <2>1. PICK row \in ProvenRow : row = rules[k][i]
    BY DEF RuleInv, IsTable
  <2>2. CASE row.content = Blank /\ proven(k, i) # {}
    <3>1. PICK c \in Contents : /\ c = CHOOSE d \in proven(k, i) : TRUE
                                /\ Proves(c, row.sha256)
      BY <2>1, <2>2
    <3>2. filled(k, i) = [row EXCEPT !.content = c]
      BY <2>1, <2>2, <3>1
    <3> HIDE DEF filled
    <3> QED
      BY <2>1, <2>2, <3>1, <3>2 DEF ProvenRow, Grows, Proves
  <2>3. CASE ~(row.content = Blank /\ proven(k, i) # {})
    BY <2>1, <2>3 DEF Grows
  <2> QED
    BY <2>2, <2>3
<1> HIDE DEF filled
<1>3. ASSUME NEW k \in Kinds
      PROVE  /\ nextId[k] \in Nat
             /\ IsTable(Recovered(found)[k], nextId[k])
             /\ DOMAIN Recovered(found)[k] = DOMAIN rules[k]
             /\ \A i \in DOMAIN rules[k] : Recovered(found)[k][i] = filled(k, i)
  BY <1>1, <1>2 DEF RuleInv, IsTable
<1> QED
  BY <1>1, <1>2, <1>3 DEF LegalWrite, RuleInv

\* A new row takes an id that was never handed out; a known hash is merged
\* into the row it has.
LEMMA UpsertLegal ==
  ASSUME RuleInv, NEW kind \in Kinds, NEW content \in Contents,
         NEW trace \in Traces \cup {Blank}, Upsert(kind, content, trace)
  PROVE  LegalWrite(rules', nextId')
<1> DEFINE known == {i \in DOMAIN rules[kind] : rules[kind][i].sha256 = Digest[content]}
           new == nextId[kind]
           row == Row(Digest[content], content, trace)
           merged == [i \in DOMAIN rules[kind] |->
                        IF i \in known THEN Merge(rules[kind][i], content, trace)
                                       ELSE rules[kind][i]]
           grown == [j \in DOMAIN rules[kind] \cup {new} |->
                       IF j = new THEN row ELSE rules[kind][j]]
<1>1. nextId[kind] \in Nat /\ IsTable(rules[kind], nextId[kind])
  BY DEF RuleInv
<1>2. CASE Write([rules EXCEPT ![kind] = Inserted(rules[kind], new, row)],
                 [nextId EXCEPT ![kind] = new + 1])
  <2>1. Inserted(rules[kind], new, row) = grown
    BY DEF Inserted
  <2>2. row \in ProvenRow
    BY RuleAssumption DEF Row, ProvenRow
  <2>3. IsTable(grown, new + 1)
    <3> HIDE DEF row
    <3> QED
      BY <1>1, <2>2 DEF IsTable
  <2>4. /\ rules' = [k \in Kinds |-> IF k = kind THEN grown ELSE rules[k]]
        /\ nextId' = [k \in Kinds |-> IF k = kind THEN new + 1 ELSE nextId[k]]
    <3> HIDE DEF grown, row
    <3> QED
      BY <1>2, <2>1 DEF Write, RuleInv
  <2>5. ASSUME NEW k \in Kinds
        PROVE  /\ nextId[k] \in Nat /\ nextId'[k] \in Nat /\ nextId[k] <= nextId'[k]
               /\ IsTable(rules'[k], nextId'[k])
               /\ \A i \in DOMAIN rules'[k] :
                    \/ i >= nextId[k]
                    \/ i \in DOMAIN rules[k] /\ Grows(rules[k][i], rules'[k][i])
    <3>1. CASE k = kind
      <4>1. /\ nextId[k] \in Nat /\ nextId'[k] \in Nat /\ nextId[k] <= nextId'[k]
        BY <1>1, <2>4, <3>1
      <4>2. IsTable(rules'[k], nextId'[k]) /\ rules'[k] = grown
        BY <2>3, <2>4, <3>1
      <4>3. ASSUME NEW i \in DOMAIN grown
            PROVE  i >= nextId[k] \/ (i \in DOMAIN rules[k] /\ Grows(rules[k][i], grown[i]))
        BY <1>1, <3>1 DEF Grows
      <4> QED
        BY <4>1, <4>2, <4>3
    <3>2. CASE k # kind
      <4>1. rules'[k] = rules[k] /\ nextId'[k] = nextId[k]
        BY <2>4, <3>2
      <4> QED
        BY <4>1 DEF RuleInv, Grows
    <3> QED
      BY <3>1, <3>2
  <2>6. rules' = [k \in Kinds |-> rules'[k]] /\ nextId' \in [Kinds -> Nat]
    BY <2>4, <2>5
  <2> QED
    BY <2>5, <2>6 DEF LegalWrite
<1>3. CASE Write([rules EXCEPT ![kind] = merged], nextId)
  <2>1. ASSUME NEW i \in DOMAIN rules[kind]
        PROVE  merged[i] \in ProvenRow /\ Grows(rules[kind][i], merged[i])
    <3>1. PICK r \in ProvenRow : r = rules[kind][i]
      BY <1>1 DEF IsTable
    <3>2. CASE i \in known
      <4>1. r.sha256 = Digest[content] /\ merged[i] = Merge(r, content, trace)
        BY <3>1, <3>2
      <4>2. Merge(r, content, trace) \in ProvenRow /\ Grows(r, Merge(r, content, trace))
        BY <4>1, RuleAssumption DEF Merge, ProvenRow, Grows
      <4> QED
        BY <3>1, <4>1, <4>2
    <3>3. CASE i \notin known
      BY <3>1, <3>3 DEF Grows
    <3> QED
      BY <3>2, <3>3
  <2>2. DOMAIN merged = DOMAIN rules[kind] /\ merged = [i \in DOMAIN merged |-> merged[i]]
    OBVIOUS
  <2> HIDE DEF merged
  <2>3. LegalWrite([rules EXCEPT ![kind] = merged], nextId)
    BY <2>1, <2>2, RowsGrow
  <2> QED
    BY <1>3, <2>3 DEF Write
<1>4. \/ Write([rules EXCEPT ![kind] = Inserted(rules[kind], new, row)],
               [nextId EXCEPT ![kind] = new + 1])
      \/ Write([rules EXCEPT ![kind] = merged], nextId)
  BY DEF Upsert, HandOut
<1> QED
  BY <1>2, <1>3, <1>4

\* A matching request fills in what its own digest proves.
LEMMA StoreHashContextLegal ==
  ASSUME RuleInv, NEW kind \in Kinds, NEW content \in Contents,
         NEW trace \in Traces \cup {Blank}, StoreHashContext(kind, content, trace)
  PROVE  LegalWrite(rules', nextId')
<1> DEFINE filled == [i \in DOMAIN rules[kind] |->
                        IF rules[kind][i].sha256 = Digest[content]
                        THEN Filled(rules[kind][i], content, trace)
                        ELSE rules[kind][i]]
<1>1. ASSUME NEW i \in DOMAIN rules[kind]
      PROVE  filled[i] \in ProvenRow /\ Grows(rules[kind][i], filled[i])
  <2>1. PICK r \in ProvenRow : r = rules[kind][i]
    BY DEF RuleInv, IsTable
  <2>2. CASE r.sha256 = Digest[content]
    <3>1. filled[i] = Filled(r, content, trace)
      BY <2>1, <2>2
    <3>2. Filled(r, content, trace) \in ProvenRow /\ Grows(r, Filled(r, content, trace))
      BY <2>2, RuleAssumption DEF Filled, ProvenRow, Grows
    <3> QED
      BY <2>1, <3>1, <3>2
  <2>3. CASE r.sha256 # Digest[content]
    BY <2>1, <2>3 DEF Grows
  <2> QED
    BY <2>2, <2>3
<1>2. DOMAIN filled = DOMAIN rules[kind] /\ filled = [i \in DOMAIN filled |-> filled[i]]
  OBVIOUS
<1>3. Write([rules EXCEPT ![kind] = filled], nextId)
  BY DEF StoreHashContext
<1> HIDE DEF filled
<1>4. LegalWrite([rules EXCEPT ![kind] = filled], nextId)
  BY <1>1, <1>2, RowsGrow
<1> QED
  BY <1>3, <1>4 DEF Write

\* Rewriting one row, by id, is legal when that row grows.
LEMMA RowGrows ==
  ASSUME RuleInv, NEW kind \in Kinds, NEW id \in DOMAIN rules[kind], NEW row \in ProvenRow,
         Grows(rules[kind][id], row)
  PROVE  LegalWrite([rules EXCEPT ![kind] = [rules[kind] EXCEPT ![id] = row]], nextId)
<1> DEFINE table == [rules[kind] EXCEPT ![id] = row]
<1>1. rules[kind] \in [DOMAIN rules[kind] -> ProvenRow]
  BY DEF RuleInv, IsTable
<1>2. table = [i \in DOMAIN rules[kind] |-> IF i = id THEN row ELSE rules[kind][i]]
  BY <1>1
<1>3. /\ DOMAIN table = DOMAIN rules[kind] /\ table = [i \in DOMAIN table |-> table[i]]
      /\ \A i \in DOMAIN rules[kind] : table[i] \in ProvenRow /\ Grows(rules[kind][i], table[i])
  BY <1>1, <1>2 DEF Grows
<1> HIDE DEF table
<1>4. LegalWrite([rules EXCEPT ![kind] = table], nextId)
  BY <1>3, RowsGrow
<1> QED
  BY <1>4 DEF table

\* Switching a rule on or off changes nothing else of it.
LEMMA UpdateHashLegal ==
  ASSUME RuleInv, NEW kind \in Kinds, NEW id, NEW enabled \in BOOLEAN,
         UpdateHash(kind, id, enabled)
  PROVE  LegalWrite(rules', nextId')
<1>1. id \in DOMAIN rules[kind]
  BY DEF UpdateHash
<1>2. PICK r \in ProvenRow : r = rules[kind][id]
  BY <1>1 DEF RuleInv, IsTable
<1>3. [r EXCEPT !.enabled = enabled] \in ProvenRow /\ Grows(r, [r EXCEPT !.enabled = enabled])
  BY DEF ProvenRow, Grows
<1>4. LegalWrite([rules EXCEPT ![kind] = [rules[kind] EXCEPT ![id] = [r EXCEPT !.enabled = enabled]]],
                 nextId)
  BY <1>1, <1>2, <1>3, RowGrows
<1>5. rules' = [rules EXCEPT ![kind] = [rules[kind] EXCEPT ![id] = [r EXCEPT !.enabled = enabled]]]
  BY <1>2 DEF UpdateHash, Write
<1>6. nextId' = nextId
  BY DEF UpdateHash, Write
<1> QED
  BY <1>4, <1>5, <1>6

\* An edit writes the plaintext it proved, to the row it proved it for.
LEMMA FinishUpdateLegal ==
  ASSUME RuleInv, NEW a \in Admins, NEW enabled \in BOOLEAN, FinishUpdate(a, enabled)
  PROVE  LegalWrite(rules', nextId')
<1>1. PICK e \in Edits : e = editing[a] /\ StillProves(e)
  BY DEF FinishUpdate, RuleInv
<1>2. e.kind \in Kinds /\ e.content \in Contents
  BY DEF Edits
<1>3. nextId' = nextId
  BY DEF FinishUpdate, Write
<1>4. CASE e.id \in DOMAIN rules[e.kind]
  <2>1. PICK r \in ProvenRow : r = rules[e.kind][e.id]
    BY <1>2, <1>4 DEF RuleInv, IsTable
  <2> DEFINE new == [r EXCEPT !.content = e.content, !.enabled = enabled]
  <2>2. Digest[e.content] = r.sha256
    BY <1>1, <1>4, <2>1 DEF StillProves
  <2>3. new \in ProvenRow /\ Grows(r, new)
    BY <1>2, <2>2, RuleAssumption DEF ProvenRow, Grows
  <2>4. rules' = [rules EXCEPT ![e.kind][e.id].content = e.content,
                               ![e.kind][e.id].enabled = enabled]
    BY <1>1, <1>4 DEF FinishUpdate, Write
  <2>5. rules' = [rules EXCEPT ![e.kind] = [rules[e.kind] EXCEPT ![e.id] = new]]
    <3>1. rules = [k \in Kinds |-> rules[k]]
      BY DEF RuleInv
    <3>2. rules[e.kind] \in [DOMAIN rules[e.kind] -> ProvenRow]
      BY <1>2 DEF RuleInv, IsTable
    <3> QED
      BY <1>2, <1>4, <2>1, <2>4, <3>1, <3>2
  <2> HIDE DEF new
  <2>6. LegalWrite([rules EXCEPT ![e.kind] = [rules[e.kind] EXCEPT ![e.id] = new]], nextId)
    BY <1>2, <1>4, <2>1, <2>3, RowGrows
  <2> QED
    BY <1>3, <2>5, <2>6
<1>5. CASE e.id \notin DOMAIN rules[e.kind]
  <2>1. rules' = rules
    BY <1>1, <1>5 DEF FinishUpdate, Write
  <2> QED
    BY <1>3, <2>1, NothingWritten
<1> QED
  BY <1>4, <1>5

\* A deletion leaves the other rows as they were, and the id used up.
LEMMA DeleteHashLegal ==
  ASSUME RuleInv, NEW kind \in Kinds, NEW id, DeleteHash(kind, id)
  PROVE  LegalWrite(rules', nextId')
<1> DEFINE kept == [i \in DOMAIN rules[kind] \ {id} |-> rules[kind][i]]
<1>1. rules' = [k \in Kinds |-> IF k = kind THEN kept ELSE rules[k]] /\ nextId' = nextId
  BY DEF DeleteHash, Write, Restrict, RuleInv
<1>2. ASSUME NEW k \in Kinds
      PROVE  /\ nextId[k] \in Nat /\ IsTable(rules'[k], nextId'[k])
             /\ \A i \in DOMAIN rules'[k] : i \in DOMAIN rules[k] /\ Grows(rules[k][i], rules'[k][i])
  <2>1. nextId[k] \in Nat /\ IsTable(rules[k], nextId[k])
    BY DEF RuleInv
  <2>2. CASE k = kind
    <3>1. rules'[k] = kept /\ nextId'[k] = nextId[k]
      BY <1>1, <2>2
    <3>2. \A i \in DOMAIN kept : i \in DOMAIN rules[k] /\ kept[i] = rules[k][i]
      BY <2>2
    <3> QED
      BY <2>1, <3>1, <3>2 DEF IsTable, Grows
  <2>3. CASE k # kind
    BY <1>1, <2>1, <2>3 DEF Grows
  <2> QED
    BY <2>2, <2>3
<1>3. rules' = [k \in Kinds |-> rules'[k]] /\ nextId' \in [Kinds -> Nat]
  BY <1>1 DEF RuleInv
<1> HIDE DEF kept
<1> QED
  BY <1>1, <1>2, <1>3 DEF LegalWrite

\* The history variable follows every write.
LEMMA WriteCovers ==
  ASSUME NEW STATE table, NEW STATE next, Write(table, next)
  PROVE  riskSince' \subseteq Enabled(rules'["risk"])
BY DEF Write

\* Opening the store, with or without the migration, is a legal write.
LEMMA OpenLegal ==
  ASSUME RuleInv, NEW found, Open(found)
  PROVE  LegalWrite(rules', nextId') /\ riskSince' \subseteq Enabled(rules'["risk"])
<1>1. Write(IF migrated THEN rules ELSE Recovered(found), nextId)
  BY DEF Open
<1>2. riskSince' \subseteq Enabled(rules'["risk"]) /\ nextId' = nextId
  BY <1>1 DEF Write
<1>3. rules' = rules \/ rules' = Recovered(found)
  BY <1>1 DEF Write
<1> QED
  BY <1>2, <1>3, NothingWritten, RecoveredLegal

\* Every step of the tables is a legal write, or writes nothing.
LEMMA EveryStepLegal ==
  ASSUME RuleInv, [RuleNext]_ruleVars
  PROVE  LegalWrite(rules', nextId')
<1>1. ASSUME NEW found, Open(found) PROVE LegalWrite(rules', nextId')
  BY <1>1, OpenLegal
<1>2. ASSUME NEW kind \in Kinds, NEW content \in Contents, NEW trace \in Traces \cup {Blank},
             AddHash(kind, content, trace)
      PROVE  LegalWrite(rules', nextId')
  BY <1>2, UpsertLegal DEF AddHash
<1>3. ASSUME NEW kind \in Kinds, NEW content \in Contents, NEW trace \in Traces \cup {Blank},
             StoreHashContext(kind, content, trace)
      PROVE  LegalWrite(rules', nextId')
  BY <1>3, StoreHashContextLegal
<1>4. ASSUME NEW kind \in Kinds, NEW id, NEW enabled \in BOOLEAN, UpdateHash(kind, id, enabled)
      PROVE  LegalWrite(rules', nextId')
  BY <1>4, UpdateHashLegal
<1>5. ASSUME NEW kind \in Kinds, NEW id, DeleteHash(kind, id)
      PROVE  LegalWrite(rules', nextId')
  BY <1>5, DeleteHashLegal
<1>6. ASSUME NEW a \in Admins, NEW enabled \in BOOLEAN, FinishUpdate(a, enabled)
      PROVE  LegalWrite(rules', nextId')
  BY <1>6, FinishUpdateLegal
<1>7. ASSUME UNCHANGED <<rules, nextId>> PROVE LegalWrite(rules', nextId')
  BY <1>7, NothingWritten
<1>8. CASE Restart
  BY <1>7, <1>8 DEF Restart
<1>9. ASSUME NEW a \in Admins, NEW kind, NEW id, NEW content, BeginUpdate(a, kind, id, content)
      PROVE  LegalWrite(rules', nextId')
  BY <1>7, <1>9 DEF BeginUpdate
<1>10. CASE ListTrusted \/ ListRisk
  BY <1>7, <1>10 DEF ListTrusted, ListRisk
<1>11. CASE UNCHANGED ruleVars
  BY <1>7, <1>11 DEF ruleVars
<1> QED
  BY <1>1, <1>2, <1>3, <1>4, <1>5, <1>6, <1>8, <1>9, <1>10, <1>11 DEF RuleNext

\* The history variable never claims a hash that no enabled risk rule covers.
LEMMA EveryStepCovers ==
  ASSUME RuleInv, [RuleNext]_ruleVars
  PROVE  riskSince' \subseteq Enabled(rules'["risk"])
<1> DEFINE Covers == riskSince' \subseteq Enabled(rules'["risk"])
<1>1. ASSUME NEW found, Open(found) PROVE Covers
  BY <1>1, OpenLegal
<1>2. ASSUME NEW kind \in Kinds, NEW content \in Contents, NEW trace, AddHash(kind, content, trace)
      PROVE  Covers
  BY <1>2 DEF AddHash, Upsert, Write
<1>3. ASSUME NEW kind, NEW content, NEW trace, StoreHashContext(kind, content, trace)
      PROVE  Covers
  BY <1>3, WriteCovers DEF StoreHashContext
<1>4. ASSUME NEW kind, NEW id, NEW enabled, UpdateHash(kind, id, enabled) PROVE Covers
  BY <1>4, WriteCovers DEF UpdateHash
<1>5. ASSUME NEW kind, NEW id, DeleteHash(kind, id) PROVE Covers
  BY <1>5, WriteCovers DEF DeleteHash
<1>6. ASSUME NEW a, NEW enabled, FinishUpdate(a, enabled) PROVE Covers
  BY <1>6, WriteCovers DEF FinishUpdate
<1>7. riskSince \subseteq Enabled(rules["risk"])
  BY DEF RuleInv
<1>8. ASSUME rules' = rules, riskSince' \in {riskSince, {}, Enabled(rules["risk"])} PROVE Covers
  BY <1>7, <1>8
<1>9. ASSUME NEW a, NEW kind, NEW id, NEW content, BeginUpdate(a, kind, id, content) PROVE Covers
  BY <1>8, <1>9 DEF BeginUpdate
<1>10. CASE Restart \/ ListTrusted \/ ListRisk
  BY <1>8, <1>10 DEF Restart, ListTrusted, ListRisk
<1>11. CASE UNCHANGED ruleVars
  BY <1>8, <1>11 DEF ruleVars
<1> QED
  BY <1>1, <1>2, <1>3, <1>4, <1>5, <1>6, <1>9, <1>10, <1>11 DEF RuleNext

\* Every step of the rule library preserves the invariant.
LEMMA RuleInductive == RuleInv /\ [RuleNext]_ruleVars => RuleInv'
<1> SUFFICES ASSUME RuleInv, [RuleNext]_ruleVars PROVE RuleInv'
  OBVIOUS
<1>1. LegalWrite(rules', nextId') /\ riskSince' \subseteq Enabled(rules'["risk"])
  BY EveryStepLegal, EveryStepCovers
<1>2. editing \in [Admins -> {Blank} \cup Edits]
  BY DEF RuleInv
<1>3. ASSUME editing' \in {editing, [a \in Admins |-> Blank]} PROVE RuleInv'
  BY <1>1, <1>2, <1>3, LegalWriteKeeps
<1>4. ASSUME NEW a \in Admins, NEW enabled, FinishUpdate(a, enabled) PROVE RuleInv'
  <2>1. editing' = [editing EXCEPT ![a] = Blank]
    BY <1>4 DEF FinishUpdate
  <2> QED
    BY <1>1, <1>2, <2>1, LegalWriteKeeps
<1>5. ASSUME NEW a \in Admins, NEW kind \in Kinds, NEW id \in 1..MaxId, NEW content \in Contents,
             BeginUpdate(a, kind, id, content)
      PROVE  RuleInv'
  <2> DEFINE e == [kind |-> kind, id |-> id, content |-> content]
  <2>1. /\ editing' = [editing EXCEPT ![a] = e] /\ UNCHANGED <<rules, nextId, riskSince>>
        /\ id \in DOMAIN rules[kind] /\ Digest[content] = rules[kind][id].sha256
    BY <1>5 DEF BeginUpdate, Proves
  <2>2. e \in Edits
    BY RuleAssumption DEF Edits
  <2>3. StillProves(e) /\ e \in Edits
    BY <2>1, <2>2 DEF StillProves, RuleInv, IsTable
  <2> HIDE DEF e
  <2>4. editing' \in [Admins -> {Blank} \cup Edits]
    BY <1>2, <2>1, <2>3
  <2>5. ASSUME NEW b \in Admins, editing'[b] # Blank PROVE StillProves(editing[b])'
    <3>1. PICK d : d = editing'[b] /\ StillProves(d)
      BY <1>2, <2>1, <2>3, <2>5 DEF RuleInv
    <3> QED
      BY <2>1, <3>1 DEF StillProves
  <2> QED
    BY <2>1, <2>4, <2>5 DEF RuleInv
<1>6. ASSUME NEW found, Open(found) PROVE RuleInv'
  BY <1>3, <1>6 DEF Open
<1>7. ASSUME NEW kind, NEW content, NEW trace,
             AddHash(kind, content, trace) \/ StoreHashContext(kind, content, trace)
      PROVE  RuleInv'
  BY <1>3, <1>7 DEF AddHash, StoreHashContext
<1>8. ASSUME NEW kind, NEW id, NEW enabled, UpdateHash(kind, id, enabled) \/ DeleteHash(kind, id)
      PROVE  RuleInv'
  BY <1>3, <1>8 DEF UpdateHash, DeleteHash
<1>9. CASE Restart \/ ListTrusted \/ ListRisk
  BY <1>3, <1>9 DEF Restart, ListTrusted, ListRisk
<1>10. CASE UNCHANGED ruleVars
  BY <1>3, <1>10 DEF ruleVars
<1> QED
  BY <1>4, <1>5, <1>6, <1>7, <1>8, <1>9, <1>10 DEF RuleNext

\* Whatever plaintext a rule shows hashes to the rule, for any number of
\* administrators, rules and requests that write at the same time.
THEOREM PlaintextProven == RuleSpec => []ContentProven
<1>1. RuleInv => ContentProven
  BY DEF RuleInv, IsTable, ProvenRow, ContentProven
<1> QED
  BY <1>1, RuleInitial, RuleInductive, PTL DEF RuleSpec

\* SHA-256 tells the plaintexts apart, as the code assumes of it.
CollisionFree == \A c, d \in Contents : Digest[c] = Digest[d] => c = d

\* No step takes the plaintext or the first key trace from a living rule.
\* Two plaintexts of one digest would be allowed to replace each other.
THEOREM RowsKept ==
  ASSUME CollisionFree
  PROVE  RuleSpec => FirstTraceKept
<1> DEFINE Kept(old, new) == /\ new.sha256 = old.sha256
                             /\ old.content # Blank => new.content = old.content
                             /\ old.trace # Blank => new.trace = old.trace
           StepKeeps == \A k \in Kinds : \A i \in DOMAIN rules[k] \cap DOMAIN rules'[k] :
                          Kept(rules[k][i], rules'[k][i])
<1>1. ASSUME RuleInv, [RuleNext]_ruleVars PROVE StepKeeps
  <2> SUFFICES ASSUME NEW k \in Kinds, NEW i \in DOMAIN rules[k] \cap DOMAIN rules'[k]
               PROVE  Kept(rules[k][i], rules'[k][i])
    OBVIOUS
  <2>1. LegalWrite(rules', nextId')
    BY <1>1, EveryStepLegal
  <2>2. nextId[k] \in Nat /\ i \in Nat /\ i < nextId[k] /\ rules[k][i] \in ProvenRow
    BY <1>1 DEF RuleInv, IsTable
  <2>3. Grows(rules[k][i], rules'[k][i]) /\ rules'[k][i] \in ProvenRow
    BY <2>1, <2>2 DEF LegalWrite, IsTable
  <2>4. PICK old \in ProvenRow, new \in ProvenRow : old = rules[k][i] /\ new = rules'[k][i]
    BY <2>2, <2>3
  <2>5. Grows(old, new)
    BY <2>3, <2>4
  <2>6. Kept(old, new)
    BY <2>5, CollisionFree DEF Grows, ProvenRow, CollisionFree
  <2> QED
    BY <2>4, <2>6
<1>2. ASSUME RuleInv, [RuleNext]_ruleVars PROVE [StepKeeps]_ruleVars
  BY <1>1, <1>2
<1>3. FirstTraceKept <=> [][StepKeeps]_ruleVars
  BY DEF FirstTraceKept
<1> QED
  BY <1>2, <1>3, RuleInitial, RuleInductive, PTL DEF RuleSpec

\* A hash under an enabled risk rule all through a load is published as a
\* risk: the second query still sees it, and risk is laid over trusted.
THEOREM RiskNeverHidden == RuleSpec => RiskRulesLoaded
<1> DEFINE StepLoads == loading # Blank /\ loading' = Blank /\ opened' =>
             \A h \in riskSince : h \in DOMAIN snapshot' /\ snapshot'[h] = "risk"
<1>1. ASSUME RuleInv, [RuleNext]_ruleVars PROVE StepLoads
  <2>1. CASE ListRisk
    <3>1. riskSince \subseteq Enabled(rules["risk"])
      BY <1>1 DEF RuleInv
    <3>2. snapshot' = Combine(loading, Enabled(rules["risk"]))
      BY <2>1 DEF ListRisk
    <3> QED
      BY <3>1, <3>2 DEF Combine
  <2>2. CASE Restart
    BY <2>2 DEF Restart
  <2>3. CASE ListTrusted
    BY <2>3 DEF ListTrusted
  <2>4. ASSUME loading' = loading PROVE StepLoads
    BY <2>4
  <2> HIDE DEF StepLoads
  <2>5. CASE UNCHANGED ruleVars
    BY <2>4, <2>5 DEF ruleVars
  <2>6. CASE \E found \in SUBSET (Kinds \X Hashes \X Contents) : Open(found)
    BY <2>4, <2>6 DEF Open
  <2>7. CASE \E kind \in Kinds, content \in Contents, trace \in Traces \cup {Blank} :
               AddHash(kind, content, trace) \/ StoreHashContext(kind, content, trace)
    BY <2>4, <2>7 DEF AddHash, StoreHashContext
  <2>8. CASE \E kind \in Kinds, id \in 1..MaxId :
               \/ \E enabled \in BOOLEAN : UpdateHash(kind, id, enabled)
               \/ \E a \in Admins, content \in Contents : BeginUpdate(a, kind, id, content)
               \/ DeleteHash(kind, id)
    BY <2>4, <2>8 DEF UpdateHash, BeginUpdate, DeleteHash
  <2>9. CASE \E a \in Admins, enabled \in BOOLEAN : FinishUpdate(a, enabled)
    BY <2>4, <2>9 DEF FinishUpdate
  <2> QED
    BY <1>1, <2>1, <2>2, <2>3, <2>5, <2>6, <2>7, <2>8, <2>9 DEF RuleNext
<1>2. ASSUME RuleInv, [RuleNext]_ruleVars PROVE [StepLoads]_ruleVars
  BY <1>1, <1>2
<1>3. RiskRulesLoaded <=> [][StepLoads]_ruleVars
  BY DEF RiskRulesLoaded
<1> QED
  BY <1>2, <1>3, RuleInitial, RuleInductive, PTL DEF RuleSpec
=============================================================================
