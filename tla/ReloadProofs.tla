----------------------------- MODULE ReloadProofs -----------------------------
(***************************************************************************)
(* Proofs about Reload for any number of administrators, promotions and    *)
(* node slots: no write is silently lost and no reload goes back to older  *)
(* content.                                                                *)
(***************************************************************************)
EXTENDS Reload, TLAPS

\* w's write is the last one of t, and w has not reported success.
Pending(w, t) == /\ table[w] = t /\ wrote[w] = db[t]
                 /\ pc[w] \in {"saving", "lock", "reading", "failed"}

\* What the fields of a writer can be at each place.
PlacesOK ==
  /\ db["config"] # 0
  /\ \A w \in Writers :
       /\ pc[w] = "reading" <=> reloadMu = w
       /\ pc[w] = "reading" => at[w] \in 0..Len(ReadOrder)
       /\ pc[w] = "saving" => at[w] < NodeSlots /\ table[w] = "nodes"
       /\ pc[w] \notin {"saving", "reading"} => at[w] = 0
       /\ pc[w] = "idle" => wrote[w] = 0
       /\ pc[w] = "setUpstream" => buf[w]["config"] # 0

\* A reload has read content at least as new as the process works with: only the
\* holder of reloadMu changes live.
BufferNewer ==
  /\ \A t \in Tables : live[t] <= db[t]
  /\ \A w \in Writers : pc[w] = "reading" =>
       \A i \in 1..at[w] : /\ live[ReadOrder[i]] <= buf[w][ReadOrder[i]]
                           /\ buf[w][ReadOrder[i]] <= db[ReadOrder[i]]

\* What a reload read and somebody changed since belongs to another writer, who
\* waits for reloadMu or has failed.
BufferStaleMeansPending ==
  \A w \in Writers : pc[w] = "reading" =>
    \A i \in 1..at[w] : buf[w][ReadOrder[i]] # db[ReadOrder[i]] =>
      \E v \in Writers \ {w} : Pending(v, ReadOrder[i])

\* A saved configuration was based on a version that is gone.
BasedOnOlder ==
  \A w \in Writers : table[w] = "config" /\ wrote[w] # 0 => expected[w] < db["config"]

\* StaleMeansPending and NeverOlder hold when a reload publishes because of what
\* its buffer satisfies while it reads.
IInv == /\ TypeOK /\ PlacesOK /\ BufferNewer /\ BufferStaleMeansPending /\ BasedOnOlder
        /\ StaleMeansPending /\ NoLostUpdate

\* reload reads each of the five tables exactly once.
LEMMA ReadOrderFacts ==
  /\ Len(ReadOrder) = 5
  /\ Tables = {"config", "profiles", "nodes", "trusted", "risk"}
  /\ \A i \in 1..5 : ReadOrder[i] \in Tables
  /\ \A t \in Tables : \E i \in 1..5 : ReadOrder[i] = t
  /\ \A i, j \in 1..5 : ReadOrder[i] = ReadOrder[j] => i = j
  <1>1. Len(ReadOrder) = 5
    BY DEF ReadOrder
  <1>2. /\ ReadOrder[1] = "config" /\ ReadOrder[2] = "profiles" /\ ReadOrder[3] = "nodes"
        /\ ReadOrder[4] = "trusted" /\ ReadOrder[5] = "risk"
    BY DEF ReadOrder
  <1>3. \A i \in 1..5 : i \in {1, 2, 3, 4, 5}
    OBVIOUS
  <1>4. Tables = {"config", "profiles", "nodes", "trusted", "risk"}
    BY <1>1, <1>2, <1>3 DEF Tables
  <1> QED
    BY <1>1, <1>2, <1>3, <1>4

\* A freshly started process satisfies the invariant.
LEMMA InitIInv == Init => IInv
  <1> SUFFICES ASSUME Init PROVE IInv
    OBVIOUS
  <1>1. TypeOK
    BY ReadOrderFacts, ReloadAssumption DEF Init, TypeOK, Nothing, Ended
  <1>2. PlacesOK
    BY ReadOrderFacts, ReloadAssumption DEF Init, PlacesOK, Writers
  <1>3. BufferNewer
    BY ReadOrderFacts DEF Init, BufferNewer
  <1>4. BufferStaleMeansPending /\ BasedOnOlder /\ StaleMeansPending /\ NoLostUpdate
    BY DEF Init, BufferStaleMeansPending, BasedOnOlder, StaleMeansPending, NoLostUpdate
  <1> QED
    BY <1>1, <1>2, <1>3, <1>4 DEF IInv

\* A committed write of w to t, which becomes the pending one; the reloads in
\* progress of others, and what they have read, stay as they are.
LEMMA CommitStep ==
  ASSUME IInv, NEW w \in Writers, NEW t \in Tables, Commit(w, t),
         NEW place \in {"lock", "saving"}, Move(w, place),
         pc[w] = "idle" \/ (pc[w] = "saving" /\ t = "nodes"),
         NEW n \in Nat, at' = [at EXCEPT ![w] = n],
         place = "lock" => n = 0,
         place = "saving" => n < NodeSlots /\ t = "nodes",
         t = "config" => expected[w] = db["config"],
         UNCHANGED <<live, upstream, reloadMu, expected, buf>>
  PROVE  IInv'
  <1> USE ReadOrderFacts
  <1>t. TypeOK
    BY DEF IInv
  <1>1. /\ pc'[w] = place /\ table'[w] = t /\ wrote'[w] = db[t] + 1 /\ db'[t] = db[t] + 1
        /\ at'[w] = n
    BY <1>t DEF TypeOK, Commit, Move
  <1>2. \A v \in Writers : v # w => /\ pc'[v] = pc[v] /\ table'[v] = table[v]
                                    /\ wrote'[v] = wrote[v] /\ at'[v] = at[v]
    BY <1>t DEF TypeOK, Commit, Move
  <1>3. \A u \in Tables : u # t => db'[u] = db[u]
    BY <1>t DEF TypeOK, Commit
  <1>4. TypeOK'
    BY <1>t DEF TypeOK, Commit, Move
  <1>5. PlacesOK'
    BY <1>1, <1>2, <1>3, <1>t DEF IInv, PlacesOK, TypeOK
  <1>6. BufferNewer'
    <2>1. \A u \in Tables : db[u] \in Nat /\ db[u] <= db'[u]
      BY <1>1, <1>3, <1>t DEF TypeOK
    <2>2. \A u \in Tables : live[u] <= db'[u]
      BY <2>1, <1>4, <1>t DEF IInv, BufferNewer, TypeOK
    <2>3. ASSUME NEW v \in Writers, pc'[v] = "reading", NEW i \in 1..at'[v]
          PROVE  /\ live'[ReadOrder[i]] <= buf'[v][ReadOrder[i]]
                 /\ buf'[v][ReadOrder[i]] <= db'[ReadOrder[i]]
      <3>1. v # w /\ pc[v] = "reading" /\ i \in 1..at[v]
        BY <1>1, <1>2, <2>3
      <3>2. ReadOrder[i] \in Tables
        BY <3>1 DEF IInv, PlacesOK
      <3>3. /\ live[ReadOrder[i]] <= buf[v][ReadOrder[i]]
            /\ buf[v][ReadOrder[i]] <= db[ReadOrder[i]] /\ buf[v][ReadOrder[i]] \in Nat
        BY <3>1, <3>2, <1>t DEF IInv, BufferNewer, TypeOK
      <3> QED
        BY <2>1, <3>2, <3>3, <1>4 DEF TypeOK
    <2> QED
      BY <2>2, <2>3 DEF BufferNewer
  <1>7. \A v \in Writers, u \in Tables : u # t /\ Pending(v, u) => Pending(v, u)'
    BY <1>1, <1>2, <1>3, <1>t DEF Pending, IInv, PlacesOK
  <1>8. Pending(w, t)'
    BY <1>1 DEF Pending
  <1>9. StaleMeansPending'
    BY <1>3, <1>7, <1>8 DEF IInv, StaleMeansPending, Pending
  <1>10. BufferStaleMeansPending'
    BY <1>1, <1>2, <1>3, <1>5, <1>7, <1>8 DEF IInv, BufferStaleMeansPending, PlacesOK
  <1>11. BasedOnOlder'
    BY <1>1, <1>2, <1>3, <1>t DEF IInv, BasedOnOlder, TypeOK
  <1>12. NoLostUpdate'
    BY <1>1, <1>2, <1>3, <1>t DEF IInv, BasedOnOlder, NoLostUpdate, TypeOK
  <1> QED
    BY <1>4, <1>5, <1>6, <1>9, <1>10, <1>11, <1>12 DEF IInv

\* A step of w that commits nothing, ends no reload and publishes at most what it
\* reads in that step: what was pending stays so.
LEMMA QuietStep ==
  ASSUME IInv, NEW w \in Writers,
         NEW place \in {"lock", "reading", "setUpstream", "failed", "conflict", "ok"},
         Move(w, place),
         NEW n \in Nat, at' = [at EXCEPT ![w] = n],
         NEW b \in [Tables -> Nat], buf' = [buf EXCEPT ![w] = b],
         UNCHANGED <<db, table, wrote, expected>>,
         live' \in [Tables -> Nat],
         \A t \in Tables : live'[t] \in {live[t], db[t]},
         live' = live \/ pc[w] = "reading",
         upstream' \in Nat \ {0},
         reloadMu' \in Writers \cup {None},
         \A v \in Writers : (reloadMu' = v) <=> (pc'[v] = "reading"),
         place # "reading" => n = 0,
         place = "setUpstream" => b["config"] # 0,
         place = "reading" =>
           /\ n \in 0..Len(ReadOrder)
           /\ \A i \in 1..n : \/ b[ReadOrder[i]] = db[ReadOrder[i]]
                             \/ /\ pc[w] = "reading" /\ i <= at[w]
                                /\ b[ReadOrder[i]] = buf[w][ReadOrder[i]]
                                /\ live'[ReadOrder[i]] = live[ReadOrder[i]],
         pc[w] \in {"saving", "lock", "reading", "failed"} => place \in {"lock", "reading", "failed"}
  PROVE  IInv'
  <1> USE ReadOrderFacts
  <1>t. TypeOK /\ PlacesOK
    BY DEF IInv
  <1>1. pc'[w] = place /\ at'[w] = n /\ buf'[w] = b
    BY <1>t DEF TypeOK, Move
  <1>2. \A v \in Writers : v # w => pc'[v] = pc[v] /\ at'[v] = at[v] /\ buf'[v] = buf[v]
    BY <1>t DEF TypeOK, Move
  <1>3. TypeOK'
    BY <1>t DEF TypeOK, Move, Ended
  <1>4. PlacesOK'
    BY <1>1, <1>2, <1>t DEF PlacesOK, TypeOK
  <1>5. BufferNewer'
    <2>1. \A t \in Tables : live'[t] <= db'[t]
      BY <1>t DEF IInv, BufferNewer, TypeOK
    <2>2. ASSUME NEW v \in Writers, pc'[v] = "reading", NEW i \in 1..at'[v]
          PROVE  /\ live'[ReadOrder[i]] <= buf'[v][ReadOrder[i]]
                 /\ buf'[v][ReadOrder[i]] <= db'[ReadOrder[i]]
      <3>1. CASE v # w
        <4>1. live' = live
          BY <1>2, <1>t, <2>2, <3>1 DEF PlacesOK
        <4> QED
          BY <1>2, <2>2, <3>1, <4>1 DEF IInv, BufferNewer
      <3>2. CASE v = w
        <4>1. i \in 1..5 /\ i \in 1..n /\ ReadOrder[i] \in Tables
          BY <1>1, <2>2, <3>2
        <4> QED
          BY <1>1, <2>1, <2>2, <3>2, <4>1, <1>t DEF IInv, BufferNewer, TypeOK
      <3> QED
        BY <3>1, <3>2
    <2> QED
      BY <2>1, <2>2 DEF BufferNewer
  <1>6. \A v \in Writers, u \in Tables : Pending(v, u) => Pending(v, u)'
    BY <1>1, <1>2 DEF Pending
  <1>7. StaleMeansPending'
    BY <1>6 DEF IInv, StaleMeansPending, Pending
  <1>8. BufferStaleMeansPending'
    BY <1>1, <1>2, <1>6, <1>t DEF IInv, BufferStaleMeansPending, PlacesOK, TypeOK
  <1>9. BasedOnOlder' /\ NoLostUpdate'
    BY DEF IInv, BasedOnOlder, NoLostUpdate
  <1> QED
    BY <1>3, <1>4, <1>5, <1>7, <1>8, <1>9 DEF IInv

\* The steps of a handler that leave it outside reload.
LEMMA AwayStep ==
  ASSUME IInv, NEW w \in Writers, NEW place \in {"setUpstream", "failed", "conflict", "ok"},
         Move(w, place),
         pc[w] \in {"idle", "saving", "reading", "getConfig", "setUpstream"},
         pc[w] \in {"saving", "reading"} => place = "failed",
         at' = [at EXCEPT ![w] = 0],
         NEW b \in [Tables -> Nat], buf' = [buf EXCEPT ![w] = b],
         place = "setUpstream" => b["config"] # 0,
         UNCHANGED <<db, live, table, wrote, expected>>,
         upstream' \in Nat \ {0},
         reloadMu' = IF pc[w] = "reading" THEN None ELSE reloadMu
  PROVE  IInv'
  <1>t. TypeOK /\ PlacesOK
    BY DEF IInv
  <1>1. reloadMu' \in Writers \cup {None}
    BY <1>t DEF TypeOK
  <1>2. \A v \in Writers : (reloadMu' = v) <=> (pc'[v] = "reading")
    BY <1>t, ReloadAssumption DEF TypeOK, PlacesOK, Move, Writers
  <1>3. live' \in [Tables -> Nat] /\ \A t \in Tables : live'[t] \in {live[t], db[t]}
    BY <1>t DEF TypeOK
  <1> QED
    BY <1>1, <1>2, <1>3, QuietStep

\* Every step of every writer preserves the invariant.
LEMMA NextIInv == IInv /\ [Next]_vars => IInv'
  <1> SUFFICES ASSUME IInv, [Next]_vars PROVE IInv'
    OBVIOUS
  <1> USE ReadOrderFacts
  <1>t. TypeOK /\ PlacesOK
    BY DEF IInv
  <1>n. Nothing \in [Tables -> Nat]
    BY DEF Nothing
  <1>1. ASSUME NEW w \in Writers, LoadConfig(w) PROVE IInv'
    <2>1. expected' = [expected EXCEPT ![w] = db["config"]] /\ wrote[w] = 0
      BY <1>1, <1>t DEF LoadConfig, PlacesOK
    <2>2. TypeOK'
      BY <1>1, <1>t DEF LoadConfig, TypeOK
    <2>3. BasedOnOlder'
      BY <1>1, <2>1, <1>t DEF LoadConfig, IInv, BasedOnOlder, TypeOK
    <2>4. NoLostUpdate'
      BY <1>1, <2>1, <1>t DEF LoadConfig, IInv, NoLostUpdate, TypeOK
    <2>5. PlacesOK' /\ BufferNewer' /\ BufferStaleMeansPending' /\ StaleMeansPending'
      BY <1>1 DEF LoadConfig, IInv, PlacesOK, BufferNewer, BufferStaleMeansPending, Pending,
                  StaleMeansPending
    <2> QED
      BY <2>2, <2>3, <2>4, <2>5 DEF IInv
  <1>2. ASSUME NEW w \in Writers, PutConfig(w) PROVE IInv'
    <2>1. CASE Commit(w, "config") /\ Move(w, "lock") /\ ~VersionConflict(w)
      <3>1. at' = [at EXCEPT ![w] = 0]
        BY <1>2, <1>t DEF PutConfig, TypeOK, PlacesOK
      <3> QED
        BY <1>2, <2>1, <3>1, CommitStep DEF PutConfig, VersionConflict
    <2>2. CASE Move(w, "conflict") /\ UNCHANGED <<db, table, wrote>>
      <3>1. /\ at' = [at EXCEPT ![w] = 0] /\ buf' = [buf EXCEPT ![w] = buf[w]]
            /\ buf[w] \in [Tables -> Nat]
        BY <1>2, <1>t DEF PutConfig, TypeOK, PlacesOK
      <3>2. /\ pc[w] = "idle" /\ upstream \in Nat \ {0}
            /\ UNCHANGED <<db, live, upstream, reloadMu, table, wrote, expected>>
        BY <1>2, <1>t, <2>2 DEF PutConfig, TypeOK
      <3> QED
        BY <2>2, <3>1, <3>2, AwayStep
    <2> QED
      BY <1>2, <2>1, <2>2 DEF PutConfig
  <1>3. ASSUME NEW w \in Writers, NEW t \in Tables, Save(w, t) PROVE IInv'
    <2>1. at' = [at EXCEPT ![w] = 0]
      BY <1>3, <1>t DEF Save, TypeOK, PlacesOK
    <2>2. t # "config"
      BY <1>3 DEF Save, Libraries
    <2>3. /\ pc[w] = "idle" /\ Commit(w, t) /\ Move(w, "lock")
          /\ UNCHANGED <<live, upstream, reloadMu, expected, buf>> /\ 0 \in Nat
      BY <1>3 DEF Save
    <2> QED
      BY <2>1, <2>2, <2>3, CommitStep
  <1>4. ASSUME NEW w \in Writers, SaveAINode(w) PROVE IInv'
    <2>1. at[w] \in Nat /\ NodeSlots \in Nat
      BY <1>t, ReloadAssumption DEF TypeOK
    <2>c. /\ Commit(w, "nodes") /\ "nodes" \in Tables /\ 0 \in Nat /\ at[w] + 1 \in Nat
          /\ pc[w] = "idle" \/ pc[w] = "saving"
          /\ UNCHANGED <<live, upstream, reloadMu, expected, buf>>
      BY <1>4, <2>1 DEF SaveAINode
    <2>2. CASE at[w] + 1 < NodeSlots
      <3>1. at' = [at EXCEPT ![w] = at[w] + 1] /\ Move(w, "saving")
        BY <1>4, <1>t, <2>2 DEF SaveAINode, TypeOK
      <3> QED
        BY <2>2, <2>c, <3>1, CommitStep
    <2>3. CASE ~(at[w] + 1 < NodeSlots)
      <3>1. at' = [at EXCEPT ![w] = 0] /\ Move(w, "lock")
        BY <1>4, <1>t, <2>3 DEF SaveAINode, TypeOK
      <3> QED
        BY <2>c, <3>1, CommitStep
    <2> QED
      BY <2>2, <2>3
  <1>5. ASSUME NEW w \in Writers, SaveFails(w) PROVE IInv'
    <2>1. buf' = [buf EXCEPT ![w] = buf[w]] /\ buf[w] \in [Tables -> Nat]
      BY <1>5, <1>t DEF SaveFails, TypeOK
    <2>2. /\ pc[w] \in {"idle", "saving"} /\ upstream \in Nat \ {0}
          /\ Move(w, "failed") /\ at' = [at EXCEPT ![w] = 0]
          /\ UNCHANGED <<db, live, upstream, reloadMu, table, wrote, expected>>
      BY <1>5, <1>t DEF SaveFails, TypeOK
    <2> QED
      BY <2>1, <2>2, AwayStep
  <1>6. ASSUME NEW w \in Writers, Lock(w) PROVE IInv'
    <2>1. /\ buf' = [buf EXCEPT ![w] = buf[w]] /\ buf[w] \in [Tables -> Nat]
          /\ at' = [at EXCEPT ![w] = 0]
      BY <1>6, <1>t DEF Lock, TypeOK, PlacesOK
    <2>2. \A v \in Writers : (reloadMu' = v) <=> (pc'[v] = "reading")
      BY <1>6, <1>t, ReloadAssumption DEF Lock, TypeOK, PlacesOK, Move, Writers
    <2>3. /\ pc[w] = "lock" /\ Move(w, "reading") /\ reloadMu' = w
          /\ UNCHANGED <<db, live, upstream, table, wrote, expected>>
          /\ upstream \in Nat \ {0} /\ live \in [Tables -> Nat]
      BY <1>6, <1>t DEF Lock, TypeOK
    <2>4. /\ 0 \in Nat /\ 0 \in 0..Len(ReadOrder) /\ \A i \in 1..0 : FALSE
          /\ \A t \in Tables : live'[t] \in {live[t], db[t]}
      BY <2>3
    <2> QED
      BY <2>1, <2>2, <2>3, <2>4, QuietStep
  <1>7. ASSUME NEW w \in Writers, Read(w) PROVE IInv'
    <2> DEFINE t == ReadOrder[at[w] + 1]
               b == [buf[w] EXCEPT ![t] = db[t]]
    <2>1. at[w] \in 0..4 /\ at[w] + 1 \in 1..5 /\ t \in Tables /\ pc[w] = "reading"
      BY <1>7, <1>t DEF Read, PlacesOK, TypeOK
    <2>2. /\ b \in [Tables -> Nat] /\ buf' = [buf EXCEPT ![w] = b]
          /\ \A u \in Tables : b[u] = IF u = t THEN db[t] ELSE buf[w][u]
      BY <1>7, <1>t, <2>1 DEF Read, TypeOK
    <2>3. /\ at' = [at EXCEPT ![w] = at[w] + 1] /\ Move(w, "reading")
      BY <1>7, <1>t DEF Read, TypeOK, Move
    <2>4. /\ live' \in [Tables -> Nat]
          /\ \A u \in Tables : live'[u] = live[u] \/ (u = t /\ live'[u] = db[u])
      BY <1>7, <1>t, <2>1 DEF Read, TypeOK
    <2>5. \A i \in 1..(at[w] + 1) :
             \/ b[ReadOrder[i]] = db[ReadOrder[i]]
             \/ /\ pc[w] = "reading" /\ i <= at[w]
                /\ b[ReadOrder[i]] = buf[w][ReadOrder[i]]
                /\ live'[ReadOrder[i]] = live[ReadOrder[i]]
      <3> TAKE i \in 1..(at[w] + 1)
      <3>1. i \in 1..5 /\ ReadOrder[i] \in Tables
        BY <2>1
      <3>2. CASE ReadOrder[i] = t
        BY <2>2, <3>1, <3>2
      <3>3. CASE ReadOrder[i] # t
        <4>1. i # at[w] + 1
          BY <3>3
        <4>2. i <= at[w]
          BY <2>1, <4>1
        <4> QED
          BY <2>1, <2>2, <2>4, <3>1, <3>3, <4>2
      <3> QED
        BY <3>2, <3>3
    <2>6. \A v \in Writers : (reloadMu' = v) <=> (pc'[v] = "reading")
      BY <1>7, <1>t DEF Read, PlacesOK
    <2>7. /\ UNCHANGED <<db, upstream, reloadMu, table, wrote, expected>>
          /\ upstream \in Nat \ {0} /\ reloadMu \in Writers \cup {None}
      BY <1>7, <1>t DEF Read, TypeOK
    <2>8. /\ at[w] + 1 \in Nat /\ at[w] + 1 \in 0..Len(ReadOrder)
          /\ \A u \in Tables : live'[u] \in {live[u], db[u]}
      BY <2>1, <2>4
    <2> HIDE DEF t, b
    <2>9. PICK n \in Nat : n = at[w] + 1
      BY <2>8
    <2>10. at' = [at EXCEPT ![w] = n] /\ n \in 0..Len(ReadOrder)
      BY <2>3, <2>8, <2>9
    <2>11. \A i \in 1..n : \/ b[ReadOrder[i]] = db[ReadOrder[i]]
                           \/ /\ pc[w] = "reading" /\ i <= at[w]
                              /\ b[ReadOrder[i]] = buf[w][ReadOrder[i]]
                              /\ live'[ReadOrder[i]] = live[ReadOrder[i]]
      BY <2>5, <2>9
    <2> QED
      BY <2>1, <2>2, <2>3, <2>4, <2>6, <2>7, <2>8, <2>10, <2>11, QuietStep
  <1>8. ASSUME NEW w \in Writers, Publish(w) PROVE IInv'
    <2> DEFINE place == IF w \in Admins THEN "getConfig" ELSE "ok"
    <2>1. /\ pc[w] = "reading" /\ reloadMu = w /\ at[w] = 5 /\ live' = buf[w]
          /\ UNCHANGED <<db, upstream, table, wrote, expected>>
      BY <1>8, <1>t DEF Publish, PlacesOK
    <2>2. /\ pc'[w] = place /\ at'[w] = 0
          /\ \A v \in Writers : v # w => pc'[v] = pc[v] /\ at'[v] = at[v] /\ buf'[v] = buf[v]
      BY <1>8, <1>t DEF Publish, Move, TypeOK
    <2>3. \A v \in Writers : pc'[v] # "reading"
      BY <1>t, <2>1, <2>2 DEF PlacesOK
    <2>4. TypeOK'
      BY <1>8, <1>t, <1>n DEF Publish, Move, TypeOK, Ended
    <2>5. PlacesOK'
      BY <1>8, <1>t, <2>1, <2>2, <2>3, ReloadAssumption DEF Publish, PlacesOK, Writers
    <2>6. \A t \in Tables : live'[t] <= db[t]
      <3>1. \A i \in 1..5 : buf[w][ReadOrder[i]] <= db[ReadOrder[i]]
        BY <2>1 DEF IInv, BufferNewer
      <3> QED
        BY <2>1, <3>1
    <2>7. BufferNewer' /\ BufferStaleMeansPending'
      BY <2>1, <2>3, <2>6 DEF BufferNewer, BufferStaleMeansPending
    <2>8. StaleMeansPending'
      <3> SUFFICES ASSUME NEW t \in Tables, live'[t] # db[t]
                   PROVE  \E v \in Writers : Pending(v, t)'
        BY <2>1 DEF StaleMeansPending, Pending
      <3>1. PICK i \in 1..5 : ReadOrder[i] = t
        OBVIOUS
      <3>2. PICK v \in Writers \ {w} : Pending(v, t)
        BY <2>1, <3>1 DEF IInv, BufferStaleMeansPending
      <3>3. Pending(v, t)'
        BY <2>1, <2>2, <3>2 DEF Pending
      <3> QED
        BY <3>3
    <2>9. BasedOnOlder' /\ NoLostUpdate'
      BY <2>1 DEF IInv, BasedOnOlder, NoLostUpdate
    <2> QED
      BY <2>4, <2>5, <2>7, <2>8, <2>9 DEF IInv
  <1>9. ASSUME NEW w \in Writers, ReloadFails(w) PROVE IInv'
    <2>1. /\ pc[w] = "reading" /\ upstream \in Nat \ {0} /\ Move(w, "failed")
          /\ at' = [at EXCEPT ![w] = 0] /\ buf' = [buf EXCEPT ![w] = Nothing]
          /\ reloadMu' = None /\ UNCHANGED <<db, live, upstream, table, wrote, expected>>
      BY <1>9, <1>t DEF ReloadFails, TypeOK
    <2> QED
      BY <1>n, <2>1, AwayStep
  <1>10. ASSUME NEW w \in Writers, GetConfig(w) PROVE IInv'
    <2>1. /\ pc[w] = "getConfig" /\ at' = [at EXCEPT ![w] = 0] /\ upstream \in Nat \ {0}
          /\ UNCHANGED <<db, live, upstream, reloadMu, table, wrote, expected>>
      BY <1>10, <1>t DEF GetConfig, TypeOK, PlacesOK
    <2>2. CASE buf' = [buf EXCEPT ![w]["config"] = db["config"]] /\ Move(w, "setUpstream")
      <3> DEFINE b == [buf[w] EXCEPT !["config"] = db["config"]]
      <3>1. b \in [Tables -> Nat] /\ buf' = [buf EXCEPT ![w] = b] /\ b["config"] # 0
        BY <2>2, <1>t DEF TypeOK, PlacesOK
      <3> HIDE DEF b
      <3> QED
        BY <2>1, <2>2, <3>1, AwayStep
    <2>3. CASE Move(w, "failed") /\ UNCHANGED buf
      <3>1. buf' = [buf EXCEPT ![w] = buf[w]] /\ buf[w] \in [Tables -> Nat]
        BY <2>3, <1>t DEF TypeOK
      <3> QED
        BY <2>1, <2>3, <3>1, AwayStep
    <2> QED
      BY <1>10, <2>2, <2>3 DEF GetConfig
  <1>11. ASSUME NEW w \in Writers, SetUpstream(w) PROVE IInv'
    <2>1. /\ pc[w] = "setUpstream" /\ Move(w, "ok") /\ buf' = [buf EXCEPT ![w] = Nothing]
          /\ at' = [at EXCEPT ![w] = 0] /\ upstream' \in Nat \ {0}
          /\ UNCHANGED <<db, live, reloadMu, table, wrote, expected>>
      BY <1>11, <1>t DEF SetUpstream, TypeOK, PlacesOK
    <2> QED
      BY <1>n, <2>1, AwayStep
  <1>12. ASSUME UNCHANGED vars PROVE IInv'
    BY <1>12 DEF vars, IInv, TypeOK, PlacesOK, BufferNewer, BufferStaleMeansPending, Pending,
                 BasedOnOlder, StaleMeansPending, NoLostUpdate
  <1> QED
    BY <1>1, <1>2, <1>3, <1>4, <1>5, <1>6, <1>7, <1>8, <1>9, <1>10, <1>11, <1>12 DEF Next

\* The inductive invariant holds of the reload protocol.
THEOREM InvariantHolds == SafetySpec => []IInv
  BY InitIInv, NextIInv, PTL DEF SafetySpec

\* Type correctness; the proxy always has an upstream (SetUpstream never gets the
\* result of a failed GetConfig).
THEOREM TypeCorrect == SafetySpec => []TypeOK
  BY InvariantHolds, PTL DEF IInv

\* No committed write is silently missing from what the process works with.
THEOREM NoSilentLoss == SafetySpec => []StaleMeansPending
  BY InvariantHolds, PTL DEF IInv

\* Two saves of the configuration are never based on the same version.
THEOREM SavesNeverCollide == SafetySpec => []NoLostUpdate
  BY InvariantHolds, PTL DEF IInv

\* No reload publishes content older than what is published.
THEOREM PublishesNeverOlder == SafetySpec => NeverOlder
  <1>1. ASSUME IInv, [Next]_vars PROVE [\A t \in Tables : live'[t] >= live[t]]_vars
    <2> SUFFICES ASSUME Next PROVE \A t \in Tables : live'[t] >= live[t]
      BY <1>1
    <2> USE ReadOrderFacts
    <2>t. TypeOK /\ PlacesOK /\ BufferNewer
      BY <1>1 DEF IInv
    <2>1. CASE live' = live
      BY <2>1, <2>t DEF TypeOK
    <2>2. ASSUME NEW w \in Writers, Read(w) PROVE \A t \in Tables : live'[t] >= live[t]
      BY <2>2, <2>t DEF Read, TypeOK, BufferNewer
    <2>3. ASSUME NEW w \in Writers, Publish(w) PROVE \A t \in Tables : live'[t] >= live[t]
      <3>1. at[w] = 5 /\ live' = buf[w] /\ pc[w] = "reading"
        BY <2>3 DEF Publish
      <3>2. \A i \in 1..5 : live[ReadOrder[i]] <= buf[w][ReadOrder[i]]
        BY <2>t, <3>1 DEF BufferNewer
      <3> QED
        BY <2>t, <3>1, <3>2 DEF TypeOK
    <2> QED
      BY <2>1, <2>2, <2>3 DEF Next, LoadConfig, PutConfig, Save, SaveAINode, SaveFails, Lock,
                              ReloadFails, GetConfig, SetUpstream
  <1> QED
    BY <1>1, InvariantHolds, PTL DEF SafetySpec, NeverOlder
=============================================================================
