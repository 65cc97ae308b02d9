-------------------------------- MODULE Reload --------------------------------
(***************************************************************************)
(* How a change that an administrator or the review pipeline commits to    *)
(* SQLite reaches the running proxy: the writing handlers of               *)
(* internal/admin/server.go, runtime.reload and OnReload of                *)
(* cmd/nocyber-guard/main.go, and SetUpstream of internal/proxy/proxy.go.  *)
(*                                                                         *)
(* The content of a table is identified by the number of writes it has     *)
(* had; for the configuration that number is its version column.  `live'   *)
(* is what the process works with: the runtimeState published at the end   *)
(* of reload and the reviewers published half-way by setNodes.  Each       *)
(* writer is one call of a handler.  A failure stands for a store error or *)
(* for a client that hangs up, which cancels the handler's context.        *)
(***************************************************************************)
EXTENDS Naturals, Sequences

CONSTANTS Admins,       \* requests of administrators
          Promotions,   \* promotions by the asynchronous worker
          None,         \* nobody holds reloadMu
          NodeSlots     \* the nodes asyncNodes saves one by one (3)

ASSUME ReloadAssumption ==
  /\ Admins \cap Promotions = {}
  /\ None \notin Admins \cup Promotions
  /\ NodeSlots \in Nat \ {0}

VARIABLES
  db,        \* db[t]: writes committed to table t
  live,      \* live[t]: the content of t the process works with
  upstream,  \* the configuration version the proxy's target came from
  reloadMu,  \* who holds runtime.reloadMu
  pc,        \* where each writer is
  table,     \* table[w]: the table w writes
  wrote,     \* wrote[w]: the content of that table after w's write
  expected,  \* expected[w]: the configuration version w has loaded
  at,        \* at[w]: nodes saved so far, or queries of the reload done so far
  buf        \* buf[w]: what w's reload has read

vars == <<db, live, upstream, reloadMu, pc, table, wrote, expected, at, buf>>

Writers == Admins \cup Promotions

\* The order of reload's queries; "profiles" stands for the client profiles and
\* the AI endpoint, read one after the other and each written by handlers of
\* their own; loadRules reads the two libraries last.
ReadOrder == <<"config", "profiles", "nodes", "trusted", "risk">>

Tables == {ReadOrder[i] : i \in 1..Len(ReadOrder)}

\* The two tables loadRules merges into one rule snapshot.
Libraries == {"trusted", "risk"}

Nothing == [t \in Tables |-> 0]

Ended == {"ok", "failed", "conflict"}

\* main: the first reload and the proxy's target come from the same database.
Init ==
  /\ db = [t \in Tables |-> 1]
  /\ live = db
  /\ upstream = db["config"]
  /\ reloadMu = None
  /\ pc = [w \in Writers |-> "idle"]
  /\ table = [w \in Writers |-> "config"]
  /\ wrote = [w \in Writers |-> 0]
  /\ expected = [w \in Writers |-> 0]
  /\ at = [w \in Writers |-> 0]
  /\ buf = [w \in Writers |-> Nothing]
-----------------------------------------------------------------------------
(* The writes.                                                             *)

Move(w, place) == pc' = [pc EXCEPT ![w] = place]

\* One committed write of w to t.
Commit(w, t) ==
  /\ db' = [db EXCEPT ![t] = @ + 1]
  /\ table' = [table EXCEPT ![w] = t]
  /\ wrote' = [wrote EXCEPT ![w] = db[t] + 1]

\* The administrator's page loads the configuration it will edit.
LoadConfig(w) ==
  /\ w \in Admins
  /\ pc[w] = "idle" /\ expected[w] = 0
  /\ expected' = [expected EXCEPT ![w] = db["config"]]
  /\ UNCHANGED <<db, live, upstream, reloadMu, pc, table, wrote, at, buf>>

\* PutConfig's transaction finds another version than the one w has loaded.
VersionConflict(w) == expected[w] # db["config"]

\* Mutant: the version in the request is not compared.
PutConfigUnchecked(w) ==
  /\ pc[w] = "idle" /\ expected[w] > 0
  /\ Commit(w, "config")
  /\ Move(w, "lock")
  /\ UNCHANGED <<live, upstream, reloadMu, expected, at, buf>>

\* putConfig: saved and on to the reload, or 409.
PutConfig(w) ==
  /\ pc[w] = "idle" /\ expected[w] > 0
  /\ \/ /\ ~VersionConflict(w)
        /\ Commit(w, "config")
        /\ Move(w, "lock")
     \/ /\ VersionConflict(w)
        /\ Move(w, "conflict")
        /\ UNCHANGED <<db, table, wrote>>
  /\ UNCHANGED <<live, upstream, reloadMu, expected, at, buf>>

\* putAI, hashCollection, hashItem, profileCollection and profileItem write one
\* row; PromoteHash writes one library.
Save(w, t) ==
  /\ pc[w] = "idle" /\ expected[w] = 0
  /\ IF w \in Promotions THEN t \in Libraries ELSE t \notin {"config", "nodes"}
  /\ Commit(w, t)
  /\ Move(w, "lock")
  /\ UNCHANGED <<live, upstream, reloadMu, expected, at, buf>>

\* asyncNodes saves its nodes one by one, each in a statement of its own.
SaveAINode(w) ==
  /\ w \in Admins
  /\ (pc[w] = "idle" /\ expected[w] = 0) \/ pc[w] = "saving"
  /\ Commit(w, "nodes")
  /\ at' = [at EXCEPT ![w] = IF @ + 1 < NodeSlots THEN @ + 1 ELSE 0]
  /\ Move(w, IF at[w] + 1 < NodeSlots THEN "saving" ELSE "lock")
  /\ UNCHANGED <<live, upstream, reloadMu, expected, buf>>

\* A write fails; asyncNodes may have saved some of its nodes and does not
\* reload.
SaveFails(w) ==
  /\ pc[w] \in {"idle", "saving"}
  /\ Move(w, "failed")
  /\ at' = [at EXCEPT ![w] = 0]
  /\ UNCHANGED <<db, live, upstream, reloadMu, table, wrote, expected, buf>>
-----------------------------------------------------------------------------
(* runtime.reload.                                                         *)

\* Mutant: reload does not take reloadMu.
LockIgnoringOthers(w) ==
  /\ pc[w] = "lock"
  /\ Move(w, "reading")
  /\ UNCHANGED <<db, live, upstream, reloadMu, table, wrote, expected, at, buf>>

Lock(w) ==
  /\ pc[w] = "lock"
  /\ reloadMu = None
  /\ reloadMu' = w
  /\ Move(w, "reading")
  /\ UNCHANGED <<db, live, upstream, table, wrote, expected, at, buf>>

\* The next query of reload; the reviewers are published as soon as the nodes
\* have been read.
Read(w) ==
  LET t == ReadOrder[at[w] + 1] IN
  /\ pc[w] = "reading"
  /\ at[w] < Len(ReadOrder)
  /\ buf' = [buf EXCEPT ![w][t] = db[t]]
  /\ at' = [at EXCEPT ![w] = @ + 1]
  /\ live' = IF t = "nodes" THEN [live EXCEPT ![t] = db[t]] ELSE live
  /\ UNCHANGED <<db, upstream, reloadMu, pc, table, wrote, expected>>

\* Mutant: a snapshot that keeps the risk library it had.
PublishKeepingRisk(w) ==
  /\ pc[w] = "reading"
  /\ at[w] = Len(ReadOrder)
  /\ live' = [buf[w] EXCEPT !["risk"] = live["risk"]]
  /\ buf' = [buf EXCEPT ![w] = Nothing]
  /\ reloadMu' = None
  /\ Move(w, IF w \in Admins THEN "getConfig" ELSE "ok")
  /\ at' = [at EXCEPT ![w] = 0]
  /\ UNCHANGED <<db, upstream, table, wrote, expected>>

\* bulkhead.SetLimit, state.Store and the unlock.  A promotion ends here; an
\* administrator's OnReload goes on to the upstream.
Publish(w) ==
  /\ pc[w] = "reading"
  /\ at[w] = Len(ReadOrder)
  /\ live' = buf[w]
  /\ buf' = [buf EXCEPT ![w] = Nothing]
  /\ reloadMu' = None
  /\ Move(w, IF w \in Admins THEN "getConfig" ELSE "ok")
  /\ at' = [at EXCEPT ![w] = 0]
  /\ UNCHANGED <<db, upstream, table, wrote, expected>>

\* Mutant: an early return that leaves the mutex locked.
ReloadFailsLocked(w) ==
  /\ pc[w] = "reading"
  /\ buf' = [buf EXCEPT ![w] = Nothing]
  /\ Move(w, "failed")
  /\ at' = [at EXCEPT ![w] = 0]
  /\ UNCHANGED <<db, live, upstream, reloadMu, table, wrote, expected>>

\* A query or NewEngine fails: nothing more is published, the mutex is free,
\* and the handler answers 503.
ReloadFails(w) ==
  /\ pc[w] = "reading"
  /\ buf' = [buf EXCEPT ![w] = Nothing]
  /\ reloadMu' = None
  /\ Move(w, "failed")
  /\ at' = [at EXCEPT ![w] = 0]
  /\ UNCHANGED <<db, live, upstream, table, wrote, expected>>
-----------------------------------------------------------------------------
(* The rest of OnReload, which holds no lock.                              *)

GetConfig(w) ==
  /\ pc[w] = "getConfig"
  /\ \/ /\ buf' = [buf EXCEPT ![w]["config"] = db["config"]]
        /\ Move(w, "setUpstream")
     \/ /\ Move(w, "failed")
        /\ UNCHANGED buf
  /\ UNCHANGED <<db, live, upstream, reloadMu, table, wrote, expected, at>>

SetUpstream(w) ==
  /\ pc[w] = "setUpstream"
  /\ upstream' = buf[w]["config"]
  /\ buf' = [buf EXCEPT ![w] = Nothing]
  /\ Move(w, "ok")
  /\ UNCHANGED <<db, live, reloadMu, table, wrote, expected, at>>

\* What a handler that has started goes on to do.
Proceed(w) == \/ pc[w] = "saving" /\ SaveAINode(w)
              \/ Lock(w) \/ Read(w) \/ Publish(w) \/ GetConfig(w) \/ SetUpstream(w)

Next == \E w \in Writers : \/ LoadConfig(w) \/ PutConfig(w)
                           \/ \E t \in Tables : Save(w, t)
                           \/ SaveAINode(w) \/ SaveFails(w)
                           \/ Lock(w) \/ Read(w) \/ Publish(w) \/ ReloadFails(w)
                           \/ GetConfig(w) \/ SetUpstream(w)

SafetySpec == Init /\ [][Next]_vars

\* Go runs every handler goroutine that can run.  sync.Mutex hands itself to a
\* waiter that has waited for a millisecond, so Lock is strongly fair.
Fairness == \A w \in Writers : WF_vars(Proceed(w)) /\ SF_vars(Lock(w))

Spec == SafetySpec /\ Fairness
-----------------------------------------------------------------------------
TypeOK ==
  /\ db \in [Tables -> Nat]
  /\ live \in [Tables -> Nat]
  /\ upstream \in Nat \ {0}
  /\ reloadMu \in Writers \cup {None}
  /\ pc \in [Writers -> {"idle", "saving", "lock", "reading", "getConfig", "setUpstream"} \cup Ended]
  /\ table \in [Writers -> Tables]
  /\ wrote \in [Writers -> Nat]
  /\ expected \in [Writers -> Nat]
  /\ at \in [Writers -> Nat]
  /\ buf \in [Writers -> [Tables -> Nat]]

\* The last write of a table that the process does not work with yet is still on
\* its way or ended in a reported failure (503, or a logged warning for a
\* promotion): reloads that overlap writes and one another never lose one
\* silently.
StaleMeansPending ==
  \A t \in Tables : live[t] # db[t] =>
    \E w \in Writers : /\ table[w] = t /\ wrote[w] = db[t]
                       /\ pc[w] \in {"saving", "lock", "reading", "failed"}

\* The process never goes back to an older configuration, rule library, profile
\* list or node list: a slow reload does not publish over a newer one.
NeverOlder == [][\A t \in Tables : live'[t] >= live[t]]_vars

\* Two administrators who edited the same version of the configuration cannot
\* both save it.
NoLostUpdate ==
  \A v, w \in Writers :
    v # w /\ wrote[v] > 0 /\ wrote[w] > 0 /\ table[v] = "config" /\ table[w] = "config"
      => expected[v] # expected[w]

\* Every handler that has started a write ends, whichever other one failed
\* inside reload: nobody waits for reloadMu for ever.
EveryWriteAnswered == []<>(\A w \in Writers : pc[w] \in {"idle"} \cup Ended)

\* README: the saved upstream is applied to new requests and remains
\* authoritative.  Once every handler has answered that it succeeded, the proxy
\* uses the saved one.
SavedUpstreamApplied ==
  (\A w \in Writers : pc[w] \in {"idle", "ok", "conflict"}) => upstream = db["config"]
=============================================================================
