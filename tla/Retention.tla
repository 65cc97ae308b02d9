------------------------------ MODULE Retention ------------------------------
(***************************************************************************)
(* How long the plaintext of a blocked request survives: the event and     *)
(* evidence rows of internal/storage/store.go, the copies of deleted rows  *)
(* in the write-ahead log, the daily cleanup (startCleanup, main.go) and   *)
(* the deletions of administrators (internal/admin/server.go).             *)
(*                                                                         *)
(* Time is counted in days, of which only the age of each evidence and the *)
(* age of the last complete cleanup are kept.  A crash keeps the log; so   *)
(* does, here, a clean shutdown, after which SQLite may remove it.         *)
(***************************************************************************)
EXTENDS Integers

CONSTANTS Events,          \* blocked requests on record at a time
          EvidenceDays,    \* lifetime of evidence (7 days)
          RetentionDays,   \* values of event_retention_days
          MaxMissed        \* bound: days without a cleanup that are told apart

ASSUME RetentionAssumption == /\ EvidenceDays \in Nat /\ MaxMissed \in Nat
                              /\ RetentionDays \subseteq Nat \ {0}

MaxAge == EvidenceDays + MaxMissed

VARIABLES events,       \* rows of audit_events
          evidence,     \* rows of blocked_evidence
          disk,         \* evidence whose plaintext is in the database or its log
          age,          \* days since the evidence was captured
          cleaner,      \* the step the cleanup goroutine is at
          deferred,     \* administrators' deletions that still try their checkpoint
          up,           \* the process runs
          sinceClean    \* days since a cleanup last ran to its end

retentionVars == <<events, evidence, disk, age, cleaner, deferred, up, sinceClean>>

Steps == {"due", "expire", "trim", "truncate", "idle"}

Grown(n, top) == IF n < top THEN n + 1 ELSE n

RetentionInit ==
  /\ events = {} /\ evidence = {} /\ disk = {}
  /\ age = [e \in Events |-> 0]
  /\ cleaner = "due" /\ deferred = 0 /\ up = TRUE /\ sinceClean = 0

\* RecordBlockedEvent commits the event and its evidence together.
RecordBlockedEvent(e) ==
  /\ up /\ e \notin events \cup disk
  /\ events' = events \cup {e} /\ evidence' = evidence \cup {e} /\ disk' = disk \cup {e}
  /\ age' = [age EXCEPT ![e] = 0]
  /\ UNCHANGED <<cleaner, deferred, up, sinceClean>>

\* run: the configuration is read under the deadline of the whole cleanup.
ReadRetention ==
  /\ up /\ cleaner = "due" /\ cleaner' = "expire"
  /\ UNCHANGED <<events, evidence, disk, age, deferred, up, sinceClean>>

\* DELETE FROM blocked_evidence: the rows go, their copies stay in the log.
Expire ==
  /\ up /\ cleaner = "expire" /\ cleaner' = "trim"
  /\ evidence' = {e \in evidence : age[e] <= EvidenceDays}
  /\ UNCHANGED <<events, disk, age, deferred, up, sinceClean>>

\* DELETE FROM audit_events, which cascades to evidence that has not expired.
Trim(days) ==
  /\ up /\ cleaner = "trim" /\ cleaner' = "truncate"
  /\ events' = {e \in events : age[e] <= days}
  /\ evidence' = evidence \cap events'
  /\ UNCHANGED <<disk, age, deferred, up, sinceClean>>

\* wal_checkpoint(TRUNCATE): without a reader of an older snapshot the log
\* is emptied, and secure_delete leaves the live rows only.
Truncate ==
  /\ up /\ cleaner = "truncate" /\ cleaner' = "idle"
  /\ disk' = evidence
  /\ sinceClean' = 0
  /\ UNCHANGED <<events, evidence, age, deferred, up>>

\* Mutant: a cleanup whose checkpoint was busy counts as done.
GiveUpQuietly ==
  /\ up /\ cleaner # "idle" /\ cleaner' = "idle"
  /\ sinceClean' = IF cleaner = "truncate" THEN 0 ELSE sinceClean
  /\ UNCHANGED <<events, evidence, disk, age, deferred, up>>

\* A failed statement, the deadline or a busy checkpoint ends the attempt:
\* the error is logged and the next one is made a day later.
GiveUp ==
  /\ up /\ cleaner # "idle" /\ cleaner' = "idle"
  /\ UNCHANGED <<events, evidence, disk, age, deferred, up, sinceClean>>

\* DeleteEvent and DeleteEventsBefore: the rows in one transaction, which
\* the checkpoint follows as a statement of its own.
DeleteEvents(gone) ==
  /\ up /\ deferred = 0 /\ gone # {} /\ gone \subseteq events
  /\ events' = events \ gone /\ evidence' = evidence \ gone
  /\ deferred' = 1
  /\ UNCHANGED <<disk, age, cleaner, up, sinceClean>>

\* A checkpoint that was busy is only reported, in wal_truncated.
Checkpoint ==
  /\ up /\ deferred = 1 /\ deferred' = 0
  /\ disk' \in {disk, evidence}
  /\ UNCHANGED <<events, evidence, age, cleaner, up, sinceClean>>

\* Mutant: the cleanup of the start is the only one.
DayWithoutTicker ==
  /\ up => cleaner = "idle"
  /\ age' = [e \in Events |-> IF e \in events \cup disk THEN Grown(age[e], MaxAge) ELSE 0]
  /\ sinceClean' = Grown(sinceClean, MaxMissed)
  /\ UNCHANGED <<events, evidence, disk, deferred, up, cleaner>>

\* A day passes; the ticker makes the next cleanup due.  A cleanup takes 30
\* seconds at most, so none is under way.
Day ==
  /\ up => cleaner = "idle"
  /\ age' = [e \in Events |-> IF e \in events \cup disk THEN Grown(age[e], MaxAge) ELSE 0]
  /\ sinceClean' = Grown(sinceClean, MaxMissed)
  /\ cleaner' = IF up THEN "due" ELSE cleaner
  /\ UNCHANGED <<events, evidence, disk, deferred, up>>

Crash ==
  /\ up /\ up' = FALSE /\ cleaner' = "idle" /\ deferred' = 0
  /\ UNCHANGED <<events, evidence, disk, age, sinceClean>>

\* startCleanup runs a cleanup before it starts the ticker.
Start ==
  /\ ~up /\ up' = TRUE /\ cleaner' = "due"
  /\ UNCHANGED <<events, evidence, disk, age, deferred, sinceClean>>

RetentionNext ==
  \/ \E e \in Events : RecordBlockedEvent(e)
  \/ ReadRetention \/ Expire \/ (\E days \in RetentionDays : Trim(days)) \/ Truncate \/ GiveUp
  \/ (\E gone \in SUBSET Events : DeleteEvents(gone)) \/ Checkpoint
  \/ Day \/ Crash \/ Start

\* Days pass, the supervisor restarts the process, and no statement of the
\* cleanup fails, is busy or is cut off by a crash every time it is tried.
RetentionFairness ==
  /\ WF_retentionVars(Day) /\ WF_retentionVars(Start)
  /\ SF_retentionVars(ReadRetention) /\ SF_retentionVars(Expire)
  /\ SF_retentionVars(\E days \in RetentionDays : Trim(days)) /\ SF_retentionVars(Truncate)

RetentionSpec ==
  RetentionInit /\ [][RetentionNext]_retentionVars /\ RetentionFairness
-----------------------------------------------------------------------------
RetentionTypeOK ==
  /\ events \subseteq Events /\ evidence \subseteq events /\ evidence \subseteq disk
  /\ disk \subseteq Events /\ age \in [Events -> 0..MaxAge]
  /\ cleaner \in Steps /\ deferred \in {0, 1} /\ up \in BOOLEAN /\ sinceClean \in 0..MaxMissed

\* Expired plaintext is found on disk, rows or log, only for as long as no
\* cleanup ran to its end: failed statements, busy checkpoints, deletions
\* of administrators and crashes delay the erasure but never hide it from
\* the next complete cleanup.
ErasedInTime == \A e \in disk : age[e] <= EvidenceDays + sinceClean

\* Evidence that expired is erased, also from the log.
ExpiredEvidenceErased ==
  \A e \in Events : (e \in disk /\ age[e] > EvidenceDays) ~> e \notin disk
=============================================================================
