------------------------------- MODULE Updater -------------------------------
(***************************************************************************)
(* The host agent of cmd/nocyber-updater: updates and rollbacks of the     *)
(* Guard container on request, one at a time, each as a goroutine that     *)
(* edits the env file, recreates the container, waits for its health check *)
(* and restores the earlier image if that fails.                           *)
(*                                                                         *)
(* Docker, the registry and the Guard container are external: `up' starts  *)
(* the image the env file names or fails, and an image either can become   *)
(* healthy or cannot.  A fault is a crash of the agent (systemd restarts   *)
(* it), a failed command or file operation, or a healthy image that does   *)
(* not answer within 90 seconds.                                           *)
(***************************************************************************)
EXTENDS Naturals

CONSTANTS Calls,      \* calls of POST /v1/update and /v1/rollback
          Digests,    \* pinned images of the official repository
          Initial,    \* the image the env file names at first
          Healthy,    \* the images that can become healthy
          NoImage,    \* no previous image is known
          MaxFaults   \* bound on the faults

ASSUME UpdaterAssumption ==
  /\ Initial \in Healthy
  /\ NoImage \notin Digests \cup {Initial}
  /\ Healthy \subseteq Digests \cup {Initial}
  /\ MaxFaults \in Nat

VARIABLES
  env,      \* NCG_IMAGE in the env file
  running,  \* the image of the Guard container
  op,       \* u.op.State
  previous, \* u.state.PreviousImage
  saved,    \* previous_image in the state file
  call,     \* each call: where it is, its action, target and the image before
  faults

vars == <<env, running, op, previous, saved, call, faults>>
files == <<env, saved>>

Images == Digests \cup {Initial}

NewCall == [at |-> "new", action |-> "update", target |-> NoImage, current |-> NoImage]

Tasks == {"pull", "read", "write", "up", "check", "restore", "restoreUp", "restoreCheck",
          "save", "finish"}

\* The goroutines started by an accepted call.
Running == {c \in Calls : call[c].at \in Tasks}

Init ==
  /\ env = Initial /\ running = Initial
  /\ op = "idle"
  /\ previous = NoImage /\ saved = NoImage
  /\ call = [c \in Calls |-> NewCall]
  /\ faults = 0

Fault == faults < MaxFaults /\ faults' = faults + 1

Goto(c, place) == call' = [call EXCEPT ![c].at = place]

\* u.finish and the end of the goroutine.
finish(c, state) == op' = state /\ Goto(c, "ended")
-----------------------------------------------------------------------------
(* The handlers.                                                           *)

\* Mutant: start does not look at the operation in progress.
startAlways(c, place, action, image) ==
  /\ op' = "running"
  /\ call' = [call EXCEPT ![c] = [at |-> place, action |-> action, target |-> image,
                                  current |-> NoImage]]

\* u.start: one operation at a time, otherwise 409; then the goroutine.
start(c, place, action, image) ==
  IF op = "running" THEN UNCHANGED op /\ Goto(c, "refused")
  ELSE /\ op' = "running"
       /\ call' = [call EXCEPT ![c] = [at |-> place, action |-> action, target |-> image,
                                       current |-> NoImage]]

\* handleUpdate; d is the digest its version will resolve to.
HandleUpdate(c, d) ==
  /\ call[c].at = "new"
  /\ start(c, "pull", "update", d)
  /\ UNCHANGED <<files, running, previous, faults>>

\* handleRollback reads the previous image under the lock and refuses what is not
\* a pinned digest ...
ReadPrevious(c) ==
  /\ call[c].at = "new"
  /\ call' = [call EXCEPT ![c].at = IF previous \in Digests THEN "start" ELSE "refused",
                          ![c].target = previous]
  /\ UNCHANGED <<files, running, op, previous, faults>>

\* ... and starts later, when the previous image may have changed.
StartRollback(c) ==
  /\ call[c].at = "start"
  /\ start(c, "read", "rollback", call[c].target)
  /\ UNCHANGED <<files, running, previous, faults>>
-----------------------------------------------------------------------------
(* runUpdate and runRollback.                                              *)

\* Mutant: a failed pull returns without finish.
PullForgetsFinish(c) ==
  /\ call[c].at = "pull"
  /\ \/ Goto(c, "read") /\ UNCHANGED <<op, faults>>
     \/ Goto(c, "ended") /\ Fault /\ UNCHANGED op
  /\ UNCHANGED <<files, running, previous>>

\* docker pull and resolveDigest.
Pull(c) ==
  /\ call[c].at = "pull"
  /\ \/ Goto(c, "read") /\ UNCHANGED <<op, faults>>
     \/ finish(c, "failed") /\ Fault
  /\ UNCHANGED <<files, running, previous>>

\* readImage; an update to the image the env file names already is over.
ReadImage(c) ==
  /\ call[c].at = "read"
  /\ \/ IF call[c].action = "update" /\ env = call[c].target
        THEN finish(c, "succeeded") /\ UNCHANGED faults
        ELSE /\ call' = [call EXCEPT ![c].at = "write", ![c].current = env]
             /\ UNCHANGED <<op, faults>>
     \/ finish(c, "failed") /\ Fault
  /\ UNCHANGED <<files, running, previous>>

\* writeImage: a temporary file renamed over the env file.
WriteImage(c) ==
  /\ call[c].at = "write"
  /\ \/ env' = call[c].target /\ Goto(c, "up") /\ UNCHANGED <<op, faults>>
     \/ finish(c, "failed") /\ Fault /\ UNCHANGED env
  /\ UNCHANGED <<saved, running, previous>>

\* docker compose up.
Up(c) ==
  /\ call[c].at = "up"
  /\ \/ running' = env /\ Goto(c, "check") /\ UNCHANGED faults
     \/ Goto(c, "restore") /\ Fault /\ UNCHANGED running
  /\ UNCHANGED <<files, op, previous>>

\* The health check.
CheckHealth(c) ==
  /\ call[c].at = "check"
  /\ \/ running \in Healthy /\ Goto(c, "save") /\ UNCHANGED faults
     \/ running \notin Healthy /\ Goto(c, "restore") /\ UNCHANGED faults
     \/ running \in Healthy /\ Goto(c, "restore") /\ Fault
  /\ UNCHANGED <<files, running, op, previous>>

\* Mutant: the env file keeps the image that failed.
RestoreNothing(c) ==
  /\ call[c].at = "restore"
  /\ Goto(c, "restoreUp")
  /\ UNCHANGED <<files, running, op, previous, faults>>

\* writeImage(current), which accepts a pinned digest only.  A failed update gives
\* up if that fails; a failed rollback recreates the container anyway.
Restore(c) ==
  LET refused == IF call[c].action = "update" THEN finish(c, "failed")
                 ELSE Goto(c, "restoreUp") /\ UNCHANGED op
  IN /\ call[c].at = "restore"
     /\ \/ /\ call[c].current \in Digests
           /\ env' = call[c].current
           /\ Goto(c, "restoreUp")
           /\ UNCHANGED <<op, faults>>
        \/ call[c].current \notin Digests /\ refused /\ UNCHANGED <<env, faults>>
        \/ refused /\ Fault /\ UNCHANGED env
     /\ UNCHANGED <<saved, running, previous>>

\* The second recreateAndCheck; its outcome only changes the message.
RestoreUp(c) ==
  /\ call[c].at = "restoreUp"
  /\ \/ running' = env /\ Goto(c, "restoreCheck") /\ UNCHANGED <<op, faults>>
     \/ finish(c, "failed") /\ Fault /\ UNCHANGED running
  /\ UNCHANGED <<files, previous>>

RestoreCheck(c) ==
  /\ call[c].at = "restoreCheck"
  /\ finish(c, "failed")
  /\ UNCHANGED <<files, running, previous, faults>>

\* saveStateLocked: memory first; a failed write of the state file is ignored.
SaveState(c) ==
  /\ call[c].at = "save"
  /\ previous' = call[c].current
  /\ \/ saved' = call[c].current /\ UNCHANGED faults
     \/ UNCHANGED saved /\ Fault
  /\ Goto(c, "finish")
  /\ UNCHANGED <<env, running, op>>

Finish(c) ==
  /\ call[c].at = "finish"
  /\ finish(c, "succeeded")
  /\ UNCHANGED <<files, running, previous, faults>>

\* The agent dies with its goroutines and starts again from its state file.
Crash ==
  /\ Fault
  /\ op' = "idle"
  /\ previous' = saved
  /\ call' = [c \in Calls |-> IF call[c].at \in Tasks \cup {"start"}
                              THEN [call[c] EXCEPT !.at = "lost"] ELSE call[c]]
  /\ UNCHANGED <<files, running>>

Task(c) == \/ Pull(c) \/ ReadImage(c) \/ WriteImage(c) \/ Up(c) \/ CheckHealth(c) \/ Restore(c)
           \/ RestoreUp(c) \/ RestoreCheck(c) \/ SaveState(c) \/ Finish(c)

Next == \/ \E c \in Calls, d \in Digests : HandleUpdate(c, d)
        \/ \E c \in Calls : ReadPrevious(c) \/ StartRollback(c) \/ Task(c)
        \/ Crash

SafetySpec == Init /\ [][Next]_vars

\* Every command and every wait of a task has a deadline.
Spec == SafetySpec /\ \A c \in Calls : WF_vars(Task(c))
-----------------------------------------------------------------------------
TypeOK ==
  /\ env \in Images /\ running \in Images
  /\ op \in {"idle", "running", "succeeded", "failed"}
  /\ previous \in Images \cup {NoImage} /\ saved \in Images \cup {NoImage}
  /\ call \in [Calls -> [at : Tasks \cup {"new", "start", "refused", "ended", "lost"},
                         action : {"update", "rollback"},
                         target : Images \cup {NoImage}, current : Images \cup {NoImage}]]
  /\ faults \in 0..MaxFaults

\* Never two tasks at work on the env file and the container, and none while the
\* status says that nothing is running.
OneTaskAtATime ==
  /\ \A c, d \in Running : c = d
  /\ Running # {} => op = "running"

ReportsSuccess(c) == call[c].at \in Tasks /\ call'[c].at = "ended" /\ op' = "succeeded"

\* Whatever failed and whatever else was called before, success is reported only
\* with the env file naming the image that was asked for, and with the container
\* running it and able to become healthy.  The one report that does not look at
\* the container, of an update to the image the env file names already, can be
\* wrong about it only after a fault (a crash before the container was recreated,
\* a restore that failed) or where a tag named the first image and could not be
\* restored.
SuccessIsReal ==
  [][\A c \in Calls : ReportsSuccess(c) =>
       /\ env = call[c].target
       /\ \/ running = call[c].target /\ running \in Healthy
          \/ call[c].at = "read" /\ (faults > 0 \/ Initial \notin Digests)]_vars

\* From a pinned image on and as long as nothing fails but unhealthy images, the
\* agent leaves a healthy container that matches the env file behind, and offers
\* a rollback only to an image that has been healthy, also to a caller that read
\* it before another operation.
LeavesHealthyContainer ==
  Initial \in Digests /\ faults = 0 =>
    /\ Running = {} => env = running /\ running \in Healthy
    /\ previous \in Healthy \cup {NoImage}
    /\ \A c \in Calls : call[c].at = "start" => call[c].target \in Healthy

\* The agent always becomes free again to accept a call.
OperationEnds == op = "running" ~> op # "running"

\* deploy/updater/README.md: the agent restores the prior image when the health
\* check fails.
PriorImageRestored == faults = 0 /\ Running = {} => running \in Healthy
=============================================================================
